----------------------- MODULE ManifestUpkeep_proofs -----------------------
(***************************************************************************)
(* What the reconciler, the enumerator and the consolidator leave of the   *)
(* manifest for all catalogues, legacy rows, chunk sizes and faults, with  *)
(* nothing paused: which rows an upload can lose, which captures it can    *)
(* hide, and that what its audit condemned it flags.  Only the captures    *)
(* need the rule that a captured row outranks later rows.                  *)
(***************************************************************************)
EXTENDS ManifestUpkeep, TLAPS, WellFoundedInduction

RecType == [pc : {"idle", "audit", "reverse", "merge", "upload"},
            doubt : SUBSET Atom, flagged : SUBSET Atom, frame : Rows]
PastType == [missed : SUBSET Atom, landed : SUBSET Atom, undone : SUBSET Atom]
Typed ==
    /\ index \in Rows /\ fresh \in Rows /\ taken \in Rows /\ con \in Rows
    /\ rec \in RecType /\ past \in PastType

\* A row that the consolidation under way is about to replace is in what it writes, or in a
\* shard it has not read, also when an upload has replaced the index it read.
Folding == taken # NoRows =>
    \A a \in Atom : index[a] # "none" \/ taken[a] # "none" => con[a] # "none" \/ fresh[a] # "none"

\* The frame to upload has a row for each key of the index it replaces that no consolidation
\* changed since, and none for a key without row.
Holding == rec.pc = "upload" =>
    \A a \in Atom : /\ index[a] # "none" => rec.frame[a] # "none" \/ a \in past.landed
                    /\ rec.frame[a] # "none" => Merged[a] # "none"

Base == Typed /\ Folding /\ Holding

\* The verdicts of an apply run: nothing is condemned and absolved, what is condemned is what
\* its audit missed, and the frame claims none of it as captured.
Judging ==
    /\ rec.pc \in {"audit", "reverse", "merge"} => rec.doubt \cap rec.flagged = {}
    /\ rec.pc \in {"reverse", "merge"} => rec.doubt = past.missed
    /\ rec.pc = "upload" => \A a \in past.missed : rec.frame[a] # "captured"

\* What is recorded has its parquet, and names atoms.
Stored == recorded \subseteq objects /\ objects \subseteq Atom /\ run.atoms \subseteq Atom

\* A consolidation writes the recorded captures it replaces, or they wait in a shard.
Firm == taken # NoRows =>
    \A a \in recorded \ past.undone : con[a] = "captured" \/ fresh[a] = "captured"

\* The frame keeps the captures of the index that the audit has not missed and no
\* consolidation changed.
Framed == rec.pc = "upload" =>
    \A a \in Atom \ (past.missed \cup past.landed) : index[a] = "captured" => rec.frame[a] = "captured"

Held == Stored /\ CaptureStands /\ Firm /\ Framed

-----------------------------------------------------------------------------
(* Steps by what they do to the manifest.                                  *)

Quiet == UNCHANGED <<index, fresh, taken, con, rec>>
Appends ==
    /\ \E rows \in Rows : fresh' = Merge(fresh, rows)
    /\ UNCHANGED <<index, taken, con, rec>>
Records ==
    /\ recorded' \subseteq objects' /\ objects' \subseteq Atom /\ run'.atoms \subseteq Atom
    /\ past' \in PastType /\ past'.missed = past.missed /\ past'.landed = past.landed
    /\ \A a \in recorded' \ past'.undone : a \in recorded \ past.undone \/ fresh'[a] = "captured"
Still == UNCHANGED <<objects, recorded, run>>

\* A step of the reconciler that leaves the manifest.
RecQuiet == RecRead \/ RecAudit \/ RecAuditErrs \/ RecReverse \/ RecReverseErrs \/ RecDie

-----------------------------------------------------------------------------
(* The merge.                                                              *)

LEMMA WinsType ==
    ASSUME NEW x \in Status, NEW y \in Status
    PROVE  /\ Wins(x, y) \in Status
           /\ Wins(x, y) = "none" <=> x = "none" /\ y = "none"
           /\ Wins(x, "none") = x /\ Wins("none", x) = x
           /\ Wins(x, "captured") = "captured"
           /\ Wins(x, y) = "captured" => x = "captured" \/ y = "captured"
           /\ Outranks /\ (x = "captured" \/ y = "captured") => Wins(x, y) = "captured"
  BY DEF Wins, Status

LEMMA WinsAssoc ==
    ASSUME NEW x \in Status, NEW y \in Status, NEW z \in Status
    PROVE  Wins(x, Wins(y, z)) = Wins(Wins(x, y), z)
  BY DEF Wins, Status

LEMMA MergeType ==
    ASSUME NEW f \in Rows, NEW g \in Rows
    PROVE  Merge(f, g) \in Rows /\ \A a \in Atom : Merge(f, g)[a] = Wins(f[a], g[a])
  <1>1. \A a \in Atom : f[a] \in Status /\ g[a] \in Status
    BY DEF Rows
  <1>2. \A a \in Atom : Wins(f[a], g[a]) \in Status
    BY <1>1, WinsType
  <1>. QED
    BY <1>2 DEF Merge, Rows

LEMMA NoRowsType == NoRows \in Rows /\ \A a \in Atom : NoRows[a] = "none"
  BY DEF NoRows, Rows, Status

\* Every reader's row of a key.
Row(a) == Wins(Wins(index[a], taken[a]), fresh[a])

LEMMA MergedIs ==
    ASSUME index \in Rows, taken \in Rows, fresh \in Rows
    PROVE  Merged \in Rows /\ \A a \in Atom : Merged[a] = Row(a)
  <1>1. Merge(index, taken) \in Rows /\ \A a \in Atom : Merge(index, taken)[a] = Wins(index[a], taken[a])
    BY MergeType
  <1>. QED
    BY <1>1, MergeType DEF Merged, Row

LEMMA MergedIsNext ==
    ASSUME Typed'
    PROVE  Merged' \in Rows /\ \A a \in Atom : Merged'[a] = Wins(Wins(index'[a], taken'[a]), fresh'[a])
  <1>1. index' \in Rows /\ taken' \in Rows /\ fresh' \in Rows
    BY DEF Typed
  <1>2. /\ Merge(index', taken') \in Rows
        /\ \A a \in Atom : Merge(index', taken')[a] = Wins(index'[a], taken'[a])
    BY <1>1, MergeType
  <1>. QED
    BY <1>1, <1>2, MergeType DEF Merged

LEMMA RowTypes ==
    ASSUME Typed, NEW a \in Atom
    PROVE  /\ index[a] \in Status /\ taken[a] \in Status /\ fresh[a] \in Status /\ con[a] \in Status
           /\ rec.frame[a] \in Status
           /\ Wins(index[a], taken[a]) \in Status
  BY WinsType DEF Typed, Rows, RecType

\* Which rows make the merged one a row, and a captured one.
LEMMA RowIs ==
    ASSUME Typed, NEW a \in Atom
    PROVE  /\ Merged[a] \in Status
           /\ Merged[a] # "none" <=> index[a] # "none" \/ taken[a] # "none" \/ fresh[a] # "none"
           /\ Merged[a] = "captured" => "captured" \in {index[a], taken[a], fresh[a]}
           /\ Outranks /\ "captured" \in {index[a], taken[a], fresh[a]} => Merged[a] = "captured"
  <1>1. Merged[a] = Wins(Wins(index[a], taken[a]), fresh[a])
    BY MergedIs DEF Row, Typed
  <1>. QED
    BY <1>1, RowTypes, WinsType

LEMMA RowIsNext ==
    ASSUME Typed', NEW a \in Atom
    PROVE  /\ Merged'[a] # "none" <=> index'[a] # "none" \/ taken'[a] # "none" \/ fresh'[a] # "none"
           /\ Merged'[a] = "captured" => "captured" \in {index'[a], taken'[a], fresh'[a]}
           /\ Outranks /\ "captured" \in {index'[a], taken'[a], fresh'[a]} => Merged'[a] = "captured"
  <1>1. Merged'[a] = Wins(Wins(index'[a], taken'[a]), fresh'[a])
    BY MergedIsNext
  <1>2. index'[a] \in Status /\ taken'[a] \in Status /\ fresh'[a] \in Status
    BY DEF Typed, Rows
  <1>3. Wins(index'[a], taken'[a]) \in Status
    BY <1>2, WinsType
  <1>. QED
    BY <1>1, <1>2, <1>3, WinsType

LEMMA SettledType ==
    ASSUME past \in PastType
    PROVE  /\ Settled \in PastType /\ Settled.undone = past.undone
           /\ Settled.missed = {} /\ Settled.landed = {}
  BY DEF Settled, PastType

-----------------------------------------------------------------------------
(* The actions.                                                            *)

\* What the runner and the enumerator append are rows of statuses.
LEMMA PutAppends ==
    ASSUME Typed, NEW S, NEW s \in Status, fresh' = Put(S, s), UNCHANGED <<index, taken, con, rec>>
    PROVE  Appends /\ (s = "captured" => \A a \in Atom \cap S : fresh'[a] = "captured")
  <1>. DEFINE rows == [a \in Atom |-> IF a \in S THEN s ELSE "none"]
  <1>1. rows \in Rows
    BY DEF Rows, Status
  <1>2. fresh' = Merge(fresh, rows)
    BY DEF Put
  <1>3. ASSUME s = "captured", NEW a \in Atom \cap S PROVE fresh'[a] = "captured"
    <2>1. fresh'[a] = Wins(fresh[a], "captured")
      BY <1>1, <1>2, <1>3, MergeType DEF Typed
    <2>. QED
      BY <2>1, WinsType DEF Typed, Rows, Status
  <1>. QED
    BY <1>1, <1>2, <1>3 DEF Appends

LEMMA SeedsAppend ==
    ASSUME EnuFlush
    PROVE  Appends /\ Still /\ past' = past
  <1>1. Seeds \in Rows
    BY DEF Seeds, Rows, Status
  <1>. QED
    BY <1>1 DEF EnuFlush, Appends, Still

\* A step that records nothing new.
LEMMA Unrecorded ==
    ASSUME Typed, Stored, objects' \subseteq Atom, run'.atoms \subseteq Atom,
           recorded' \subseteq recorded, recorded' \subseteq objects', past' = past
    PROVE  Records
  BY DEF Records, Typed

\* Every step is one of the consolidator's or the reconciler's, or it leaves them alone and
\* appends at most.
LEMMA Kinds ==
    ASSUME Typed, Stored, Next
    PROVE  \/ (Quiet \/ Appends) /\ Records
           \/ (ConRead \/ ConWrite \/ ConDie \/ RecQuiet \/ RecMerge \/ RecUpload) /\ Still
  <1>1. CASE ConRead \/ ConWrite \/ ConDie
    BY <1>1 DEF ConRead, ConWrite, ConDie, Still
  <1>2. CASE RecQuiet \/ RecMerge \/ RecUpload
    BY <1>2 DEF RecQuiet, RecRead, RecAudit, RecAuditErrs, RecReverse, RecReverseErrs, RecMerge,
                RecUpload, RecDie, Still
  <1>3. CASE EnuReadIndex \/ EnuReadShards \/ EnuSkipShards \/ EnuHalt \/ EnuEnd \/ EnuDie
    <2>1. UNCHANGED <<index, fresh, taken, con, rec, objects, recorded, run, past>>
      BY <1>3 DEF EnuReadIndex, EnuReadShards, EnuSkipShards, EnuHalt, EnuEnd, EnuDie, manifest
    <2>. QED
      BY <2>1, Unrecorded DEF Quiet, Stored
  <1>4. CASE EnuFlush
    BY <1>4, SeedsAppend, Unrecorded DEF Still, Stored
  <1>5. CASE \E a \in Atom : RunStart(a) \/ RunForce(a)
    <2>1. UNCHANGED <<index, fresh, taken, con, rec, objects, recorded, past>> /\ run'.atoms \subseteq Atom
      BY <1>5 DEF RunStart, RunForce, manifest
    <2>. QED
      BY <2>1, Unrecorded DEF Quiet, Stored
  <1>6. CASE \E a \in Atom : Lose(a)
    <2>1. UNCHANGED <<index, fresh, taken, con, rec, run, past>>
      BY <1>6 DEF Lose, manifest
    <2>2. recorded' \subseteq recorded /\ recorded' \subseteq objects' /\ objects' \subseteq objects
      BY <1>6 DEF Lose, Stored
    <2>. QED
      BY <2>1, <2>2, Unrecorded DEF Quiet, Stored
  <1>7. CASE RunStore
    <2>1. UNCHANGED <<index, fresh, taken, con, rec, recorded, past>>
      BY <1>7 DEF RunStore, manifest
    <2>2. objects' = objects \cup run.atoms /\ run'.atoms = run.atoms
      <3>1. run' = [run EXCEPT !.pc = "record"]
        BY <1>7 DEF RunStore
      <3>. QED
        BY <1>7, <3>1 DEF RunStore
    <2>. QED
      BY <2>1, <2>2, Unrecorded DEF Quiet, Stored
  <1>8. CASE RunRecord
    <2>1. Appends /\ \A a \in Atom \cap run.atoms : fresh'[a] = "captured"
      BY <1>8, PutAppends DEF RunRecord, Status
    <2>2. run'.atoms = {}
      BY <1>8 DEF RunRecord, RunIdle
    <2>3. recorded' = recorded \cup (run.atoms \cap objects) /\ objects' = objects
      BY <1>8 DEF RunRecord
    <2>4. /\ past' \in PastType /\ past'.missed = past.missed /\ past'.landed = past.landed
          /\ past'.undone = past.undone \ run.atoms
      BY <1>8 DEF RunRecord, Typed, PastType
    <2>. QED
      BY <2>1, <2>2, <2>3, <2>4 DEF Records, Stored
  <1>9. CASE RunEmpty \/ RunFail
    <2>1. Appends
      BY <1>9, PutAppends DEF RunEmpty, RunFail, Status
    <2>2. run'.atoms = {} /\ UNCHANGED <<recorded, objects, past>>
      BY <1>9 DEF RunEmpty, RunFail, RunIdle
    <2>. QED
      BY <2>1, <2>2, Unrecorded DEF Stored
  <1>10. CASE RunDie
    <2>1. UNCHANGED <<index, fresh, taken, con, rec, objects, recorded, past>> /\ run'.atoms = {}
      BY <1>10 DEF RunDie, RunIdle, manifest
    <2>. QED
      BY <2>1, Unrecorded DEF Quiet, Stored
  <1>. QED
    BY <1>1, <1>2, <1>3, <1>4, <1>5, <1>6, <1>7, <1>8, <1>9, <1>10
    DEF Next, Consolidate, Reconcile, RecQuiet, Enumerate

-----------------------------------------------------------------------------
(* What each kind of step does to the rows every reader sees.              *)

SameRows == \A a \in Atom : Merged'[a] = Merged[a]
KeepsRows == \A a \in Atom : Merged[a] # "none" => Merged'[a] # "none"

LEMMA SameKeeps == ASSUME SameRows PROVE KeepsRows
  BY DEF SameRows, KeepsRows

\* A step that changes none of what the merge is made of.
LEMMA UntouchedRows ==
    ASSUME UNCHANGED <<index, fresh, taken>>
    PROVE  SameRows
  BY DEF SameRows, Merged, Merge

LEMMA InitBase == Init => Base /\ Judging
  <1>. SUFFICES ASSUME Init PROVE Base /\ Judging
    OBVIOUS
  <1>1. rec \in RecType /\ rec.pc = "idle"
    BY NoRowsType DEF Init, RecIdle, RecType
  <1>2. past \in PastType
    BY DEF Init, PastNone, PastType
  <1>. QED
    BY <1>1, <1>2, NoRowsType DEF Init, Base, Typed, Folding, Holding, Judging

LEMMA QuietBase ==
    ASSUME Base, Quiet, past' \in PastType, past'.landed = past.landed
    PROVE  Base' /\ SameRows
  <1>1. SameRows
    BY UntouchedRows DEF Quiet
  <1>. QED
    BY <1>1 DEF Base, Quiet, Typed, Folding, Holding, SameRows

LEMMA AppendsBase ==
    ASSUME Base, Appends, past' \in PastType, past'.landed = past.landed
    PROVE  /\ Base' /\ KeepsRows
           /\ Outranks => \A a \in Atom : /\ Merged[a] = "captured" => Merged'[a] = "captured"
                                          /\ fresh[a] = "captured" => fresh'[a] = "captured"
           /\ Outranks => \A a \in Atom : fresh'[a] = "captured" => Merged'[a] = "captured"
  <1>1. PICK rows \in Rows : fresh' = Merge(fresh, rows)
    BY DEF Appends
  <1>2. UNCHANGED <<index, taken, con, rec>>
    BY DEF Appends
  <1>3. fresh' \in Rows /\ \A a \in Atom : fresh'[a] = Wins(fresh[a], rows[a])
    BY <1>1, MergeType DEF Base, Typed
  <1>4. Typed'
    BY <1>2, <1>3 DEF Base, Typed
  <1>5. ASSUME NEW a \in Atom
        PROVE  /\ fresh[a] # "none" => fresh'[a] # "none"
               /\ Outranks /\ fresh[a] = "captured" => fresh'[a] = "captured"
    <2>1. fresh[a] \in Status /\ rows[a] \in Status
      BY RowTypes DEF Base, Rows
    <2>. QED
      BY <1>3, <2>1, WinsType
  <1>6. KeepsRows
    BY <1>2, <1>4, <1>5, RowIs, RowIsNext DEF KeepsRows, Base
  <1>7. Folding'
    BY <1>2, <1>5 DEF Base, Folding
  <1>8. Holding'
    BY <1>2, <1>6 DEF Base, Holding, KeepsRows
  <1>9. ASSUME Outranks, NEW a \in Atom
        PROVE  /\ Merged[a] = "captured" => Merged'[a] = "captured"
               /\ fresh'[a] = "captured" => Merged'[a] = "captured"
    BY <1>2, <1>4, <1>5, <1>9, RowIs, RowIsNext DEF Base
  <1>. QED
    BY <1>4, <1>5, <1>6, <1>7, <1>8, <1>9 DEF Base

LEMMA ConReadBase ==
    ASSUME Base, ConRead
    PROVE  Base' /\ SameRows
  <1>1. /\ taken = NoRows /\ con' = Merge(index, fresh) /\ taken' = fresh /\ fresh' = NoRows
        /\ index' = index /\ rec' = rec /\ past' = past
    BY DEF ConRead
  <1>2. Typed'
    BY <1>1, MergeType, NoRowsType DEF Base, Typed
  <1>3. ASSUME NEW a \in Atom
        PROVE  index'[a] # "none" \/ taken'[a] # "none" => con'[a] # "none"
    BY <1>1, MergeType, RowTypes, WinsType DEF Base, Typed
  <1>4. Folding'
    BY <1>3 DEF Folding
  <1>5. ASSUME NEW a \in Atom PROVE Merged'[a] = Merged[a]
    <2>1. Merged[a] = Wins(Wins(index[a], "none"), fresh[a])
      BY <1>1, MergedIs, NoRowsType DEF Row, Base, Typed
    <2>2. Merged'[a] = Wins(Wins(index[a], fresh[a]), "none")
      BY <1>1, <1>2, MergedIsNext, NoRowsType
    <2>. QED
      BY <2>1, <2>2, RowTypes, WinsType DEF Base
  <1>6. Holding'
    BY <1>1, <1>5 DEF Base, Holding
  <1>. QED
    BY <1>2, <1>4, <1>5, <1>6 DEF Base, SameRows

\* What a consolidation changes in the index while an upload is due has landed.
LEMMA ConWritePast ==
    ASSUME Typed, ConWrite
    PROVE  /\ past' \in PastType /\ past'.missed = past.missed /\ past'.undone = past.undone
           /\ rec.pc = "upload" => past'.landed = past.landed \cup {a \in Atom : con[a] # index[a]}
  <1>1. CASE rec.pc # "upload"
    BY <1>1 DEF ConWrite, Typed
  <1>2. CASE rec.pc = "upload"
    <2>. DEFINE changed == {a \in Atom : con[a] # index[a]}
    <2>1. past' = [past EXCEPT !.landed = past.landed \cup changed] /\ changed \subseteq Atom
      BY <1>2 DEF ConWrite, Typed, PastType
    <2>. HIDE DEF changed
    <2>2. /\ past' \in PastType /\ past'.missed = past.missed /\ past'.undone = past.undone
          /\ past'.landed = past.landed \cup changed
      BY <2>1 DEF Typed, PastType
    <2>. QED
      BY <2>2 DEF changed
  <1>. QED
    BY <1>1, <1>2

LEMMA ConWriteBase ==
    ASSUME Base, ConWrite
    PROVE  /\ Base' /\ KeepsRows
           /\ \A a \in Atom : Outranks /\ (con[a] = "captured" \/ fresh[a] = "captured")
                            => Merged'[a] = "captured"
  <1>1. /\ taken # NoRows /\ index' = con /\ con' = NoRows /\ taken' = NoRows
        /\ fresh' = fresh /\ rec' = rec
    BY DEF ConWrite
  <1>2. Typed'
    BY <1>1, ConWritePast, NoRowsType DEF Base, Typed
  <1>3. KeepsRows
    <2>1. ASSUME NEW a \in Atom, Merged[a] # "none" PROVE Merged'[a] # "none"
      <3>1. con[a] # "none" \/ fresh[a] # "none"
        BY <1>1, <2>1, RowIs DEF Base, Folding
      <3>. QED
        BY <1>1, <1>2, <3>1, RowIsNext
    <2>. QED
      BY <2>1 DEF KeepsRows
  <1>4. Folding'
    BY <1>1 DEF Folding
  <1>5. Holding'
    <2>. SUFFICES ASSUME rec.pc = "upload", NEW a \in Atom
                  PROVE  /\ index'[a] # "none" => rec.frame[a] # "none" \/ a \in past'.landed
                         /\ rec.frame[a] # "none" => Merged'[a] # "none"
      BY <1>1 DEF Holding
    <2>1. index'[a] # "none" => rec.frame[a] # "none" \/ a \in past'.landed
      <3>1. CASE con[a] = index[a]
        BY <1>1, <3>1, ConWritePast DEF Base, Holding
      <3>2. CASE con[a] # index[a]
        BY <3>2, ConWritePast DEF Base
      <3>. QED
        BY <3>1, <3>2
    <2>2. rec.frame[a] # "none" => Merged'[a] # "none"
      BY <1>3 DEF Base, Holding, KeepsRows
    <2>. QED
      BY <2>1, <2>2
  <1>6. ASSUME NEW a \in Atom, con[a] = "captured" \/ fresh[a] = "captured", Outranks
        PROVE  Merged'[a] = "captured"
    BY <1>1, <1>2, <1>6, RowIsNext
  <1>. QED
    BY <1>2, <1>3, <1>4, <1>5, <1>6 DEF Base

LEMMA ConDieBase ==
    ASSUME Base, ConDie
    PROVE  Base' /\ SameRows
  <1>1. /\ taken # NoRows /\ fresh' = Merge(taken, fresh) /\ con' = NoRows /\ taken' = NoRows
        /\ index' = index /\ rec' = rec /\ past' = past
    BY DEF ConDie
  <1>2. Typed'
    BY <1>1, MergeType, NoRowsType DEF Base, Typed
  <1>3. ASSUME NEW a \in Atom PROVE Merged'[a] = Merged[a]
    <2>1. fresh'[a] = Wins(taken[a], fresh[a])
      BY <1>1, MergeType DEF Base, Typed
    <2>2. Merged'[a] = Wins(Wins(index[a], "none"), fresh'[a])
      BY <1>1, <1>2, MergedIsNext, NoRowsType
    <2>3. Merged'[a] = Wins(index[a], Wins(taken[a], fresh[a]))
      BY <2>1, <2>2, RowTypes, WinsType DEF Base
    <2>4. Merged'[a] = Wins(Wins(index[a], taken[a]), fresh[a])
      BY <2>3, RowTypes, WinsAssoc DEF Base
    <2>. QED
      BY <2>4, MergedIs DEF Row, Base, Typed
  <1>4. Folding' /\ Holding'
    BY <1>1, <1>3 DEF Base, Folding, Holding
  <1>. QED
    BY <1>2, <1>3, <1>4 DEF Base, SameRows

-----------------------------------------------------------------------------
(* The reconciler.                                                         *)

LEMMA RecIdleType == RecIdle \in RecType /\ RecIdle.pc = "idle"
  BY NoRowsType DEF RecIdle, RecType

\* What the audit does not find is condemned, and is all that counts as missed.
LEMMA ForwardType ==
    ASSUME Typed, NEW seen, Forward(seen)
    PROVE  /\ rec' \in RecType /\ rec'.pc = "reverse"
           /\ rec'.doubt \subseteq rec.doubt /\ rec'.flagged = rec.flagged
           /\ past' \in PastType /\ past'.undone = past.undone
           /\ past'.missed = rec'.doubt
  <1>. DEFINE gone == rec.doubt \ seen
  <1>1. /\ rec' = [rec EXCEPT !.pc = "reverse", !.doubt = gone]
        /\ past' = [past EXCEPT !.missed = gone]
    BY DEF Forward, Phantoms
  <1>2. gone \subseteq rec.doubt /\ gone \in SUBSET Atom
    BY DEF Typed, RecType
  <1>. HIDE DEF gone
  <1>. QED
    BY <1>1, <1>2 DEF Typed, RecType, PastType

\* The reverse audit only narrows what is to be absolved.
LEMMA ReverseType ==
    ASSUME Typed, NEW seen, Reverse(seen)
    PROVE  /\ rec' \in RecType /\ rec'.pc \in {"idle", "merge"}
           /\ rec'.pc = "merge" => rec'.doubt = rec.doubt /\ rec'.flagged \subseteq rec.flagged
  <1>. DEFINE found == rec.flagged \cap seen
  <1>1. rec' = RecIdle \/ rec' = [rec EXCEPT !.pc = "merge", !.flagged = found]
    BY DEF Reverse
  <1>2. found \subseteq rec.flagged /\ found \in SUBSET Atom
    BY DEF Typed, RecType
  <1>. HIDE DEF found
  <1>. QED
    BY <1>1, <1>2, RecIdleType DEF Typed, RecType

\* What a step of the reconciler that leaves the manifest does to its own state.
LEMMA RecQuietStep ==
    ASSUME Typed, Judging, RecQuiet
    PROVE  /\ UNCHANGED <<index, fresh, taken, con>>
           /\ rec' \in RecType /\ rec'.pc # "upload"
           /\ past' \in PastType /\ past'.undone = past.undone
           /\ Judging'
  <1>1. UNCHANGED <<index, fresh, taken, con>>
    BY DEF RecQuiet, RecRead, RecAudit, RecAuditErrs, RecReverse, RecReverseErrs, RecDie, manifest
  <1>2. CASE RecRead
    <2>1. PICK passes : rec' = [pc |-> "audit", frame |-> Merged,
                                doubt |-> {a \in Atom : "forward" \in passes /\ Merged[a] = "captured"},
                                flagged |-> {a \in Atom : "reverse" \in passes /\ Merged[a] = "phantom"}]
      BY <1>2 DEF RecRead
    <2>2. Merged \in Rows
      BY MergedIs DEF Typed
    <2>3. rec' \in RecType /\ rec'.pc = "audit" /\ rec'.doubt \cap rec'.flagged = {}
      BY <2>1, <2>2 DEF RecType
    <2>. QED
      BY <1>1, <1>2, <2>3 DEF RecRead, Judging, Typed
  <1>3. ASSUME NEW seen, Forward(seen), rec.pc = "audit"
        PROVE  /\ rec' \in RecType /\ rec'.pc # "upload"
               /\ past' \in PastType /\ past'.undone = past.undone
               /\ Judging'
    BY <1>3, ForwardType DEF Judging
  <1>4. ASSUME NEW seen, Reverse(seen), rec.pc = "reverse"
        PROVE  /\ rec' \in RecType /\ rec'.pc \in {"idle", "merge"}
               /\ past' = past => Judging'
    BY <1>4, ReverseType DEF Judging
  <1>5. CASE RecAudit
    BY <1>1, <1>3, <1>5 DEF RecAudit
  <1>6. rec' = RecIdle => rec' \in RecType /\ rec'.pc # "upload" /\ Judging'
    BY RecIdleType DEF Judging
  <1>7. CASE RecAuditErrs
    <2>1. PICK failed \in SUBSET rec.doubt :
             IF failed \cap Raises # {} THEN rec' = RecIdle /\ UNCHANGED past ELSE Forward(objects \ failed)
      BY <1>7 DEF RecAuditErrs
    <2>2. rec.pc = "audit"
      BY <1>7 DEF RecAuditErrs
    <2>. QED
      BY <1>1, <1>3, <1>6, <2>1, <2>2 DEF Typed
  <1>8. CASE RecReverse
    BY <1>1, <1>4, <1>8 DEF RecReverse, Typed
  <1>9. CASE RecReverseErrs
    <2>1. PICK failed \in SUBSET rec.flagged :
             IF failed \cap Raises # {} THEN rec' = RecIdle ELSE Reverse(objects \ failed)
      BY <1>9 DEF RecReverseErrs
    <2>2. rec.pc = "reverse" /\ past' = IF rec'.pc = "idle" THEN Settled ELSE past
      BY <1>9 DEF RecReverseErrs
    <2>3. rec' \in RecType /\ rec'.pc \in {"idle", "merge"}
      BY <1>4, <2>1, <2>2, RecIdleType
    <2>4. CASE rec'.pc = "idle"
      BY <1>1, <2>2, <2>3, <2>4, SettledType DEF Judging, Typed
    <2>5. CASE rec'.pc = "merge"
      BY <1>1, <1>4, <2>1, <2>2, <2>3, <2>5, RecIdleType DEF Typed
    <2>. QED
      BY <2>3, <2>4, <2>5
  <1>10. CASE RecDie
    BY <1>1, <1>6, <1>10, SettledType DEF RecDie, Typed
  <1>. QED
    BY <1>2, <1>5, <1>7, <1>8, <1>9, <1>10 DEF RecQuiet

LEMMA RecQuietBase ==
    ASSUME Base, Judging, RecQuiet
    PROVE  Base' /\ SameRows
  <1>1. /\ UNCHANGED <<index, fresh, taken, con>>
        /\ rec' \in RecType /\ rec'.pc # "upload" /\ past' \in PastType
    BY RecQuietStep DEF Base
  <1>2. SameRows
    BY <1>1, UntouchedRows
  <1>. QED
    BY <1>1, <1>2 DEF Base, Typed, Folding, Holding

\* The flip keeps a row wherever there was one and gives none to a key without; it keeps the
\* captures it is not told to flag, and claims none it is told to.
LEMMA FlipType ==
    ASSUME NEW rows \in Rows, NEW phantoms, NEW found
    PROVE  /\ Flip(rows, phantoms, found) \in Rows
           /\ \A a \in Atom :
                /\ rows[a] # "none" <=> Flip(rows, phantoms, found)[a] # "none"
                /\ rows[a] = "captured" /\ a \notin phantoms => Flip(rows, phantoms, found)[a] = "captured"
                /\ a \in phantoms \ found => Flip(rows, phantoms, found)[a] # "captured"
  BY DEF Flip, Rows, Status

LEMMA RecMergeBase ==
    ASSUME Base, Judging, RecMerge
    PROVE  /\ Base' /\ Judging' /\ SameRows /\ rec'.pc = "upload"
           /\ UNCHANGED <<index, fresh, taken, con, past>>
           /\ \A a \in Atom \ past.missed : Merged[a] = "captured" => rec'.frame[a] = "captured"
  <1>. DEFINE f == Flip(Merged, rec.doubt, rec.flagged)
  <1>1. UNCHANGED <<index, fresh, taken, con, past>> /\ rec.pc = "merge"
    BY DEF RecMerge, manifest
  <1>2. Merged \in Rows
    BY MergedIs DEF Base, Typed
  <1>3. /\ f \in Rows
        /\ \A a \in Atom : /\ Merged[a] # "none" <=> f[a] # "none"
                           /\ Merged[a] = "captured" /\ a \notin rec.doubt => f[a] = "captured"
                           /\ a \in rec.doubt \ rec.flagged => f[a] # "captured"
    BY <1>2, FlipType
  <1>4. rec' = [RecIdle EXCEPT !.pc = "upload", !.frame = f]
    BY DEF RecMerge
  <1>. HIDE DEF f
  <1>5. rec' \in RecType /\ rec'.pc = "upload" /\ rec'.frame = f
    BY <1>3, <1>4 DEF RecIdle, RecType
  <1>6. rec.doubt = past.missed /\ rec.doubt \cap rec.flagged = {} /\ past.missed \subseteq Atom
    BY <1>1 DEF Judging, Base, Typed, PastType
  <1>7. SameRows
    BY <1>1, UntouchedRows
  <1>8. Typed' /\ Folding'
    BY <1>1, <1>5 DEF Base, Typed, Folding
  <1>9. Holding'
    <2>1. ASSUME NEW a \in Atom
          PROVE  /\ index'[a] # "none" => rec'.frame[a] # "none"
                 /\ rec'.frame[a] # "none" => Merged'[a] # "none"
      BY <1>1, <1>3, <1>5, <1>7, RowIs DEF Base, SameRows
    <2>. QED
      BY <2>1 DEF Holding
  <1>10. Judging'
    BY <1>1, <1>3, <1>5, <1>6 DEF Judging
  <1>. QED
    BY <1>1, <1>3, <1>5, <1>6, <1>7, <1>8, <1>9, <1>10 DEF Base

\* An upload keeps the rows that have not landed since the second read, and what is captured
\* in its frame or in a shard is captured.
LEMMA RecUploadBase ==
    ASSUME Base, RecUpload
    PROVE  /\ Base' /\ Judging' /\ rec'.pc = "idle"
           /\ \A a \in Atom \ past.landed : Merged[a] # "none" => Merged'[a] # "none"
           /\ UNCHANGED <<fresh, taken, con>>
           /\ past'.undone = past.undone \cup ((past.missed \cup past.landed) \ Outstanding)
           /\ \A a \in Atom : /\ Merged'[a] = "captured" => rec.frame[a] = "captured" \/ a \in Outstanding
                              /\ Outranks /\ (rec.frame[a] = "captured" \/ a \in Outstanding)
                                   => Merged'[a] = "captured"
  <1>1. /\ rec.pc = "upload" /\ index' = rec.frame /\ rec' = RecIdle
        /\ UNCHANGED <<fresh, taken, con>>
    BY DEF RecUpload
  <1>2. /\ past' \in PastType
        /\ past'.undone = past.undone \cup ((past.missed \cup past.landed) \ Outstanding)
    <2>. DEFINE over == past.undone \cup ((past.missed \cup past.landed) \ Outstanding)
    <2>1. Settled \in PastType /\ Settled.undone = past.undone
      BY SettledType DEF Base, Typed
    <2>2. over \in SUBSET Atom
      BY DEF Base, Typed, PastType
    <2>3. past' = [Settled EXCEPT !.undone = over]
      BY <2>1 DEF RecUpload, PastType
    <2>. HIDE DEF over
    <2>4. past' \in PastType /\ past'.undone = over
      BY <2>1, <2>2, <2>3 DEF PastType
    <2>. QED
      BY <2>4 DEF over
  <1>3. Typed'
    BY <1>1, <1>2, RecIdleType DEF Base, Typed, RecType
  <1>4. Folding'
    <2>. SUFFICES ASSUME taken # NoRows, NEW a \in Atom, rec.frame[a] # "none" \/ taken[a] # "none"
                  PROVE  con[a] # "none" \/ fresh[a] # "none"
      BY <1>1 DEF Folding
    <2>1. Merged[a] # "none"
      BY <1>1, RowIs DEF Base, Holding
    <2>. QED
      BY <2>1, RowIs DEF Base, Folding
  <1>5. Holding' /\ Judging'
    BY <1>1, RecIdleType DEF Holding, Judging
  <1>6. ASSUME NEW a \in Atom \ past.landed, Merged[a] # "none" PROVE Merged'[a] # "none"
    <2>1. index[a] # "none" \/ taken[a] # "none" \/ fresh[a] # "none"
      BY <1>6, RowIs DEF Base
    <2>2. rec.frame[a] # "none" \/ taken[a] # "none" \/ fresh[a] # "none"
      BY <1>1, <2>1 DEF Base, Holding
    <2>. QED
      BY <1>1, <1>3, <2>2, RowIsNext
  <1>7. ASSUME NEW a \in Atom
        PROVE  /\ Merged'[a] = "captured" => rec.frame[a] = "captured" \/ a \in Outstanding
               /\ Outranks /\ (rec.frame[a] = "captured" \/ a \in Outstanding) => Merged'[a] = "captured"
    <2>1. a \in Outstanding <=> fresh[a] = "captured" \/ taken[a] = "captured"
      BY DEF Outstanding
    <2>. QED
      BY <1>1, <1>3, <2>1, RowIsNext
  <1>. QED
    BY <1>1, <1>2, <1>3, <1>4, <1>5, <1>6, <1>7, RecIdleType DEF Base

-----------------------------------------------------------------------------
(* No row is lost but what landed after the second read.                   *)

LEMMA NextBase ==
    ASSUME Base, Judging, Stored, Next
    PROVE  Base' /\ Judging' /\ (KeepsRows \/ RecUpload)
  <1>1. CASE (Quiet \/ Appends) /\ Records
    <2>1. past' \in PastType /\ past'.landed = past.landed /\ past'.missed = past.missed
      BY <1>1 DEF Records
    <2>2. Base' /\ KeepsRows
      BY <1>1, <2>1, QuietBase, AppendsBase, SameKeeps
    <2>3. rec' = rec
      BY <1>1 DEF Quiet, Appends
    <2>. QED
      BY <2>1, <2>2, <2>3 DEF Judging
  <1>2. CASE ConRead \/ ConDie
    <2>1. rec' = rec /\ past' = past
      BY <1>2 DEF ConRead, ConDie
    <2>2. Judging'
      BY <2>1 DEF Judging
    <2>. QED
      BY <1>2, <2>2, ConReadBase, ConDieBase, SameKeeps
  <1>3. CASE ConWrite
    <2>1. rec' = rec /\ past'.missed = past.missed
      BY <1>3, ConWritePast DEF ConWrite, Base
    <2>2. Judging'
      BY <2>1 DEF Judging
    <2>. QED
      BY <1>3, <2>2, ConWriteBase
  <1>4. CASE RecQuiet
    BY <1>4, RecQuietBase, RecQuietStep, SameKeeps DEF Base
  <1>5. CASE RecMerge
    BY <1>5, RecMergeBase, SameKeeps
  <1>6. CASE RecUpload
    BY <1>6, RecUploadBase
  <1>. QED
    BY <1>1, <1>2, <1>3, <1>4, <1>5, <1>6, Kinds DEF Base

LEMMA NextStored ==
    ASSUME Typed, Stored, Next
    PROVE  Stored'
  BY Kinds DEF Records, Still, Stored

\* What is left when no step is taken.
LEMMA Stutter ==
    ASSUME Base, Judging, Stored, UNCHANGED vars
    PROVE  Base' /\ Judging' /\ Stored'
  <1>1. Quiet /\ past' = past /\ past' \in PastType /\ Stored'
    BY DEF Quiet, vars, Base, Typed, Stored
  <1>2. Base'
    BY <1>1, QuietBase
  <1>. QED
    BY <1>1, <1>2 DEF Quiet, Judging

LEMMA InitStored == Init => Stored
  BY DEF Init, Stored, RunIdle

\* No key of the manifest loses its row but by an upload that overwrites what a consolidation
\* has changed since the second read (NoRowLost), with nothing paused, whichever rule decides
\* between two rows, whatever the listings answer, and wherever a job dies: the frame has a
\* row for each key of the index it replaces but those, and a consolidation writes a row for
\* each key of the index it replaces, also when an upload has come between.
THEOREM NoRowLostSafe == Spec => NoRowLost
  <1>. DEFINE Kept ==
         \A a \in Atom : Merged[a] # "none" /\ Merged'[a] = "none" => RecUpload /\ a \in past.landed
  <1>1. Init => Base /\ Judging /\ Stored
    BY InitBase, InitStored
  <1>2. Base /\ Judging /\ Stored /\ [Next]_vars => (Base /\ Judging /\ Stored)'
    BY NextBase, NextStored, Stutter DEF Base
  <1>3. Base /\ Judging /\ Stored /\ [Next]_vars => [Kept]_vars
    BY NextBase, RecUploadBase DEF KeepsRows
  <1>. QED
    BY <1>1, <1>2, <1>3, PTL DEF Spec, NoRowLost

\* What the audit of an apply run missed is not claimed as captured after its upload, unless
\* a capture is outstanding in a shard (PhantomsFlipped), whatever rule, deaths and listing
\* errors: the condemned rows and the absolved ones never overlap, since one read separates
\* the captured from the flagged.
THEOREM PhantomsFlippedSafe == Spec => PhantomsFlipped
  <1>. DEFINE Claims == RecUpload => \A a \in past.missed \ Outstanding : Merged'[a] # "captured"
  <1>1. Init => Base /\ Judging /\ Stored
    BY InitBase, InitStored
  <1>2. Base /\ Judging /\ Stored /\ [Next]_vars => (Base /\ Judging /\ Stored)'
    BY NextBase, NextStored, Stutter DEF Base
  <1>3. Base /\ Judging => Claims
    <2>. SUFFICES ASSUME Base, Judging, RecUpload, NEW a \in past.missed \ Outstanding
                  PROVE  Merged'[a] # "captured"
      OBVIOUS
    <2>1. a \in Atom /\ rec.frame[a] # "captured"
      BY DEF Base, Typed, PastType, Judging, RecUpload
    <2>. QED
      BY <2>1, RecUploadBase
  <1>. QED
    BY <1>1, <1>2, <1>3, PTL DEF Spec, PhantomsFlipped

-----------------------------------------------------------------------------
(* No recorded capture is hidden but by an upload's last word.             *)

\* A step outside the reconciler: a row recorded before it stays captured, one recorded by
\* it is captured in a shard.
LEMMA AppendsHeld ==
    ASSUME Base, Held, Outranks, Quiet \/ Appends, Records
    PROVE  Held'
  <1>1. UNCHANGED <<index, taken, con, rec>>
    BY DEF Quiet, Appends
  <1>2. past' \in PastType /\ past'.landed = past.landed /\ past'.missed = past.missed
    BY DEF Records
  <1>3. ASSUME NEW a \in Atom
        PROVE  /\ Merged[a] = "captured" => Merged'[a] = "captured"
               /\ fresh[a] = "captured" => fresh'[a] = "captured"
               /\ fresh'[a] = "captured" => Merged'[a] = "captured"
    <2>1. CASE Appends
      BY <1>2, <2>1, AppendsBase
    <2>2. CASE Quiet
      <3>1. SameRows /\ fresh' = fresh
        BY <1>2, <2>2, QuietBase DEF Quiet
      <3>2. fresh[a] = "captured" => Merged[a] = "captured"
        BY RowIs DEF Base
      <3>. QED
        BY <3>1, <3>2 DEF SameRows
    <2>. QED
      BY <2>1, <2>2
  <1>4. recorded' \subseteq Atom /\ Stored'
    BY DEF Records, Stored
  <1>5. CaptureStands'
    BY <1>3, <1>4 DEF Held, CaptureStands, Records
  <1>6. Firm'
    BY <1>1, <1>3, <1>4 DEF Held, Firm, Records
  <1>7. Framed'
    BY <1>1, <1>2 DEF Held, Framed
  <1>. QED
    BY <1>4, <1>5, <1>6, <1>7 DEF Held

\* A step that changes no row, no consolidation and no upload that is due.
LEMMA CalmHeld ==
    ASSUME Held, SameRows, Still, UNCHANGED <<con, fresh, taken>>, past'.undone = past.undone,
           rec'.pc # "upload"
    PROVE  Held'
  BY DEF Held, Stored, CaptureStands, SameRows, Still, Firm, Framed

LEMMA ConReadHeld ==
    ASSUME Base, Held, Outranks, ConRead, Still
    PROVE  Held'
  <1>1. /\ taken = NoRows /\ con' = Merge(index, fresh) /\ index' = index /\ rec' = rec /\ past' = past
    BY DEF ConRead
  <1>2. SameRows
    BY ConReadBase
  <1>3. ASSUME NEW a \in Atom, Merged[a] = "captured" PROVE con'[a] = "captured"
    <2>1. index[a] = "captured" \/ fresh[a] = "captured"
      BY <1>1, <1>3, RowIs, NoRowsType DEF Base
    <2>2. con'[a] = Wins(index[a], fresh[a])
      BY <1>1, MergeType DEF Base, Typed
    <2>. QED
      BY <2>1, <2>2, RowTypes, WinsType DEF Base
  <1>4. Firm'
    BY <1>1, <1>3 DEF Held, Stored, CaptureStands, Firm, Still
  <1>. QED
    BY <1>1, <1>2, <1>4 DEF Held, Stored, CaptureStands, SameRows, Still, Framed

LEMMA ConWriteHeld ==
    ASSUME Base, Held, Outranks, ConWrite, Still
    PROVE  Held'
  <1>1. taken # NoRows /\ index' = con /\ taken' = NoRows /\ fresh' = fresh /\ rec' = rec
    BY DEF ConWrite
  <1>2. /\ past'.missed = past.missed /\ past'.undone = past.undone
        /\ rec.pc = "upload" => past'.landed = past.landed \cup {a \in Atom : con[a] # index[a]}
    BY ConWritePast DEF Base
  <1>3. CaptureStands'
    <2>1. ASSUME NEW a \in recorded \ past.undone PROVE Merged'[a] = "captured"
      <3>1. a \in Atom /\ (con[a] = "captured" \/ fresh[a] = "captured")
        BY <1>1 DEF Held, Stored, Firm
      <3>. QED
        BY <3>1, ConWriteBase
    <2>. QED
      BY <1>2, <2>1 DEF CaptureStands, Still
  <1>4. Framed'
    <2>1. ASSUME rec.pc = "upload", NEW a \in Atom \ (past'.missed \cup past'.landed), con[a] = "captured"
          PROVE  rec.frame[a] = "captured"
      <3>1. con[a] = index[a] /\ a \notin past.missed \cup past.landed
        BY <1>2, <2>1
      <3>. QED
        BY <2>1, <3>1 DEF Held, Framed
    <2>. QED
      BY <1>1, <2>1 DEF Framed
  <1>5. Firm'
    BY <1>1 DEF Firm
  <1>. QED
    BY <1>3, <1>4, <1>5 DEF Held, Stored, Still

LEMMA ConDieHeld ==
    ASSUME Base, Held, ConDie, Still
    PROVE  Held'
  <1>1. taken' = NoRows /\ index' = index /\ rec' = rec /\ past' = past
    BY DEF ConDie
  <1>2. SameRows
    BY ConDieBase
  <1>. QED
    BY <1>1, <1>2 DEF Held, Stored, CaptureStands, SameRows, Still, Firm, Framed

LEMMA RecMergeHeld ==
    ASSUME Base, Judging, Held, Outranks, RecMerge, Still
    PROVE  Held'
  <1>1. /\ SameRows /\ UNCHANGED <<index, fresh, taken, con, past>>
        /\ \A a \in Atom \ past.missed : Merged[a] = "captured" => rec'.frame[a] = "captured"
    BY RecMergeBase
  <1>2. Framed'
    <2>1. ASSUME NEW a \in Atom \ past.missed, index[a] = "captured" PROVE rec'.frame[a] = "captured"
      BY <1>1, <2>1, RowIs DEF Base
    <2>. QED
      BY <1>1, <2>1 DEF Framed
  <1>. QED
    BY <1>1, <1>2 DEF Held, Stored, CaptureStands, SameRows, Still, Firm

LEMMA RecUploadHeld ==
    ASSUME Base, Held, Outranks, RecUpload, Still
    PROVE  Held'
  <1>1. /\ rec.pc = "upload" /\ rec'.pc = "idle" /\ UNCHANGED <<fresh, taken, con>>
        /\ past'.undone = past.undone \cup ((past.missed \cup past.landed) \ Outstanding)
        /\ \A a \in Atom : rec.frame[a] = "captured" \/ a \in Outstanding => Merged'[a] = "captured"
    BY RecUploadBase DEF RecUpload
  <1>2. ASSUME NEW a \in recorded \ past'.undone PROVE Merged'[a] = "captured"
    <2>1. a \in Atom /\ a \in recorded \ past.undone
      BY <1>1 DEF Held, Stored
    <2>2. CASE a \in Outstanding
      BY <1>1, <2>1, <2>2
    <2>3. CASE a \notin Outstanding
      <3>1. a \notin past.missed \cup past.landed
        BY <1>1, <2>3
      <3>2. index[a] = "captured"
        BY <2>1, <2>3, RowIs DEF Held, CaptureStands, Outstanding, Base
      <3>. QED
        BY <1>1, <2>1, <3>1, <3>2 DEF Held, Framed
    <2>. QED
      BY <2>2, <2>3
  <1>3. Firm'
    BY <1>1 DEF Held, Firm, Still
  <1>. QED
    BY <1>1, <1>2, <1>3 DEF Held, Stored, CaptureStands, Still, Framed

LEMMA InitHeld == Init => Held
  <1>. SUFFICES ASSUME Init PROVE Held
    OBVIOUS
  <1>1. ASSUME NEW a \in recorded PROVE Merged[a] = "captured"
    <2>1. a \in Atom /\ index[a] = "captured" /\ taken[a] = "none" /\ fresh[a] = "none"
      BY NoRowsType DEF Init
    <2>. QED
      BY <2>1, InitBase, MergedIs, WinsType DEF Row, Base, Typed, Status
  <1>. QED
    BY <1>1, InitStored DEF Held, CaptureStands, Firm, Framed, Init, RecIdle

LEMMA NextHeld ==
    ASSUME Base, Judging, Held, Outranks, Next
    PROVE  Held'
  <1>1. CASE (Quiet \/ Appends) /\ Records
    BY <1>1, AppendsHeld
  <1>2. CASE (ConRead \/ ConWrite \/ ConDie) /\ Still
    BY <1>2, ConReadHeld, ConWriteHeld, ConDieHeld
  <1>3. CASE RecQuiet /\ Still
    BY <1>3, RecQuietBase, RecQuietStep, CalmHeld DEF Base
  <1>4. CASE RecMerge /\ Still
    BY <1>4, RecMergeHeld
  <1>5. CASE RecUpload /\ Still
    BY <1>5, RecUploadHeld
  <1>. QED
    BY <1>1, <1>2, <1>3, <1>4, <1>5, Kinds DEF Base, Held

\* When captured rows outrank the others, every reader sees the captures whose parquet is
\* stored (CaptureStands) but those an upload had the last word on: its audit had missed
\* them, or a consolidation brought them into the index after its second read, and no shard
\* held the capture any more. Nothing is paused, any listing may fail, and whether that ends
\* the audit or condemns what it should have shown makes no difference.
THEOREM CaptureStandsSafe ==
    ASSUME Outranks
    PROVE  Spec => []CaptureStands
  <1>. DEFINE Inv == Base /\ Judging /\ Held
  <1>1. Init => Inv
    BY InitBase, InitHeld
  <1>2. Inv /\ [Next]_vars => Inv'
    <2>1. ASSUME Inv, Next PROVE Inv'
      BY <2>1, NextBase, NextHeld DEF Held
    <2>2. ASSUME Inv, UNCHANGED vars PROVE Inv'
      <3>1. Base' /\ Judging' /\ Stored'
        BY <2>2, Stutter DEF Held
      <3>2. SameRows
        BY <2>2, UntouchedRows DEF vars
      <3>3. CaptureStands' /\ Firm' /\ Framed'
        BY <2>2, <3>2 DEF Held, Stored, CaptureStands, SameRows, Firm, Framed, vars
      <3>. QED
        BY <3>1, <3>3 DEF Held
    <2>. QED
      BY <2>1, <2>2
  <1>3. Inv => CaptureStands
    BY DEF Held
  <1>. QED
    BY <1>1, <1>2, <1>3, PTL DEF Spec

-----------------------------------------------------------------------------
(* Types.  What the enumerator yields is defined by recursion along the    *)
(* catalogue; that the recursion has a value, and that the value is a      *)
(* sequence of atoms, follows from the order of the naturals being well    *)
(* founded.                                                                *)

LEMMA NatLeast ==
    ASSUME NEW T \in SUBSET Nat, T # {}
    PROVE  \E x \in T : \A y \in T : x <= y
  <1>. DEFINE R == OpToRel(<, Nat)
  <1>1. IsWellFoundedOn(R, Nat)
    BY NatLessThanWellFounded
  <1>2. R = {ss \in Nat \X Nat : ss[1] < ss[2]}
    BY DEF OpToRel
  <1>. HIDE DEF R
  <1>3. PICK x \in T : \A y \in T : ~ (<<y, x>> \in R)
    BY <1>1, WFMin
  <1>4. ASSUME NEW y \in T PROVE x <= y
    <2>1. x \in Nat /\ y \in Nat
      OBVIOUS
    <2>2. ~ (y < x)
      BY <1>2, <1>3, <2>1
    <2>. QED
      BY <2>1, <2>2
  <1>. QED
    BY <1>4

LEMMA YieldedIsSeq ==
    ASSUME NEW present, NEW captured
    PROVE  Yielded(present, captured) \in Seq(Atom)
  <1>. DEFINE N == Len(Catalog)
              due(a) == IF a \in Absent THEN a \notin captured ELSE a \notin present
              next(f, n) == IF n = 0 THEN <<>>
                            ELSE IF due(Catalog[n]) THEN Append(f[n - 1], Catalog[n]) ELSE f[n - 1]
              upTo == CHOOSE f : f = [n \in 0..N |-> next(f, n)]
              Sofar(k, g) == g \in [0..k -> Seq(Atom)] /\ \A n \in 0..k : g[n] = next(g, n)
  <1>1. Yielded(present, captured) = upTo[N]
    BY DEF Yielded
  <1>2. N \in Nat /\ \A n \in 1..N : Catalog[n] \in Atom
    BY UpkeepAssumption DEF Atom
  <1>. HIDE DEF due
  <1>3. ASSUME NEW k \in 0..N, k # 0, NEW s \in Seq(Atom), NEW f, f[k - 1] = s
        PROVE  next(f, k) \in Seq(Atom)
    BY <1>2, <1>3
  <1>4. \A k \in 0..N : \E g : Sofar(k, g)
    <2>. DEFINE T == {k \in 0..N : ~ \E g : Sofar(k, g)}
    <2>. SUFFICES ASSUME T # {} PROVE FALSE
      OBVIOUS
    <2>1. T \in SUBSET Nat
      BY <1>2
    <2>. HIDE DEF T
    <2>2. PICK k \in T : \A y \in T : k <= y
      BY <2>1, NatLeast
    <2>3. k \in 0..N /\ ~ \E g : Sofar(k, g)
      BY <2>2 DEF T
    <2>4. k # 0
      <3>. SUFFICES ASSUME k = 0 PROVE FALSE
        OBVIOUS
      <3>. DEFINE g == [n \in 0..0 |-> <<>>]
      <3>1. g \in [0..0 -> Seq(Atom)] /\ \A n \in 0..0 : n = 0 /\ g[n] = <<>>
        OBVIOUS
      <3>. HIDE DEF g
      <3>2. Sofar(0, g)
        BY <3>1
      <3>. QED
        BY <2>3, <3>2
    <2>5. k - 1 \in 0..N /\ k - 1 \notin T
      BY <1>2, <2>2, <2>3, <2>4
    <2>6. PICK g : Sofar(k - 1, g)
      BY <2>5 DEF T
    <2>. DEFINE h == [n \in 0..k |-> IF n = k THEN next(g, k) ELSE g[n]]
    <2>7. next(g, k) \in Seq(Atom)
      BY <1>2, <1>3, <2>3, <2>4, <2>6
    <2>8. \A n \in 0..k : n = k \/ n \in 0..(k - 1)
      BY <1>2, <2>3
    <2>9. h \in [0..k -> Seq(Atom)] /\ h[k] = next(g, k) /\ \A n \in 0..(k - 1) : h[n] = g[n]
      <3>. HIDE DEF next
      <3>. QED
        BY <1>2, <2>3, <2>6, <2>7, <2>8
    <2>. HIDE DEF h
    <2>10. ASSUME NEW n \in 0..k PROVE h[n] = next(h, n)
      <3>1. n # 0 => n - 1 \in 0..(k - 1)
        BY <1>2, <2>3
      <3>2. n # 0 => h[n - 1] = g[n - 1]
        BY <2>9, <3>1
      <3>3. next(h, n) = next(g, n)
        BY <3>2
      <3>4. h[n] = next(g, n)
        BY <2>6, <2>8, <2>9
      <3>. QED
        BY <3>3, <3>4
    <2>. QED
      BY <2>3, <2>9, <2>10
  <1>5. PICK g : Sofar(N, g)
    <2>1. N \in 0..N
      BY <1>2
    <2>. HIDE DEF Sofar, N
    <2>. QED
      BY <1>4, <2>1
  <1>6. g = [n \in 0..N |-> next(g, n)]
    <2>. HIDE DEF next
    <2>. QED
      BY <1>5
  <1>7. upTo = [n \in 0..N |-> next(upTo, n)]
    <2>. HIDE DEF next
    <2>. QED
      BY <1>6
  <1>8. \A n \in 0..N : upTo[n] = next(upTo, n)
    <2>. HIDE DEF next, upTo
    <2>. QED
      BY <1>7
  <1>. HIDE DEF upTo
  <1>9. \A n \in 0..N : upTo[n] \in Seq(Atom)
    <2>. DEFINE T == {n \in 0..N : upTo[n] \notin Seq(Atom)}
    <2>. SUFFICES ASSUME T # {} PROVE FALSE
      OBVIOUS
    <2>1. T \in SUBSET Nat
      BY <1>2
    <2>. HIDE DEF T
    <2>2. PICK k \in T : \A y \in T : k <= y
      BY <2>1, NatLeast
    <2>3. k \in 0..N /\ upTo[k] \notin Seq(Atom) /\ upTo[k] = next(upTo, k)
      BY <1>8, <2>2 DEF T
    <2>4. k # 0
      BY <2>3
    <2>5. k - 1 \in 0..N /\ k - 1 \notin T
      BY <1>2, <2>2, <2>3, <2>4
    <2>6. upTo[k - 1] \in Seq(Atom)
      BY <2>5 DEF T
    <2>. QED
      BY <1>3, <2>3, <2>4, <2>6
  <1>. QED
    BY <1>1, <1>2, <1>9

EnuType == [pc : {"idle", "shards", "write"}, present : SUBSET Atom, captured : SUBSET Atom,
            todo : Seq(Atom), written : 0..MaxWrites]
RunType == [pc : {"idle", "fetch", "record"}, atoms : SUBSET Atom]

\* TypeOK by the parts that a step changes together.
ManifestTyped == index \in Rows /\ fresh \in Rows /\ taken \in Rows /\ con \in Rows
RecTyped == rec \in RecType /\ (rec.pc = "idle" => rec = RecIdle) /\ past \in PastType
EnuTyped == enu \in EnuType /\ enu.captured \subseteq enu.present
RunTyped ==
    /\ run \in RunType /\ recorded \subseteq objects /\ objects \subseteq Atom
    /\ faults \in 0..MaxFaults
UpTyped == ManifestTyped /\ RecTyped /\ EnuTyped /\ RunTyped

LEMMA UpTypedImplies == UpTyped => TypeOK
  BY DEF UpTyped, ManifestTyped, RecTyped, EnuTyped, RunTyped, RecType, PastType, EnuType, RunType, TypeOK

LEMMA EnuIdleType == EnuIdle \in EnuType /\ EnuIdle.captured \subseteq EnuIdle.present
  <1>1. 0 \in 0..MaxWrites /\ <<>> \in Seq(Atom)
    BY UpkeepAssumption
  <1>. QED
    BY <1>1 DEF EnuIdle, EnuType

LEMMA InitUpTyped == Init => UpTyped
  <1>. SUFFICES ASSUME Init PROVE UpTyped
    OBVIOUS
  <1>1. ManifestTyped
    BY NoRowsType DEF Init, ManifestTyped
  <1>2. RecTyped
    BY RecIdleType, InitBase DEF Init, RecTyped, Base, Typed
  <1>3. EnuTyped
    BY EnuIdleType DEF Init, EnuTyped
  <1>4. run \in RunType
    BY DEF Init, RunIdle, RunType
  <1>5. RunTyped
    BY <1>4, UpkeepAssumption DEF Init, RunTyped
  <1>. QED
    BY <1>1, <1>2, <1>3, <1>5 DEF UpTyped

LEMMA FaultTyped ==
    ASSUME UpTyped, Fault
    PROVE  faults' \in 0..MaxFaults
  BY UpkeepAssumption DEF Fault, UpTyped, RunTyped

LEMMA UpTypedBase == ASSUME UpTyped PROVE Typed
  BY DEF UpTyped, ManifestTyped, RecTyped, Typed

LEMMA ConTyped ==
    ASSUME UpTyped, ConRead \/ ConWrite \/ ConDie
    PROVE  UpTyped'
  <1>1. ManifestTyped'
    BY MergeType, NoRowsType DEF UpTyped, ManifestTyped, ConRead, ConWrite, ConDie
  <1>2. UNCHANGED <<objects, recorded, rec, enu, run>> /\ faults' \in 0..MaxFaults
    BY FaultTyped DEF UpTyped, RunTyped, ConRead, ConWrite, ConDie
  <1>3. past' \in PastType
    <2>1. CASE ConWrite
      BY <2>1, ConWritePast, UpTypedBase
    <2>2. CASE ConRead \/ ConDie
      BY <2>2 DEF ConRead, ConDie, UpTyped, RecTyped
    <2>. QED
      BY <2>1, <2>2
  <1>. QED
    BY <1>1, <1>2, <1>3 DEF UpTyped, RecTyped, EnuTyped, RunTyped

LEMMA RecTypedStep ==
    ASSUME UpTyped, Reconcile
    PROVE  RecTyped'
  <1>1. Typed /\ rec \in RecType
    BY UpTypedBase DEF Typed
  <1>2. past \in PastType /\ Settled \in PastType
    BY <1>1, SettledType DEF Typed
  <1>3. RecIdle \in RecType
    BY RecIdleType
  <1>4. ASSUME NEW seen, Forward(seen)
        PROVE  RecTyped'
    BY <1>1, <1>4, ForwardType DEF RecTyped
  <1>5. ASSUME NEW seen, Reverse(seen)
        PROVE  rec' \in RecType /\ (rec'.pc = "idle" => rec' = RecIdle)
    <2>1. CASE rec' = RecIdle
      BY <1>3, <2>1
    <2>2. CASE rec' # RecIdle
      <3>. DEFINE found == rec.flagged \cap seen
      <3>1. rec' = [rec EXCEPT !.pc = "merge", !.flagged = found] /\ found \in SUBSET Atom
        BY <1>1, <1>5, <2>2 DEF Reverse, RecType
      <3>. HIDE DEF found
      <3>. QED
        BY <1>1, <3>1 DEF RecType
    <2>. QED
      BY <2>1, <2>2
  <1>6. CASE RecRead
    <2>1. PICK passes : rec' = [pc |-> "audit", frame |-> Merged,
                                doubt |-> {a \in Atom : "forward" \in passes /\ Merged[a] = "captured"},
                                flagged |-> {a \in Atom : "reverse" \in passes /\ Merged[a] = "phantom"}]
      BY <1>6 DEF RecRead
    <2>2. Merged \in Rows
      BY <1>1, MergedIs DEF Typed
    <2>3. rec' \in RecType /\ rec'.pc = "audit"
      BY <2>1, <2>2 DEF RecType
    <2>. QED
      BY <1>2, <1>6, <2>3 DEF RecRead, RecTyped
  <1>7. CASE RecAudit
    BY <1>4, <1>7 DEF RecAudit
  <1>8. CASE RecAuditErrs
    <2>1. PICK failed \in SUBSET rec.doubt :
             IF failed \cap Raises # {} THEN rec' = RecIdle /\ UNCHANGED past ELSE Forward(objects \ failed)
      BY <1>8 DEF RecAuditErrs
    <2>. QED
      BY <1>2, <1>3, <1>4, <2>1 DEF RecTyped
  <1>9. CASE RecReverse
    BY <1>2, <1>5, <1>9 DEF RecReverse, RecTyped
  <1>10. CASE RecReverseErrs
    <2>1. PICK failed \in SUBSET rec.flagged :
             IF failed \cap Raises # {} THEN rec' = RecIdle ELSE Reverse(objects \ failed)
      BY <1>10 DEF RecReverseErrs
    <2>2. rec' \in RecType /\ (rec'.pc = "idle" => rec' = RecIdle)
      BY <1>3, <1>5, <2>1
    <2>3. past' = IF rec'.pc = "idle" THEN Settled ELSE past
      BY <1>10 DEF RecReverseErrs
    <2>. QED
      BY <1>2, <2>2, <2>3 DEF RecTyped
  <1>11. CASE RecMerge
    <2>. DEFINE f == Flip(Merged, rec.doubt, rec.flagged)
    <2>1. f \in Rows
      BY <1>1, FlipType, MergedIs DEF Typed
    <2>2. rec' = [RecIdle EXCEPT !.pc = "upload", !.frame = f] /\ past' = past
      BY <1>11 DEF RecMerge
    <2>. HIDE DEF f
    <2>3. rec' \in RecType /\ rec'.pc = "upload"
      BY <2>1, <2>2 DEF RecIdle, RecType
    <2>. QED
      BY <1>2, <2>2, <2>3 DEF RecTyped
  <1>12. CASE RecUpload
    <2>. DEFINE over == past.undone \cup ((past.missed \cup past.landed) \ Outstanding)
    <2>1. over \in SUBSET Atom
      BY <1>2 DEF PastType
    <2>2. past' = [Settled EXCEPT !.undone = over]
      BY <1>2, SettledType, <1>12 DEF RecUpload, PastType
    <2>. HIDE DEF over
    <2>3. past' \in PastType
      BY <1>2, <2>1, <2>2 DEF PastType
    <2>. QED
      BY <1>3, <1>12, <2>3 DEF RecUpload, RecTyped
  <1>13. CASE RecDie
    BY <1>2, <1>3, <1>13 DEF RecDie, RecTyped
  <1>. QED
    BY <1>6, <1>7, <1>8, <1>9, <1>10, <1>11, <1>12, <1>13 DEF Reconcile

LEMMA RecStepTyped ==
    ASSUME UpTyped, Reconcile
    PROVE  UpTyped'
  <1>1. UNCHANGED <<fresh, taken, con, objects, recorded, enu, run>>
    BY DEF Reconcile, RecRead, RecAudit, RecAuditErrs, RecReverse, RecReverseErrs, RecMerge,
           RecUpload, RecDie, manifest
  <1>2. faults' \in 0..MaxFaults
    BY FaultTyped DEF UpTyped, RunTyped, Reconcile, RecRead, RecAudit, RecAuditErrs, RecReverse,
                      RecReverseErrs, RecMerge, RecUpload, RecDie
  <1>3. index' \in Rows
    <2>1. rec.frame \in Rows /\ index \in Rows
      BY DEF UpTyped, RecTyped, RecType, ManifestTyped
    <2>. QED
      BY <2>1 DEF Reconcile, RecRead, RecAudit, RecAuditErrs, RecReverse, RecReverseErrs, RecMerge,
                  RecUpload, RecDie, manifest
  <1>4. RecTyped'
    BY RecTypedStep
  <1>. QED
    BY <1>1, <1>2, <1>3, <1>4 DEF UpTyped, ManifestTyped, EnuTyped, RunTyped

\* A step of the enumerator that writes no part.
LEMMA EnuStepTyped ==
    ASSUME UpTyped, EnuReadIndex \/ EnuReadShards \/ EnuSkipShards \/ EnuHalt \/ EnuEnd \/ EnuDie
    PROVE  UpTyped'
  <1>1. UNCHANGED <<index, fresh, taken, con, objects, recorded, rec, past, run>>
    BY DEF EnuReadIndex, EnuReadShards, EnuSkipShards, EnuHalt, EnuEnd, EnuDie, manifest
  <1>2. faults' \in 0..MaxFaults
    BY FaultTyped DEF UpTyped, RunTyped, EnuReadIndex, EnuReadShards, EnuSkipShards, EnuHalt, EnuEnd, EnuDie
  <1>3. ASSUME EnuReadIndex
        PROVE  EnuTyped'
    BY <1>3, EnuIdleType DEF EnuReadIndex, EnuTyped, EnuType, Present, CapturedIn
  <1>4. ASSUME NEW todo \in Seq(Atom), enu' = [EnuIdle EXCEPT !.pc = "write", !.todo = todo]
        PROVE  EnuTyped'
    BY <1>4, EnuIdleType DEF EnuTyped, EnuType
  <1>5. ASSUME EnuReadShards
        PROVE  EnuTyped'
    <2>. DEFINE p == enu.present \cup Present(Merge(taken, fresh))
                c == enu.captured \cup CapturedIn(Merge(taken, fresh))
    <2>1. Yielded(p, c) \in Seq(Atom)
      BY YieldedIsSeq
    <2>. QED
      BY <1>4, <1>5, <2>1 DEF EnuReadShards
  <1>6. ASSUME EnuSkipShards
        PROVE  EnuTyped'
    <2>1. Yielded(enu.present, enu.captured) \in Seq(Atom)
      BY YieldedIsSeq
    <2>. QED
      BY <1>4, <1>6, <2>1 DEF EnuSkipShards
  <1>7. ASSUME EnuHalt \/ EnuEnd \/ EnuDie
        PROVE  EnuTyped'
    BY <1>7, EnuIdleType DEF EnuHalt, EnuEnd, EnuDie, EnuTyped
  <1>8. EnuTyped'
    BY <1>3, <1>5, <1>6, <1>7
  <1>. QED
    BY <1>1, <1>2, <1>8 DEF UpTyped, ManifestTyped, RecTyped, RunTyped

\* A part file holds at most a chunk, and none is written beyond the limit.
LEMMA EnuFlushTyped ==
    ASSUME UpTyped, EnuFlush
    PROVE  UpTyped'
  <1>1. enu \in EnuType /\ enu.captured \subseteq enu.present /\ enu.todo \in Seq(Atom)
    BY DEF UpTyped, EnuTyped, EnuType
  <1>2. ChunkLen \in Nat /\ ChunkLen <= Len(enu.todo)
    BY <1>1, UpkeepAssumption DEF ChunkLen
  <1>. DEFINE left == SubSeq(enu.todo, ChunkLen + 1, Len(enu.todo))
              more == enu.written + ChunkLen
  <1>3. left \in Seq(Atom)
    BY <1>1, <1>2
  <1>4. more \in 0..MaxWrites
    <2>1. enu.written \in Nat /\ MaxWrites \in Nat
      BY <1>1, UpkeepAssumption DEF EnuType
    <2>. QED
      BY <1>2, <2>1 DEF EnuFlush
  <1>5. enu' = [enu EXCEPT !.todo = left, !.written = more]
    BY <1>1 DEF EnuFlush, EnuType
  <1>. HIDE DEF left, more
  <1>6. EnuTyped'
    BY <1>1, <1>3, <1>4, <1>5 DEF EnuTyped, EnuType
  <1>7. Seeds \in Rows
    BY DEF Seeds, Rows, Status
  <1>8. ManifestTyped'
    BY <1>7, MergeType DEF EnuFlush, UpTyped, ManifestTyped
  <1>. QED
    BY <1>6, <1>8 DEF EnuFlush, UpTyped, RecTyped, RunTyped

LEMMA RunnerTyped ==
    ASSUME UpTyped,
           \/ \E a \in Atom : RunStart(a) \/ RunForce(a) \/ Lose(a)
           \/ RunStore \/ RunRecord \/ RunEmpty \/ RunFail \/ RunDie
    PROVE  UpTyped'
  <1>1. UNCHANGED <<index, taken, con, rec, enu>>
    BY DEF RunStart, RunForce, Lose, RunStore, RunRecord, RunEmpty, RunFail, RunDie, manifest
  <1>2. faults' \in 0..MaxFaults
    BY FaultTyped DEF UpTyped, RunTyped, RunStart, RunForce, Lose, RunStore, RunRecord, RunEmpty,
                      RunFail, RunDie
  <1>3. fresh' \in Rows
    <2>1. ASSUME NEW s \in Status, NEW S PROVE Put(S, s) \in Rows
      <3>1. [a \in Atom |-> IF a \in S THEN s ELSE "none"] \in Rows
        BY DEF Rows, Status
      <3>. QED
        BY <3>1, MergeType DEF Put, UpTyped, ManifestTyped
    <2>2. {"captured", "empty", "failed"} \subseteq Status
      BY DEF Status
    <2>. QED
      BY <2>1, <2>2 DEF RunStart, RunForce, Lose, RunStore, RunRecord, RunEmpty, RunFail, RunDie,
                        manifest, UpTyped, ManifestTyped
  <1>4. run' \in RunType /\ recorded' \subseteq objects' /\ objects' \subseteq Atom
    <2>1. run \in RunType /\ run.atoms \subseteq Atom /\ recorded \subseteq objects /\ objects \subseteq Atom
      BY DEF UpTyped, RunTyped, RunType
    <2>2. RunIdle \in RunType
      BY DEF RunIdle, RunType
    <2>3. CASE \E a \in Atom : RunStart(a) \/ RunForce(a) \/ Lose(a)
      BY <2>1, <2>3 DEF RunStart, RunForce, Lose, RunType
    <2>4. CASE RunStore
      BY <2>1, <2>4 DEF RunStore, RunType
    <2>5. CASE RunRecord \/ RunEmpty \/ RunFail \/ RunDie
      BY <2>1, <2>2, <2>5 DEF RunRecord, RunEmpty, RunFail, RunDie
    <2>. QED
      BY <2>3, <2>4, <2>5
  <1>5. past' \in PastType
    <2>1. past \in PastType
      BY DEF UpTyped, RecTyped
    <2>2. past' = past \/ past' = [past EXCEPT !.undone = past.undone \ run.atoms]
      BY <2>1 DEF RunStart, RunForce, Lose, RunStore, RunRecord, RunEmpty, RunFail, RunDie, PastType
    <2>. QED
      BY <2>1, <2>2 DEF PastType
  <1>. QED
    BY <1>1, <1>2, <1>3, <1>4, <1>5 DEF UpTyped, ManifestTyped, RecTyped, EnuTyped, RunTyped

\* The state is well typed, whichever rule decides between two rows (TypeOK): nothing of an
\* apply run outlives it, and the enumerator never writes beyond --max-writes-per-run.
THEOREM UpkeepTypes == Spec => []TypeOK
  <1>1. UpTyped /\ [Next]_vars => UpTyped'
    <2>1. ASSUME UpTyped, Next PROVE UpTyped'
      BY <2>1, ConTyped, RecStepTyped, EnuStepTyped, EnuFlushTyped, RunnerTyped
      DEF Next, Consolidate, Enumerate
    <2>2. ASSUME UpTyped, UNCHANGED vars PROVE UpTyped'
      BY <2>2 DEF vars, UpTyped, ManifestTyped, RecTyped, EnuTyped, RunTyped
    <2>. QED
      BY <2>1, <2>2
  <1>. QED
    BY <1>1, InitUpTyped, UpTypedImplies, PTL DEF Spec
=============================================================================
