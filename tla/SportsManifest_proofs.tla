----------------------- MODULE SportsManifest_proofs -----------------------
(***************************************************************************)
(* What the operators on sports rows give: the proofs about the three      *)
(* sports components cite these facts instead of the definitions.          *)
(***************************************************************************)
EXTENDS SportsManifest, TLAPS

LEMMA NoRowsFacts ==
    /\ IsRows(NoRows) /\ DOMAIN NoRows = {} /\ Captured(NoRows) = {}
    /\ \A d : CapturedLeagues(NoRows, d) = {}
  <1>1. DOMAIN NoRows = {}
    BY DEF NoRows
  <1>2. NoRows = [k \in DOMAIN NoRows |-> NoRows[k]]
    BY DEF NoRows
  <1>. QED
    BY <1>1, <1>2 DEF IsRows, Captured, CapturedLeagues

\* One status for each of the keys.
LEMMA StampFacts ==
    ASSUME NEW keys \in SUBSET Key, NEW status \in Status
    PROVE  /\ IsRows(Stamp(keys, status))
           /\ DOMAIN Stamp(keys, status) = keys
           /\ \A k \in keys : Stamp(keys, status)[k] = status
           /\ status # "captured" => Captured(Stamp(keys, status)) = {}
           /\ Captured(Stamp(keys, status)) \subseteq keys
  <1>1. /\ DOMAIN Stamp(keys, status) = keys
        /\ \A k \in keys : Stamp(keys, status)[k] = status
        /\ Stamp(keys, status) = [k \in DOMAIN Stamp(keys, status) |-> Stamp(keys, status)[k]]
    BY DEF Stamp
  <1>. QED
    BY <1>1 DEF IsRows, Captured

\* The last row wins, and no row goes away.
LEMMA UpsertFacts ==
    ASSUME NEW old, NEW new, IsRows(old), IsRows(new)
    PROVE  /\ IsRows(Upsert(old, new))
           /\ DOMAIN Upsert(old, new) = DOMAIN old \cup DOMAIN new
           /\ \A k \in DOMAIN new : Upsert(old, new)[k] = new[k]
           /\ \A k \in DOMAIN old \ DOMAIN new : Upsert(old, new)[k] = old[k]
           /\ Captured(Upsert(old, new)) \subseteq Captured(old) \cup Captured(new)
           /\ Captured(new) \subseteq Captured(Upsert(old, new))
  <1>. DEFINE u == Upsert(old, new)
  <1>1. /\ DOMAIN u = DOMAIN old \cup DOMAIN new
        /\ \A k \in DOMAIN new : u[k] = new[k]
        /\ \A k \in DOMAIN old \ DOMAIN new : u[k] = old[k]
        /\ u = [k \in DOMAIN u |-> u[k]]
    BY DEF Upsert
  <1>. HIDE DEF u
  <1>2. IsRows(u)
    BY <1>1 DEF IsRows
  <1>3. Captured(u) \subseteq Captured(old) \cup Captured(new) /\ Captured(new) \subseteq Captured(u)
    BY <1>1 DEF Captured
  <1>. QED
    BY <1>1, <1>2, <1>3 DEF u

\* The same facts under one name each, for proofs that use them of large terms.
IsStamp(rows, keys, status) ==
    /\ IsRows(rows) /\ DOMAIN rows = keys
    /\ \A k \in keys : rows[k] = status
    /\ status # "captured" => Captured(rows) = {}

LEMMA StampIs ==
    ASSUME NEW keys \in SUBSET Key, NEW status \in Status
    PROVE  IsStamp(Stamp(keys, status), keys, status)
  BY StampFacts DEF IsStamp

IsUpsert(rows, old, new) ==
    /\ IsRows(rows) /\ DOMAIN rows = DOMAIN old \cup DOMAIN new
    /\ \A k \in DOMAIN new : rows[k] = new[k]
    /\ \A k \in DOMAIN old \ DOMAIN new : rows[k] = old[k]
    /\ Captured(rows) \subseteq Captured(old) \cup Captured(new)

LEMMA UpsertIs ==
    ASSUME NEW old, NEW new, IsRows(old), IsRows(new)
    PROVE  IsUpsert(Upsert(old, new), old, new)
  <1>. DEFINE u == Upsert(old, new)
  <1>1. /\ DOMAIN u = DOMAIN old \cup DOMAIN new
        /\ \A k \in DOMAIN new : u[k] = new[k]
        /\ \A k \in DOMAIN old \ DOMAIN new : u[k] = old[k]
    BY DEF Upsert
  <1>2. IsRows(u) /\ Captured(u) \subseteq Captured(old) \cup Captured(new)
    BY UpsertFacts
  <1>. HIDE DEF u
  <1>3. IsUpsert(u, old, new)
    BY <1>1, <1>2 DEF IsUpsert
  <1>. QED
    BY <1>3 DEF u

\* A key of the old rows that reads differently afterwards comes from the new ones.
LEMMA UpsertChanges ==
    ASSUME NEW old, NEW new, NEW k \in DOMAIN old, Upsert(old, new)[k] # old[k]
    PROVE  k \in DOMAIN new /\ Upsert(old, new)[k] = new[k]
  BY DEF Upsert

\* A gap is an absence with a reason, for an expected league in the entity's scope that is
\* not known.
LEMMA GapFacts ==
    ASSUME NEW d \in DataType, NEW known
    PROVE  /\ IsRows(GapRows(d, known))
           /\ DOMAIN GapRows(d, known) = {d} \X ((Expected \cap Scope[d]) \ known)
           /\ \A k \in DOMAIN GapRows(d, known) : GapRows(d, known)[k] \in Absence
           /\ Captured(GapRows(d, known)) = {}
  <1>. DEFINE g == GapRows(d, known)
              L == (Expected \cap Scope[d]) \ known
  <1>1. /\ DOMAIN g = {d} \X L
        /\ \A k \in DOMAIN g : g[k] = GapReason(k[1], k[2])
        /\ g = [k \in DOMAIN g |-> g[k]]
    BY DEF GapRows
  <1>2. \A k \in DOMAIN g : g[k] \in Absence
    BY <1>1 DEF GapReason, Absence
  <1>3. DOMAIN g \subseteq Key
    BY <1>1, SportsAssumption DEF Key
  <1>. HIDE DEF g
  <1>4. IsRows(g) /\ Captured(g) = {}
    BY <1>1, <1>2, <1>3 DEF IsRows, Captured, Status, Absence
  <1>. QED
    BY <1>1, <1>2, <1>4 DEF g

\* The rows by key.
LEMMA RowsFacts ==
    ASSUME NEW rows, IsRows(rows)
    PROVE  /\ Captured(rows) \subseteq DOMAIN rows /\ DOMAIN rows \subseteq Key
           /\ \A k \in DOMAIN rows : rows[k] \in Status /\ (k \in Captured(rows) <=> rows[k] = "captured")
           /\ \A k \in DOMAIN rows : rows[k] \in Absence => k \notin Captured(rows)
           /\ \A d, l : l \in CapturedLeagues(rows, d) <=> l \in League /\ <<d, l>> \in Captured(rows)
  BY DEF IsRows, Captured, CapturedLeagues, Absence

\* Rows as a set, for the types of the records that hold them.
RowSet == UNION {[S -> Status] : S \in SUBSET Key}

LEMMA RowSetIs == \A rows : rows \in RowSet <=> IsRows(rows)
  <1>1. ASSUME NEW rows, rows \in RowSet PROVE IsRows(rows)
    BY <1>1 DEF RowSet, IsRows
  <1>2. ASSUME NEW rows, IsRows(rows) PROVE rows \in RowSet
    <2>1. rows \in [DOMAIN rows -> Status] /\ DOMAIN rows \in SUBSET Key
      BY <1>2 DEF IsRows
    <2>. QED
      BY <2>1 DEF RowSet
  <1>. QED
    BY <1>1, <1>2
=============================================================================
