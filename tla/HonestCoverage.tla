--------------------------- MODULE HonestCoverage ---------------------------
(***************************************************************************)
(* What the manifest promises its readers about the cells of one date: one *)
(* of four honest states per venue (plus "no row yet"), reports that only  *)
(* ever add information, and no capture without stored data.  It knows     *)
(* neither runs, nor buckets, nor row keys.                                *)
(***************************************************************************)
CONSTANT Venue

VARIABLES
    cell,    \* [Venue -> Level], what the manifest says of the venue
    stored   \* the venues whose instruments are in the object store

Level == {"absent", "gap", "failed", "empty", "captured"}

\* A gap may become anything that says more; a failure and an absence may be
\* revised into each other or into a capture; a capture is final.
MayBecome(old, new) ==
    \/ new = old
    \/ old = "absent"
    \/ old = "gap" /\ new # "absent"
    \/ old \in {"failed", "empty"} /\ new \in {"failed", "empty", "captured"}

Init == /\ cell = [v \in Venue |-> "absent"]
        /\ stored = {}

Store == /\ stored \subseteq stored'
         /\ stored' \subseteq Venue
         /\ UNCHANGED cell

Report == /\ cell' \in [Venue -> Level]
          /\ \A v \in Venue : /\ MayBecome(cell[v], cell'[v])
                              /\ cell'[v] = "captured" => v \in stored
          /\ UNCHANGED stored

Next == Store \/ Report

Spec == Init /\ [][Next]_<<cell, stored>>
=============================================================================
