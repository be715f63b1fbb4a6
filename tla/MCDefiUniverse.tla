--------------------------- MODULE MCDefiUniverse ---------------------------
(***************************************************************************)
(* Small instances of DefiUniverse, and the sentences about it that the    *)
(* code does not keep.  pyth's rows carry its own name; the rows of aave   *)
(* are split into protocol and chain; late goes live on the second day.    *)
(***************************************************************************)
EXTENDS DefiUniverse

CONSTANTS pyth, aave, late, protocol

MCManifestName == [v \in Venue |-> IF v = aave THEN protocol ELSE v]
MCLaunchDay == [v \in Venue |-> IF v = late THEN 2 ELSE 0]

\* "If still regressed after retry, the venue's records are REMOVED from the result -
\* they will not be written to GCS (would overwrite better data)" (defi.py:360-361):
\* on the last date, when nothing is filtered, no capture falls below half of what
\* was captured of the venue before.
Collapses ==
    \E c \in DOMAIN stored' :
        /\ c[1] = LastDay
        /\ c \in DOMAIN stored => stored'[c] # stored[c]
        /\ \E d \in Day : /\ <<d, c[2]>> \in DOMAIN stored
                          /\ Cardinality(stored[<<d, c[2]>>]) > 2 * Cardinality(stored'[c])

CollapseNeverStored == [][run.marked => ~Collapses]_vars

\* The same sentence of a run that could not read the marks.
UnmarkedNeverStored == [][~run.marked => ~Collapses]_vars

\* "if any venue returns fewer instruments than its historical max in the manifest,
\* that venue is retried once" (defi.py:358-359): its source is asked again.
RegressedAskedAgain == \A v \in run.regressed : run.asked[v] = 2

\* "Adapter ran OK (in non_error_venues) but returned 0 records"
\* (process_completeness.py:135): a zero row is stamped only of a venue that was asked.
ZeroMeansAsked ==
    [][\A c \in zeroed' \ zeroed : run.asked[c[2]] > 0]_vars
=============================================================================
