---------------------------- MODULE MCCatalogue ----------------------------
(***************************************************************************)
(* Small instances of Catalogue for TLC.                                   *)
(***************************************************************************)
EXTENDS Catalogue

CONSTANTS i1, i2, i3, V

\* One venue with three instruments, captured whole or thinly; i2 declares a listing before
\* the first snapshot and an end, the others declare nothing.
MCVenueOf == [i \in Instrument |-> V]
MCAnswers == {{i1, i2, i3}, {i1}}
MCListed == [i \in Instrument |-> IF i = i2 THEN 0 ELSE MaxDay]
MCEnds == [i \in Instrument |-> IF i = i2 THEN 2 ELSE Active]
=============================================================================
