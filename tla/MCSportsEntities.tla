-------------------------- MODULE MCSportsEntities --------------------------
(***************************************************************************)
(* Small instances of SportsEntities for TLC: two fixtures of one league,  *)
(* one of another, one outside the fixture map.                            *)
(***************************************************************************)
EXTENDS SportsEntities

CONSTANTS
    p1, p2,         \* runners
    STATS, EVENTS,  \* entities
    A, B, D, X,     \* leagues: A and B play, D is not covered, X is off season
    a1, a2, b1, u1  \* fixtures, u1 in a league outside the map

MCLeagueOf == [f \in Fixture |-> IF f \in {a1, a2} THEN A ELSE IF f = b1 THEN B ELSE NoLeague]

\* STATS follows all leagues, EVENTS the prediction leagues (here A).
MCScope == [d \in DataType |-> IF d = EVENTS THEN {A} ELSE League]
MCCovered == DataType \X (League \ {D})
MCRecovery == {S \in {{a1}, {a1, u1}} : S \subseteq Fixture /\ S # Fixture}
MCOffSeason == League \cap {X}
=============================================================================
