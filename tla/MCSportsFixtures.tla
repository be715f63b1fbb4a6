-------------------------- MODULE MCSportsFixtures --------------------------
(***************************************************************************)
(* Small instances of SportsFixtures for TLC.                              *)
(***************************************************************************)
EXTENDS SportsFixtures

CONSTANTS
    p1, p2,     \* runners
    FIX,        \* FIXTURES_SCHEDULE
    A, B,       \* leagues: B is off season in the fixture calendar
    a1, a2, b1  \* fixtures

MCLeagueOf == [f \in Fixture |-> IF f \in {a1, a2} THEN A ELSE B]
MCScope == [d \in DataType |-> League]
MCCovered == DataType \X League
=============================================================================
