----------------------------- MODULE MCShardRun -----------------------------
(***************************************************************************)
(* Small instances of ShardRun for TLC: named venues of the three asset    *)
(* groups, and the lists of groups the runs are dispatched for.            *)
(***************************************************************************)
EXTENDS ShardRun

CONSTANTS
    p1, p2,          \* runners
    cex, fut, amm, lob, hub  \* fut is a TradFi venue, amm a DeFi one, the others are CeFi

MCAssetGroup ==
    [v \in Venue |-> IF v = amm THEN "defi" ELSE IF v = fut THEN "tradfi" ELSE "cefi"]

CefiAlone == {<<"cefi">>}
MixedDispatches == {<<"cefi">>, <<"tradfi">>, <<"cefi", "tradfi">>}

DefiDispatches == {<<"cefi">>, <<"defi">>, <<"defi", "cefi">>}

\* DeFi and TradFi alone, and CeFi with TradFi
GroupDispatches == {<<"defi">>, <<"tradfi">>, <<"cefi", "tradfi">>}
=============================================================================
