------------------------------ MODULE MCPosition ------------------------------
(* Model-checking instance of Position: two mints by one creator, one fill *)
(* balance that exercises both rounding directions, and trade prices that  *)
(* sit on each side of every threshold of the exit engine.                 *)
EXTENDS Position

CONSTANTS m1, m2, c1

MCMints == {m1, m2}
\* One mint: enough for races between one position's tasks and updates.
MCOneMint == {m1}
MCCreators == {c1}
MCCreatorOf == [m \in MCMints |-> c1]
MCOneCreatorOf == [m \in MCOneMint |-> c1]

\* FillPrice is 100: 90 is a -10% stop, 110 a +10% hold, 125 reaches stage
\* 1, 145 stage 2, 165 stage 3; 110 and 125 are below 95% of 145 and 165.
MCPrices == {90, 110, 125, 145, 165}

\* round(4 * 0.5) = 2 leaves 2; round(2 * 0.4) = 1, where truncation gives 0.
MCFillBalances == {4}

\* Stream failures each run lets the environment produce.
NoFaults == {}
StreamFaults == {"close", "subfail"}
PanicFault == {"panic"}
AllFaults == {"close", "subfail", "panic"}
=============================================================================
