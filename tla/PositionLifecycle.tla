-------------------------- MODULE PositionLifecycle --------------------------
(***************************************************************************)
(* What spec 3 and 4.7 promise of each position, without prices or tasks:  *)
(* a position is opened once by a fill with a positive balance; it climbs  *)
(* the take-profit ladder one stage at a time, stage 1 keeping the balance *)
(* less round(50%) of it and stage 2 the balance less round(40%) of it,    *)
(* stage 3 selling the rest; from any stage it may be closed, and a closed *)
(* position never comes back.  Trades that change no stage and the sells  *)
(* themselves are stuttering steps here.                                   *)
(***************************************************************************)
EXTENDS Naturals

CONSTANTS
    Mints,
    Balances    \* balances a fill may record

VARIABLES
    phase,      \* phase[m]: "none", "held" or "closed"
    stage,      \* stage[m]: sell_stage of a held position, 0 otherwise
    bal         \* bal[m]: the balance a held position still has, 0 otherwise

lifeVars == <<phase, stage, bal>>

\* round(b * num / den), half away from zero.
RoundShare(b, num, den) == (2 * b * num + den) \div (2 * den)

\* The slice the take-profit rule of stage s + 1 sells from balance b.
Slice(s, b) == IF s = 0 THEN RoundShare(b, 1, 2) ELSE RoundShare(b, 2, 5)

Init ==
    /\ phase = [m \in Mints |-> "none"]
    /\ stage = [m \in Mints |-> 0]
    /\ bal = [m \in Mints |-> 0]

Open(m, b) ==
    /\ phase[m] = "none"
    /\ phase' = [phase EXCEPT ![m] = "held"]
    /\ bal' = [bal EXCEPT ![m] = b]
    /\ UNCHANGED stage

TakeProfit(m) ==
    /\ phase[m] = "held"
    /\ stage[m] \in {0, 1}
    /\ stage' = [stage EXCEPT ![m] = @ + 1]
    /\ bal' = [bal EXCEPT ![m] = @ - Slice(stage[m], @)]
    /\ UNCHANGED phase

SellRest(m) ==
    /\ phase[m] = "held"
    /\ stage[m] = 2
    /\ stage' = [stage EXCEPT ![m] = 3]
    /\ UNCHANGED <<phase, bal>>

Close(m) ==
    /\ phase[m] = "held"
    /\ phase' = [phase EXCEPT ![m] = "closed"]
    /\ stage' = [stage EXCEPT ![m] = 0]
    /\ bal' = [bal EXCEPT ![m] = 0]

Next ==
    \E m \in Mints :
        \/ \E b \in Balances : Open(m, b)
        \/ TakeProfit(m) \/ SellRest(m) \/ Close(m)

Spec == Init /\ [][Next]_lifeVars
=============================================================================
