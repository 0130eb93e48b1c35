---------------------------- MODULE MCDevTracker ----------------------------
(* One mint; lamport amounts 1 and 2 so that profits differ in sign;      *)
(* one token per trade, so a sell-out takes as many sells as buys.        *)
EXTENDS DevTracker

CONSTANTS m1

MCMints == {m1}
MCSolAmts == {1, 2}
MCTokAmts == {1}
=============================================================================
