---------------------------- MODULE MCClassifier ----------------------------
(* Transactions varying one launch's every feature the classifier tests:  *)
(* message version and lookups, instruction order, which program each    *)
(* instruction addresses, both discriminators of each kind, three         *)
(* creators (one blacklisted, one off the whitelist), the Create payload's *)
(* shape and account count, and costs on both edges of the window.  Costs *)
(* are in units of 10^6 lamports: the window 300..7000 is the code's      *)
(* 300_000_000..=7_000_000_000.                                           *)
EXTENDS Classifier

CONSTANTS pump, other, mint, curve, assoc, k1, k2, k3

MCKeys == {pump, other, mint, curve, assoc, k1, k2, k3}
MCKeyBytes == [k \in MCKeys |->
    [j \in 1..32 |-> IF j = 1
                       THEN (pump :> 1 @@ other :> 2 @@ mint :> 3 @@ curve :> 4
                             @@ assoc :> 5 @@ k1 :> 6 @@ k2 :> 7 @@ k3 :> 8)[k]
                       ELSE 17]]
MCBlacklist == {k2}
MCWhitelist == {k1, k2}

CDiscs == <<<<24, 30, 200, 40, 5, 28, 7, 119>>, <<54, 49, 138, 255, 162, 99, 87, 199>>>>
BDiscs == <<<<102, 6, 61, 18, 1, 218, 235, 234>>, <<242, 35, 198, 137, 82, 225, 242, 182>>>>

Descs ==
    {[version |-> vl[1], lookups |-> vl[2], createFirst |-> cf,
      cPump |-> pp[1], bPump |-> pp[2], cDisc |-> CDiscs[v], bDisc |-> BDiscs[v],
      creator |-> c, shape |-> sh, nAccts |-> n, amount |-> 5, cost |-> cs[1], short |-> cs[2]] :
        vl \in {<<"legacy", FALSE>>, <<"v0", FALSE>>, <<"v0", TRUE>>},
        cf \in BOOLEAN, pp \in {<<TRUE, TRUE>>, <<TRUE, FALSE>>, <<FALSE, TRUE>>},
        v \in 1..2, c \in {k1, k2, k3}, sh \in {"ok0", "ok2", "cut", "long"},
        n \in {14, 3, 2}, cs \in {<<299, FALSE>>, <<300, FALSE>>, <<7000, FALSE>>, <<7001, FALSE>>,
                                 <<300, TRUE>>}}

\* A good launch behind a Create with three accounts.
Good  == [version |-> "legacy", lookups |-> FALSE, createFirst |-> TRUE,
          cPump |-> TRUE, bPump |-> TRUE, cDisc |-> CDiscs[1], bDisc |-> BDiscs[1],
          creator |-> k1, shape |-> "ok0", nAccts |-> 14, amount |-> 5, cost |-> 300, short |-> FALSE]
Three == [Good EXCEPT !.nAccts = 3]

MCChunks == {<<d>> : d \in Descs} \cup {<<Good, Good>>, <<Three, Good>>}
=============================================================================
