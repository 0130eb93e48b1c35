----------------------------- MODULE MCBuyPath -----------------------------
(* Two launches, so that buys can overlap, and both relays.               *)
EXTENDS BuyPath

CONSTANTS l1, l2, zeroslot, jito

MCLaunches == {l1, l2}
MCPaths == {zeroslot, jito}
=============================================================================
