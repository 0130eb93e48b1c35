---------------------------- MODULE MCBlacklist ----------------------------
(* Three creator addresses and the literal "all".  No key occurs inside    *)
(* another: base58 has no letter l, so no address contains "all", and     *)
(* two distinct addresses are never substrings of one another.            *)
EXTENDS Blacklist

CONSTANTS c1, c2, c3, ALL

MCKeys == {c1, c2, c3, ALL}
MCNoSubstr == {}
=============================================================================
