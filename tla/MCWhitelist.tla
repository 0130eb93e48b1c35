---------------------------- MODULE MCWhitelist ----------------------------
(* Three creators with finished token_states rows and one without.  The   *)
(* .env thresholds admit c1 and c2; the update raises the minimum token   *)
(* count and lowers the minimum profit, which admits c2 and c3.  A torn   *)
(* request, with `profit` already new and `count` still old, admits c1,   *)
(* c2 and c3.                                                              *)
EXTENDS Whitelist

CONSTANTS c1, c2, c3, c4

Row(hold, profit, count) ==
    [avg_holding_seconds |-> hold, total_profit_sol |-> profit,
     token_count |-> count, mid_hold_count |-> 0,
     hold_less_5_sec_count |-> 0, min_holding_seconds |-> 6,
     avg_users_per_token |-> 3, avg_top3_buy |-> 1]

MCStats == [c \in {c1, c2, c3} |->
               CASE c = c1 -> Row(10, 5, 2)
                 [] c = c2 -> Row(10, 5, 4)
                 [] c = c3 -> Row(10, 2, 4)]

Params(profit, count) ==
    [profit |-> profit, avg |-> 8, count |-> count, mid |-> 1,
     hold_less_5_sec_count |-> 1, min_hold |-> 5, avg_user |-> 2,
     top_3_buy |-> 1]

MCInitParams == Params(3, 1)
MCUpdates == {Params(1, 3)}
MCInitFile == << c1 >>
=============================================================================
