------------------------------- MODULE Position -------------------------------
(***************************************************************************)
(* The sniper's position table (TOKEN_TABLE, a DashMap keyed by mint) and  *)
(* the three producers that touch it:                                      *)
(*   - the fill at the end of a classified launch (transaction_processor), *)
(*     which records the position and spawns the 2-second stop-loss timer; *)
(*   - the live-trade listener, which calls update_price_and_maybe_sell    *)
(*     for every trade event hitting a held bonding curve (monitor.rs);    *)
(*   - the fire-and-forget sell tasks that update spawns: pump_sell, then  *)
(*     (stop-loss only) add_to_blacklist, then TOKEN_TABLE.remove.         *)
(*                                                                         *)
(* update_price_and_maybe_sell holds the DashMap entry guard for its whole *)
(* body and never awaits, so it is one atomic action.  The spawned tasks   *)
(* and the timer are separate tokio tasks: each await is a step boundary.  *)
(*                                                                         *)
(* Prices are integers on the scale where the launch's reference price is  *)
(* FillPrice; the code's floating-point change (p - p0) / p0 >= x is the   *)
(* integer comparison 100 * p >= (100 + 100x) * p0.  Price sets are chosen *)
(* off the thresholds, so float rounding at a boundary never decides.      *)
(***************************************************************************)
EXTENDS Naturals, Sequences, FiniteSets, Functions

CONSTANTS
    Mints,          \* mints that may be launched and sniped
    Creators,       \* creator identifiers
    CreatorOf,      \* CreatorOf[m]: the creator named in m's Create
    FillPrice,      \* pump_tx.price, the reference price of the launch
    Prices,         \* prices a TradeEvent may report
    FillBalances,   \* token balances the ATA read may return after a buy
    MaxTasks,       \* bound on spawned tasks (sells and timers)
    ListenerFaults, \* which listener failures the environment produces
    None            \* Option::None, an absent table entry, Pubkey::default

ASSUME CreatorOf \in [Mints -> Creators]
ASSUME FillPrice \in Nat \ {0} /\ Prices \subseteq Nat \ {0}
ASSUME FillBalances \subseteq Nat \ {0}
ASSUME MaxTasks \in Nat
ASSUME ListenerFaults \subseteq {"close", "subfail", "panic"}

VARIABLES
    table,      \* TOKEN_TABLE: mint -> TokenState, or None when absent
    tasks,      \* every spawned sell task and timer, in spawn order
    elapsed,    \* elapsed[m]: 2 s have passed since m's fill
    buy,        \* buy[m]: "idle"; "gated" once process_entries let m's
                \* launch past the GRPC_NORMAL gate and the buy path is in
                \* pump_buy, its 1.5 s sleep or the ATA read; "done" after
    blacklist,  \* the in-memory BLACKLIST set
    fillAmt,    \* history: balance recorded at m's fill (0 = no fill)
    requested,  \* history: token amount of every pump_sell call for m
    lst,        \* run_yellowstone_listener: "subscribe", "stream", "sleep"
                \* or "dead" once the task has returned or panicked
    grpcNormal  \* GRPC_NORMAL

vars == <<table, tasks, elapsed, buy, blacklist, fillAmt, requested,
          lst, grpcNormal>>
listenerVars == <<lst, grpcNormal>>

-----------------------------------------------------------------------------
(* TokenState.  first_buy_price (fbp), current_price (cur), balance (bal)  *)
(* are Option; bonding_curve is kept only as "set or not" (curve), since   *)
(* the listener only tests it for membership; first_buy_time (fbt) is     *)
(* kept as "set or not" and its age is elapsed[m].                        *)

Entry == [fbp: {None} \cup Nat, cur: {None} \cup Nat, bal: {None} \cup Nat,
          curve: BOOLEAN, stage: 0..3, high: Nat, fbt: BOOLEAN,
          creator: {None} \cup Creators]

\* The value or_insert puts in TOKEN_TABLE for a mint it does not hold.
NewEntry(high) ==
    [fbp |-> None, cur |-> None, bal |-> None, curve |-> FALSE, stage |-> 0,
     high |-> high, fbt |-> FALSE, creator |-> None]

\* x.get_or_insert(d): keep a Some, fill a None.
OrElse(x, d) == IF x = None THEN d ELSE x

\* (x as f64 * num/den).round() as u64, round half away from zero.
Round(x, num, den) == (2 * x * num + den) \div (2 * den)

\* change = (p - p0) / p0 compared with a percentage.
Rise(p, p0, pct)  == 100 * p >= (100 + pct) * p0   \* change >= pct%
Below(p, p0, pct) == 100 * p < (100 + pct) * p0    \* change <  pct%
Fall(p, p0, pct)  == 100 * p <= (100 - pct) * p0   \* change <= -pct%

\* A spawned task.  why: "time", "trail", "stage3", "stop" are full exits,
\* "partial" a take-profit slice, "timer" the 2-second stop-loss timer.
Task(m, why, amt, c, pc) ==
    [mint |-> m, why |-> why, amt |-> amt, creator |-> c, pc |-> pc]

-----------------------------------------------------------------------------
(* The branches of update_price_and_maybe_sell once first_buy_price and   *)
(* balance are known.  e is the entry after current_price and             *)
(* highest_price were updated; each branch yields the task it spawns      *)
(* (why, amt) and the stage and balance it writes back.                   *)

Keep(e) == [why |-> "none", amt |-> 0, stage |-> e.stage, bal |-> e.bal]

\* Held >= 2 s at stage 0 and change < 20%: sell everything, then remove.
TimeExit(e) == [Keep(e) EXCEPT !.why = "time", !.amt = e.bal]

\* Stage >= 1 and price <= 95% of the highest: sell everything, remove.
Trailing(e) == [Keep(e) EXCEPT !.why = "trail", !.amt = e.bal]

\* Stage 0, change >= 20%: sell round(50%), keep the rest, stage 1.
Stage1(e) ==
    [Keep(e) EXCEPT !.why = "partial", !.amt = Round(e.bal, 1, 2),
                    !.stage = 1, !.bal = e.bal - Round(e.bal, 1, 2)]

\* Mutant: stage 2 forgets to write the decremented balance back.
Stage2KeepsBalance(e) ==
    [Keep(e) EXCEPT !.why = "partial", !.amt = Round(e.bal, 2, 5), !.stage = 2]

\* Mutant: stage 2 sells round(bal * 1.4), the threshold taken for the share.
Stage2SellsThreshold(e) ==
    [Keep(e) EXCEPT !.why = "partial", !.amt = Round(e.bal, 7, 5),
                    !.stage = 2, !.bal = e.bal - Round(e.bal, 7, 5)]

\* Mutant: the slice is truncated, (balance as f64 * 0.4) as u64, not rounded.
Stage2Truncates(e) ==
    [Keep(e) EXCEPT !.why = "partial", !.amt = (e.bal * 2) \div 5,
                    !.stage = 2, !.bal = e.bal - (e.bal * 2) \div 5]

\* Stage 1, change >= 40%: sell round(40%) of the current balance, stage 2.
Stage2(e) ==
    [Keep(e) EXCEPT !.why = "partial", !.amt = Round(e.bal, 2, 5),
                    !.stage = 2, !.bal = e.bal - Round(e.bal, 2, 5)]

\* Mutant: stage 3 sells a 40% slice (the stage-2 line copied), not the rest.
Stage3SellsSlice(e) ==
    [Keep(e) EXCEPT !.why = "stage3", !.amt = Round(e.bal, 2, 5), !.stage = 3]

\* Stage 2, change >= 60%: sell the rest, stage 3, then remove.
Stage3(e) == [Keep(e) EXCEPT !.why = "stage3", !.amt = e.bal, !.stage = 3]

\* Stage < 3, change <= -5%: sell the rest, blacklist the creator, remove.
StopLoss(e) == [Keep(e) EXCEPT !.why = "stop", !.amt = e.bal]

\* The else-if chain of monitor.rs, in its order; the time exit returns
\* before any other rule is looked at.
Decide(m, e, p) ==
    IF e.stage = 0 /\ e.fbt /\ elapsed[m] /\ Below(p, e.fbp, 20) THEN TimeExit(e)
    ELSE IF e.stage >= 1 /\ 100 * p <= 95 * e.high /\ e.bal > 0 THEN Trailing(e)
    ELSE IF e.stage = 0 /\ Rise(p, e.fbp, 20) THEN Stage1(e)
    ELSE IF e.stage = 1 /\ Rise(p, e.fbp, 40) THEN Stage2(e)
    ELSE IF e.stage = 2 /\ Rise(p, e.fbp, 60) THEN Stage3(e)
    ELSE IF e.stage < 3 /\ Fall(p, e.fbp, 5) THEN StopLoss(e)
    ELSE Keep(e)

\* Where a task goes after its pump_sell returned (ok = Ok(())).  Only the
\* timer looks at the result; the spawned exits remove the entry anyway.
NextAfterSell(why, ok) ==
    CASE why = "timer"   -> IF ok THEN "remove" ELSE "done"
      [] why = "partial" -> "done"
      [] why = "stop"    -> "blacklist"
      [] OTHER           -> "remove"

\* Mutant: the stop-loss task blacklists the mint instead of its creator.
BlacklistedKeyMint(t) == t.mint

\* The key add_to_blacklist is called with: creator_pubkey.to_string().
BlacklistedKey(t) == t.creator

-----------------------------------------------------------------------------
Init ==
    /\ table = [m \in Mints |-> None]
    /\ tasks = << >>
    /\ elapsed = [m \in Mints |-> FALSE]
    /\ buy = [m \in Mints |-> "idle"]
    /\ blacklist = {}
    /\ fillAmt = [m \in Mints |-> 0]
    /\ requested = [m \in Mints |-> 0]
    /\ lst = "subscribe"
    /\ grpcNormal = FALSE

(* process_entries reads GRPC_NORMAL once, at the top of the slot, and    *)
(* drops the slot's launches unless it is set; a launch of m that passes  *)
(* it and the filter goes on to pump_buy and sleeps 1.5 s.  Everything    *)
(* else may interleave before the ATA read that ends the path.            *)
FeedHealthy == grpcNormal

Gate(m) ==
    /\ buy[m] = "idle"
    /\ FeedHealthy
    /\ buy' = [buy EXCEPT ![m] = "gated"]
    /\ UNCHANGED <<table, tasks, elapsed, blacklist, fillAmt, requested,
                   listenerVars>>

\* update_token_state: TOKEN_TABLE.entry(mint).or_insert with no prices, no
\* balance, stage 0 and highest_price 0.0.
FillEntry(m) == IF table[m] = None THEN NewEntry(0) ELSE table[m]

(* The ATA read returns a positive balance b: update_token_state records  *)
(* the position and the stop-loss timer is spawned.                       *)
Fill(m, b) ==
    /\ buy[m] = "gated"
    /\ Len(tasks) < MaxTasks
    /\ LET e0 == FillEntry(m)
       IN  table' = [table EXCEPT ![m] =
                       [e0 EXCEPT !.fbp = OrElse(@, FillPrice),
                                  !.cur = OrElse(@, FillPrice),
                                  !.bal = OrElse(@, b),
                                  !.curve = TRUE,
                                  !.fbt = TRUE,
                                  !.creator = CreatorOf[m]]]
    /\ tasks' = Append(tasks, Task(m, "timer", b, CreatorOf[m], "sleep"))
    /\ buy' = [buy EXCEPT ![m] = "done"]
    /\ fillAmt' = [fillAmt EXCEPT ![m] = b]
    /\ UNCHANGED <<elapsed, blacklist, requested, listenerVars>>

(* The ATA read fails or returns a zero balance: nothing is recorded and  *)
(* no timer is spawned.                                                   *)
FillFails(m) ==
    /\ buy[m] = "gated"
    /\ buy' = [buy EXCEPT ![m] = "done"]
    /\ UNCHANGED <<table, tasks, elapsed, blacklist, fillAmt, requested,
                   listenerVars>>

(* Two seconds pass after m's fill: first_buy_time.elapsed() >= 2000 ms   *)
(* and the timer's sleep(2000) is over.                                   *)
Tick(m) ==
    /\ fillAmt[m] > 0
    /\ ~elapsed[m]
    /\ elapsed' = [elapsed EXCEPT ![m] = TRUE]
    /\ UNCHANGED <<table, tasks, buy, blacklist, fillAmt, requested,
                   listenerVars>>

(* run_yellowstone_listener receives a transaction whose account keys     *)
(* contain the bonding curve of a held mint (hit); the last TradeEvent in *)
(* its logs is for mint m at price p, and update_price_and_maybe_sell(m,  *)
(* p) runs under m's entry guard.  m need not be hit: the match is on any *)
(* curve in the transaction, the update on the event's own mint.          *)
\* current_price = Some(p); highest_price = max(highest_price, p).
UpdatePrice(e, p) == [e EXCEPT !.cur = p, !.high = IF p > @ THEN p ELSE @]

\* The let-else early returns: no first_buy_price or no balance yet.
Priced(e) == e.fbp # None /\ e.bal # None

PriceUpdate(hit, m, p) ==
    /\ lst = "stream"
    /\ Len(tasks) < MaxTasks
    /\ table[hit] # None
    /\ table[hit].curve
    /\ LET e0 == IF table[m] = None THEN NewEntry(p) ELSE table[m]
           e  == UpdatePrice(e0, p)
       IN  IF ~Priced(e)
             THEN /\ table' = [table EXCEPT ![m] = e]
                  /\ UNCHANGED tasks
             ELSE LET d == Decide(m, e, p)
                  IN  /\ table' = [table EXCEPT ![m] =
                                     [e EXCEPT !.stage = d.stage, !.bal = d.bal]]
                      /\ tasks' = IF d.why = "none" THEN tasks
                                  ELSE Append(tasks,
                                         Task(m, d.why, d.amt, e.creator, "sell"))
    /\ grpcNormal' = TRUE
    /\ UNCHANGED <<elapsed, buy, blacklist, fillAmt, requested, lst>>

(* Any other transaction update: one touching no held curve, or a hit     *)
(* with no meta, empty logs, or no TradeEvent parse_logs accepts.  It      *)
(* only sets GRPC_NORMAL.  Ping, Pong and other updates change nothing.    *)
ListenerTx ==
    /\ lst = "stream"
    /\ grpcNormal' = TRUE
    /\ UNCHANGED <<table, tasks, elapsed, buy, blacklist, fillAmt,
                   requested, lst>>

(* A hit whose logs hold a "Program data:" payload shorter than 8 bytes   *)
(* after the last TradeEvent: parse_logs' bytes.split_at(8) panics.  The  *)
(* task ends after GRPC_NORMAL was set and before it is cleared.          *)
ParsePanic(hit) ==
    /\ "panic" \in ListenerFaults
    /\ lst = "stream"
    /\ table[hit] # None
    /\ table[hit].curve
    /\ grpcNormal' = TRUE
    /\ lst' = "dead"
    /\ UNCHANGED <<table, tasks, elapsed, buy, blacklist, fillAmt,
                   requested>>

(* The stream yields None, an Err, or ends: the loop breaks, clears       *)
(* GRPC_NORMAL and sleeps RETRY_INTERVAL.                                  *)
StreamEnds ==
    /\ "close" \in ListenerFaults
    /\ lst = "stream"
    /\ grpcNormal' = FALSE
    /\ lst' = "sleep"
    /\ UNCHANGED <<table, tasks, elapsed, buy, blacklist, fillAmt,
                   requested>>

(* The 60 s sleep ends.                                                    *)
RetryWake ==
    /\ lst = "sleep"
    /\ lst' = "subscribe"
    /\ UNCHANGED <<table, tasks, elapsed, buy, blacklist, fillAmt,
                   requested, grpcNormal>>

(* subscribe_with_request(...).await? (build_client first, at start): on  *)
(* Err the `?` returns from the spawned task, which nobody awaits.         *)
Subscribe ==
    /\ lst = "subscribe"
    /\ \/ lst' = "stream"
       \/ "subfail" \in ListenerFaults /\ lst' = "dead"
    /\ UNCHANGED <<table, tasks, elapsed, buy, blacklist, fillAmt,
                   requested, grpcNormal>>

(* tx_pump_sell's result: Err when the blockhash fetch, the serialisation *)
(* or the 500 ms HTTP send to 0slot fails; Ok as soon as 0slot answered,  *)
(* which says nothing of whether the sell executes.                       *)
TxPumpSellOk == BOOLEAN

(* A spawned task runs pump_sell(mint, creator, amt).  Its result is      *)
(* tx_pump_sell's: get_bonding_curve_account only derives the PDA and     *)
(* never fails.                                                           *)
Sell(i) ==
    /\ tasks[i].pc = "sell"
    /\ \E ok \in TxPumpSellOk :
         tasks' = [tasks EXCEPT ![i].pc = NextAfterSell(tasks[i].why, ok)]
    /\ requested' = [requested EXCEPT ![tasks[i].mint] = @ + tasks[i].amt]
    /\ UNCHANGED <<table, elapsed, buy, blacklist, fillAmt,
                   listenerVars>>

(* The stop-loss task's add_to_blacklist(creator), under the write lock.  *)
Blacklist(i) ==
    /\ tasks[i].pc = "blacklist"
    /\ blacklist' = blacklist \cup {BlacklistedKey(tasks[i])}
    /\ tasks' = [tasks EXCEPT ![i].pc = "remove"]
    /\ UNCHANGED <<table, elapsed, buy, fillAmt, requested,
                   listenerVars>>

(* TOKEN_TABLE.remove(&mint): drops whatever entry the mint has now.      *)
Remove(i) ==
    /\ tasks[i].pc = "remove"
    /\ table' = [table EXCEPT ![tasks[i].mint] = None]
    /\ tasks' = [tasks EXCEPT ![i].pc = "done"]
    /\ UNCHANGED <<elapsed, buy, blacklist, fillAmt, requested,
                   listenerVars>>

(* The timer's sleep(2000) returns.                                       *)
TimerWake(i) ==
    /\ tasks[i].pc = "sleep"
    /\ elapsed[tasks[i].mint]
    /\ tasks' = [tasks EXCEPT ![i].pc = "check"]
    /\ UNCHANGED <<table, elapsed, buy, blacklist, fillAmt, requested,
                   listenerVars>>

(* TOKEN_TABLE.get(&mint): with no entry the timer ends.  Otherwise it    *)
(* reads first_buy_price and current_price (unwrap_or(0.0)), drops the    *)
(* guard, and sells when |change| < 20%.  A zero first price makes the    *)
(* change NaN or infinite, which is never < 0.2.                          *)
TimerCheck(i) ==
    /\ tasks[i].pc = "check"
    /\ LET e == table[tasks[i].mint]
           first == IF e = None THEN 0 ELSE OrElse(e.fbp, 0)
           cur   == IF e = None THEN 0 ELSE OrElse(e.cur, 0)
           small == /\ first > 0
                    /\ 100 * cur < 120 * first
                    /\ 100 * cur > 80 * first
       IN  tasks' = [tasks EXCEPT ![i].pc = IF e # None /\ small
                                             THEN "sell" ELSE "done"]
    /\ UNCHANGED <<table, elapsed, buy, blacklist, fillAmt, requested,
                   listenerVars>>

Next ==
    \/ \E m \in Mints : Gate(m) \/ FillFails(m) \/ Tick(m)
    \/ \E m \in Mints, b \in FillBalances : Fill(m, b)
    \/ \E hit, m \in Mints, p \in Prices : PriceUpdate(hit, m, p)
    \/ ListenerTx \/ StreamEnds \/ RetryWake \/ Subscribe
    \/ \E hit \in Mints : ParsePanic(hit)
    \/ \E i \in DOMAIN tasks :
         Sell(i) \/ Blacklist(i) \/ Remove(i) \/ TimerWake(i) \/ TimerCheck(i)

(* tokio runs every spawned task to completion and time passes, so the    *)
(* listener's sleep ends and its subscribe call returns; launches, trades *)
(* and stream failures come from the network and are not promised.        *)
Fairness ==
    /\ \A m \in Mints : WF_vars(Tick(m))
    /\ WF_vars(RetryWake) /\ WF_vars(Subscribe)
    /\ \A i \in 1..MaxTasks :
         WF_vars(i \in DOMAIN tasks /\ (Sell(i) \/ Blacklist(i) \/ Remove(i)
                                        \/ TimerWake(i) \/ TimerCheck(i)))

Spec == Init /\ [][Next]_vars
FairSpec == Spec /\ Fairness

-----------------------------------------------------------------------------
(* Every variable holds a value of its type; a balance is a u64, so a     *)
(* slice larger than the balance it is taken from is an underflow.        *)
TypeOK ==
    /\ table \in [Mints -> Entry \cup {None}]
    /\ tasks \in Seq([mint: Mints, why: {"time", "trail", "partial", "stage3",
                                         "stop", "timer"},
                      amt: Nat, creator: Creators \cup {None},
                      pc: {"sleep", "check", "sell", "blacklist", "remove",
                           "done"}])
    /\ elapsed \in [Mints -> BOOLEAN]
    /\ buy \in [Mints -> {"idle", "gated", "done"}]
    /\ blacklist \subseteq Creators \cup Mints
    /\ fillAmt \in [Mints -> Nat]
    /\ requested \in [Mints -> Nat]
    /\ lst \in {"subscribe", "stream", "sleep", "dead"}
    /\ grpcNormal \in BOOLEAN

\* Tasks of mint m spawned for a given reason.
TasksOf(m, whys) == {i \in DOMAIN tasks : tasks[i].mint = m /\ tasks[i].why \in whys}

\* Token amount spawned as take-profit slices for m.
PartialAmt(m) ==
    SumFunctionOnSet([i \in DOMAIN tasks |-> tasks[i].amt], TasksOf(m, {"partial"}))

(* Take-profit bookkeeping (monitor.rs stage 1 and stage 2): while m's    *)
(* filled entry is in the table, its stored balance plus every slice      *)
(* already spawned equals the balance recorded at the fill.  A slice that *)
(* is sold but not subtracted, or subtracted twice, breaks it.            *)
PartialAccounting ==
    \A m \in Mints :
        (table[m] # None /\ table[m].bal # None /\ fillAmt[m] > 0)
            => table[m].bal + PartialAmt(m) = fillAmt[m]

\* Token amount of m's tasks that are about to call pump_sell.
PendingAmt(m) ==
    SumFunctionOnSet([i \in DOMAIN tasks |-> tasks[i].amt],
                     {i \in DOMAIN tasks : tasks[i].mint = m /\ tasks[i].pc = "sell"})

(* No tokens are abandoned by the exit tasks: once a filled position has  *)
(* left the table, pump_sell has been called, or a spawned task is about  *)
(* to call it, for at least the whole fill: the take-profit slices plus   *)
(* the final sell of the rest.                                            *)
ClosedPositionFullyOffered ==
    \A m \in Mints :
        (fillAmt[m] > 0 /\ table[m] = None)
            => requested[m] + PendingAmt(m) >= fillAmt[m]

(* Every stop-loss exit eventually puts the token's creator in the        *)
(* in-memory blacklist (spec 8: "the creator ends up in the blacklist").  *)
StopLossBlacklists ==
    \A i \in 1..MaxTasks :
        (i \in DOMAIN tasks /\ tasks[i].why = "stop")
            ~> (i \in DOMAIN tasks /\ tasks[i].creator \in blacklist)

\* A filled position whose entry is in the table with its prices known.
Held(m) == fillAmt[m] > 0 /\ table[m] # None /\ Priced(table[m])

\* The table seen as the lifecycle of spec 3 and 4.7: a mint is "none"
\* until its fill, "held" while its filled entry is in the table, and
\* "closed" once a task removed it (a later trade may re-create an empty
\* entry for it, which holds no position).
Lifecycle == INSTANCE PositionLifecycle WITH
    Balances <- FillBalances,
    phase <- [m \in Mints |-> IF fillAmt[m] = 0 THEN "none"
                              ELSE IF Held(m) THEN "held" ELSE "closed"],
    stage <- [m \in Mints |-> IF Held(m) THEN table[m].stage ELSE 0],
    bal <- [m \in Mints |-> IF Held(m) THEN table[m].bal ELSE 0]

(* The position table implements the lifecycle: every step of the fill,   *)
(* the listener's updates and the spawned tasks either leaves each        *)
(* position's phase, stage and balance alone or is one of its steps.      *)
LifecycleRefined == Lifecycle!Spec

(* The buy gate of process_entries (GRPC_NORMAL) lets a launch through    *)
(* only while run_yellowstone_listener is reading its stream: spec 4.2    *)
(* step 2 and 4.6 make the flag the live-trade feed's health, so that no  *)
(* position is opened that no listener will price and exit.               *)
GateMeansListening ==
    [][\A m \in Mints : buy[m] = "idle" /\ buy'[m] = "gated" => lst = "stream"]_vars

(* A held position keeps a live-trade listener: while m is held, the      *)
(* listener eventually reads its stream again, so the trailing, take-     *)
(* profit and stop-loss exits of update_price_and_maybe_sell can still    *)
(* fire (spec 4.6 and 5: a stream error backs off and re-subscribes).     *)
ExitsKeepListening ==
    \A m \in Mints : Held(m) ~> (lst = "stream" \/ ~Held(m))

(* No double sell (spec 1 and 9): the tokens pump_sell is asked to sell   *)
(* for a position never exceed the balance that was bought.               *)
NoDoubleSell ==
    \A m \in Mints : requested[m] <= fillAmt[m]

(* The 2-second timer never sells more than the position still holds: at *)
(* the moment it calls pump_sell, its amount is at most the balance in    *)
(* the table.                                                             *)
TimerSellWithinBalance ==
    \A i \in DOMAIN tasks :
        (tasks[i].why = "timer" /\ tasks[i].pc = "sell")
            => LET e == table[tasks[i].mint]
               IN  e # None /\ e.bal # None /\ tasks[i].amt <= e.bal
=============================================================================
