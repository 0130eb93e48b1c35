----------------------------- MODULE DevTracker -----------------------------
(***************************************************************************)
(* The analyzer's ingest loop (src/analyzer/src/main.rs): one task reads   *)
(* the venue's transactions from a Yellowstone stream and, per             *)
(* transaction, applies the last CreateEvent and the last TradeEvent of    *)
(* its logs to the token map: a Create inserts a fresh TokenState, a dev   *)
(* buy or sell moves the dev's holding and SOL totals, a dev sell that     *)
(* empties the holding writes a token_states row, and any other user's     *)
(* trade writes a token_trades row.  A database error or a stream error    *)
(* ends process_subscription; main sleeps 10 s and subscribes again, and   *)
(* what happened on chain meanwhile is never delivered.                    *)
(*                                                                         *)
(* The chain is modelled beside the analyzer so that what the analyzer     *)
(* records can be compared with what happened.  Timestamps (start time,    *)
(* duration) are left out: no property here is about them.                 *)
(***************************************************************************)
EXTENDS Integers, Sequences, SequencesExt

CONSTANTS
    Mints,           \* token mints launched in the run
    SolAmts,         \* lamport amounts of a trade
    TokAmts,         \* token amounts of a trade
    MaxTradesPerTx,  \* trade events one transaction may carry
    MaxTxs,          \* bound on chain transactions
    DbCanFail,       \* whether an INSERT may return an error
    StreamCanFail,   \* whether the stream may end or error
    ParseCanPanic,   \* whether a log payload shorter than 8 bytes may occur
    None

ASSUME MaxTradesPerTx \in Nat \ {0} /\ MaxTxs \in Nat
ASSUME DbCanFail \in BOOLEAN /\ StreamCanFail \in BOOLEAN /\ ParseCanPanic \in BOOLEAN

VARIABLES
    tokenMap,   \* token_map: mint -> TokenState or None
    rows,       \* token_states rows, in insertion order
    tradeRows,  \* number of token_trades rows per mint
    conn,       \* "up" while process_subscription runs, "down" in the 10 s
                \* sleep, "dead" once the process has panicked
    chain,      \* what happened on chain, per mint
    txs,        \* chain transactions so far
    missed      \* history: an event of the mint never reached the token map,
                \* or a write for it failed

vars == <<tokenMap, rows, tradeRows, conn, chain, txs, missed>>

Users == {"dev", "other"}
Trades == [user: Users, isBuy: BOOLEAN, sol: SolAmts, tok: TokAmts]

\* TokenState with the fields the accounting uses.  dev_initial_buy is
\* Some from the Create on, so it is kept as a number.
NewState == [hold |-> 0, buy |-> 0, sell |-> 0, profit |-> None]

-----------------------------------------------------------------------------
(* The chain.  The dev cannot sell more tokens than it holds.             *)

ChainTrade(c, t) ==
    CASE t.user = "other" -> [c EXCEPT !.others = @ + 1]
      [] t.isBuy          -> [c EXCEPT !.hold = @ + t.tok, !.buy = @ + t.sol]
      [] OTHER            -> [c EXCEPT !.hold = @ - t.tok, !.sell = @ + t.sol,
                                       !.ok = @ /\ c.hold >= t.tok]

ChainTx(c, create, trades) ==
    FoldLeft(ChainTrade, [c EXCEPT !.created = @ \/ create, !.ok = TRUE], trades)

\* The chain's state for m after a transaction, if the chain accepts it.
ValidTx(m, create, trades) ==
    /\ create => ~chain[m].created
    /\ Len(trades) > 0 => (create \/ chain[m].created)
    /\ ChainTx(chain[m], create, trades).ok

-----------------------------------------------------------------------------
(* The analyzer's handling of one trade of a known mint (main.rs 264-321). *)

\* Mutant: the dev's buy adds the token amount to dev_initial_buy.
DevBuyAddsTokens(s, t) == [s EXCEPT !.hold = @ + t.tok, !.buy = @ + t.tok]

DevBuy(s, t) == [s EXCEPT !.hold = @ + t.tok, !.buy = @ + t.sol]

DevSell(s, t) ==
    LET s1 == [s EXCEPT !.hold = @ - t.tok, !.sell = @ + t.sol]
    IN  IF s1.hold = 0 THEN [s1 EXCEPT !.profit = s1.sell - s1.buy] ELSE s1

\* Mutant: a dev sell is applied without comparing it with the holding.
DevTradeUnchecked(s, t) == IF t.isBuy THEN DevBuy(s, t) ELSE DevSell(s, t)

\* The state a dev trade leaves; a sell of more than the holding only logs.
DevTrade(s, t) ==
    CASE t.isBuy           -> DevBuy(s, t)
      [] s.hold >= t.tok   -> DevSell(s, t)
      [] OTHER             -> s

(* EventTrait::parse_logs: scanning the logs from the end, the first     *)
(* "Program data: " payload that decodes with the event's discriminator:  *)
(* of several events of a kind in one transaction, only the last is seen. *)
ParseLogs(events) == Last(events)

\* trade_event.user == token_state.token_creator
IsDev(t) == t.user = "dev"

\* "Filter out the dev's own trades": every other user's trade is logged.
TradeRowWritten(t) == t.user # "dev"

\* A dev trade that empties the holding persists the state.
PersistsRow(s, t) == ~t.isBuy /\ s.hold >= t.tok /\ s.hold - t.tok = 0

Row(m, s) == [mint |-> m, profit |-> s.profit]

-----------------------------------------------------------------------------
Init ==
    /\ tokenMap = [m \in Mints |-> None]
    /\ rows = << >>
    /\ tradeRows = [m \in Mints |-> 0]
    /\ conn = "up"
    /\ chain = [m \in Mints |-> [created |-> FALSE, hold |-> 0, buy |-> 0,
                                 sell |-> 0, others |-> 0, ok |-> TRUE]]
    /\ txs = 0
    /\ missed = [m \in Mints |-> FALSE]

DbOutcomes == IF DbCanFail THEN BOOLEAN ELSE {TRUE}

\* A transaction of mint m lands on chain.
ChainStep(m, create, trades) ==
    /\ txs < MaxTxs
    /\ ValidTx(m, create, trades)
    /\ chain' = [chain EXCEPT ![m] = ChainTx(@, create, trades)]
    /\ txs' = txs + 1

(* One iteration of process_subscription's loop for a transaction of m:    *)
(* insert a fresh TokenState for the last CreateEvent, then apply the last *)
(* TradeEvent if its mint is known.  An INSERT that fails returns Err (the  *)
(* token map keeps what was already done) and the stream is dropped.       *)
Observe(m, create, trades) ==
    /\ conn = "up"
    /\ ChainStep(m, create, trades)
    /\ LET m1   == IF create THEN [tokenMap EXCEPT ![m] = NewState] ELSE tokenMap
           seen == Len(trades) <= 1
       IN  IF Len(trades) = 0 \/ m1[m] = None
             THEN /\ tokenMap' = m1
                  /\ missed' = [missed EXCEPT ![m] = @ \/ ~seen]
                  /\ UNCHANGED <<rows, tradeRows, conn>>
             ELSE LET t       == ParseLogs(trades)
                      s       == m1[m]
                      persist == IsDev(t) /\ PersistsRow(s, t)
                      logged  == TradeRowWritten(t)
                  IN  \E dbOk \in DbOutcomes :
                        /\ tokenMap' = IF IsDev(t) THEN [m1 EXCEPT ![m] = DevTrade(s, t)]
                                       ELSE m1
                        /\ rows' = IF persist /\ dbOk
                                   THEN Append(rows, Row(m, DevTrade(s, t))) ELSE rows
                        /\ tradeRows' = IF logged /\ dbOk
                                        THEN [tradeRows EXCEPT ![m] = @ + 1] ELSE tradeRows
                        /\ conn' = IF (persist \/ logged) /\ ~dbOk THEN "down" ELSE conn
                        /\ missed' = [missed EXCEPT ![m] =
                                        @ \/ ~seen \/ ((persist \/ logged) /\ ~dbOk)]

(* A transaction carries a "Program data: " payload that decodes to fewer  *)
(* than 8 bytes: parse_logs' bytes.split_at(8) panics inside main's own    *)
(* future, so the analyzer process ends; nothing restarts it.             *)
ParsePanic(m, create, trades) ==
    /\ ParseCanPanic
    /\ conn = "up"
    /\ ChainStep(m, create, trades)
    /\ conn' = "dead"
    /\ missed' = [missed EXCEPT ![m] = TRUE]
    /\ UNCHANGED <<tokenMap, rows, tradeRows>>

(* A transaction lands while the analyzer is between subscriptions, or    *)
(* after it died: it is never delivered.                                  *)
Missed(m, create, trades) ==
    /\ conn \in {"down", "dead"}
    /\ ChainStep(m, create, trades)
    /\ missed' = [missed EXCEPT ![m] = TRUE]
    /\ UNCHANGED <<tokenMap, rows, tradeRows, conn>>

\* stream.next() yields Err, or the stream ends: process_subscription returns.
StreamError ==
    /\ StreamCanFail
    /\ conn = "up"
    /\ conn' = "down"
    /\ UNCHANGED <<tokenMap, rows, tradeRows, chain, txs, missed>>

\* After sleep(10 s), main calls process_subscription again.
Resubscribe ==
    /\ conn = "down"
    /\ conn' = "up"
    /\ UNCHANGED <<tokenMap, rows, tradeRows, chain, txs, missed>>

TxShapes == {<<c, tr>> : c \in BOOLEAN,
                         tr \in UNION {[1..n -> Trades] : n \in 0..MaxTradesPerTx}}

Next ==
    \/ \E m \in Mints, x \in TxShapes :
         Observe(m, x[1], x[2]) \/ ParsePanic(m, x[1], x[2]) \/ Missed(m, x[1], x[2])
    \/ StreamError \/ Resubscribe

Spec == Init /\ [][Next]_vars

-----------------------------------------------------------------------------
(* Every variable has its type; dev_current_holding is a u64, so a sell  *)
(* of more than the recorded holding must never be subtracted.            *)
TypeOK ==
    /\ tokenMap \in [Mints -> {None} \cup [hold: Nat, buy: Nat, sell: Nat,
                                           profit: {None} \cup Int]]
    /\ rows \in Seq([mint: Mints, profit: Int])
    /\ tradeRows \in [Mints -> Nat]
    /\ conn \in {"up", "down", "dead"}
    /\ txs \in 0..MaxTxs
    /\ missed \in [Mints -> BOOLEAN]

\* The token_states rows of mint m.
RowsOf(m) == SelectSeq(rows, LAMBDA r : r.mint = m)

(* Analyzer accounting (spec 8): once the dev has sold out on chain, the  *)
(* latest token_states row of the mint carries the net of every dev sell  *)
(* and buy the chain saw, as long as the analyzer received each of the    *)
(* mint's events and each of its writes succeeded.                        *)
SellOutAccounted ==
    \A m \in Mints :
        (~missed[m] /\ chain[m].created /\ chain[m].hold = 0 /\ chain[m].sell > 0)
            => /\ RowsOf(m) # << >>
               /\ Last(RowsOf(m)).profit = chain[m].sell - chain[m].buy

(* Spec 3 and 8: exactly one token_states row per mint, written when the  *)
(* dev fully exits (the entry is removed when persisted).                 *)
OneRowPerMint ==
    \A m \in Mints : Len(RowsOf(m)) <= 1
=============================================================================
