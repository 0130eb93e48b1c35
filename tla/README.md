# TLA+ models of shred-sniper-server

This directory holds TLA+ models of the sniper and analyzer services in `src/`. Each
module is translated from the Rust source. TLC checks the models with the
configurations listed below. `PROJECT.json` maps every definition to the lines it models
and lists each run, mutant, finding and hazard.

## The system

There are two processes.

**Sniper** (`src/sniper`) consists of these parts:

- **Shred stream loop** (`services/jito_client.rs`, `connect_and_process`). It decodes
  each slot's entries and awaits `process_entries` for the slot.
- **Filter and Submitter** (`services/transaction_processor.rs`, `process_entries`).
  - It checks the gates in this order: `BUY_ENABLED`, `GRPC_NORMAL`, the blacklist
    (the creator or `all`), the whitelist if enabled, a Create+Buy pair, and the cost
    bounds.
  - It then calls `pump_buy`, sleeps 1.5 s and reads the token account (ATA).
  - On a positive balance it records the position in `TOKEN_TABLE`
    (`update_token_state`) and spawns the 2-second stop-loss timer.
- **Position table** (`TOKEN_TABLE`, a `DashMap<Pubkey, TokenState>`). Fills, the
  listener and the exit tasks all share it.
- **Live-trade listener and exit engine** (`monitor.rs`).
  - `run_yellowstone_listener` receives transactions that touch a held bonding curve.
  - It calls `update_price_and_maybe_sell` under the entry's guard.
  - That call updates the current and highest prices, then runs the exit rules in
    order: time exit, trailing stop, stages 1-3, stop loss.
  - A firing rule spawns a task that calls `pump_sell`. Depending on the rule, the task
    then calls `add_to_blacklist` and/or `TOKEN_TABLE.remove`.
- **Blacklist** (`BLACKLIST`, a tokio `RwLock<HashSet<String>>`, and `blacklist.txt`).
  Four things touch it:
  - `add_to_blacklist` (stop-loss tasks and admin `add_blacklist`);
  - the 60 s `watch_blacklist_txt` reload;
  - admin `remove_blacklist`;
  - the filter, which only reads it.
- **Whitelist**:
  - `jito_client::start_periodic_task` fetches the analyzer's whitelist every 60 s
    and rewrites `whitelist.txt`;
  - `watch_whitelist_txt` reloads the file every 50 s.
- **Admin RPC** (`server.rs`): the config, whitelist settings and the blacklist.
- **Transaction building** (`transaction/mod.rs`, `tx.rs`): durable-nonce buys sent to
  0slot and jito, and sells sent with a fresh blockhash.

**Analyzer** (`src/analyzer`) subscribes to pump.fun logs and tracks each launch's
developer holding. When the developer sells out, it writes a `token_states` row. It
serves the whitelist aggregation over gRPC.

The two processes interact through the whitelist. Inside the sniper, the position
table, the blacklist and the config statics are shared state across tokio tasks.

## Modules

### `Position` (with `MCPosition`)

`Position` models the position table, the exit engine and the live-trade listener
(`run_yellowstone_listener`), whose health flag `GRPC_NORMAL` gates the buy path.

**State:**

| variable | code |
|---|---|
| `table[m]` | m's `TokenState`, or `None` when absent. Prices are integers on a scale where the fill price is 100. `bonding_curve` and `first_buy_time` are kept only as set/unset, and the age of `first_buy_time` is `elapsed[m]`. |
| `tasks` | the spawned tasks, each with its mint, reason, amount, creator and program counter |
| `blacklist` | the keys passed to `add_to_blacklist` |
| `lst`, `grpcNormal` | where the listener task is (`subscribe`, `stream`, `sleep`, or `dead` once it returned or panicked), and `GRPC_NORMAL` |
| `buy` | where m's buy path is: `idle`, `gated` (past the `GRPC_NORMAL` gate, in `pump_buy`, the 1.5 s sleep or the ATA read), `done` |
| `fillAmt`, `requested` | history: the balance the fill recorded, and the tokens `pump_sell` was asked for |

**Actions:**

| action | code |
|---|---|
| `Gate(m)` | `process_entries` reads `GRPC_NORMAL` (`FeedHealthy`) and the launch goes on to `pump_buy` and the 1.5 s sleep |
| `Fill(m, b)` | the ATA read returns b > 0: `update_token_state` (each field guarded by `is_none`), plus spawning the timer |
| `FillFails(m)` | the ATA read fails or returns 0 |
| `Tick(m)` | 2 s pass |
| `PriceUpdate(hit, m, p)` | one listener iteration. It matches on any held curve `hit` and updates the event's own mint `m` with the whole of `update_price_and_maybe_sell` (the or_insert, both prices, the early return, `Decide`, the write-back and the spawn). |
| `Sell(i)` | `pump_sell`, whose result is `tx_pump_sell`'s, Ok or Err |
| `Blacklist(i)` | `add_to_blacklist` |
| `Remove(i)` | `TOKEN_TABLE.remove` |
| `TimerWake(i)`, `TimerCheck(i)` | the timer task |
| `Subscribe` | `build_client` / `subscribe_with_request(...).await?`: the stream opens, or the `?` returns from the task for good |
| `ListenerTx` | any other transaction update, which only sets `GRPC_NORMAL` (ping, pong and the rest change nothing) |
| `ParsePanic(hit)` | a hit whose logs hold a `Program data:` payload shorter than 8 bytes: `split_at(8)` panics the task after the flag was set |
| `StreamEnds`, `RetryWake` | the stream yields `None` or an error: the flag is cleared and the task sleeps 60 s |

The constant `ListenerFaults` chooses which of the stream closing, the resubscribe
failing and the panic the environment produces in a run. The gate is read at the
start of the buy path and the ATA 1.5 s later; every other step may come between.

`Decide` is the if/else-if chain of `monitor.rs`. Each branch is its own operator
(`TimeExit`, `Trailing`, `Stage1`, `Stage2`, `Stage3`, `StopLoss`, `Keep`).

Float conditions become integer comparisons:

- `change >= 0.2` becomes `100*p >= 120*fbp`.
- `(x*0.4).round()` becomes `Round(x, 2, 5)`, which rounds half away from zero.

### `Blacklist` (with `MCBlacklist`)

**State:**

| variable | code |
|---|---|
| `mem` | the `BLACKLIST` set |
| `file` | the lines of `blacklist.txt` |
| `lock` | the writer holding `BLACKLIST`'s write lock across awaits |
| `add`, `rem`, `watch` | the program counters of the calls in flight |
| `addSnap`, `remSnap`, `watchSnap` | the file contents each call read |
| `durable` | history: the keys an add returned Ok for, with no removal since |

`mem` starts empty, as `BLACKLIST` does, until the watcher's first reload.

**Actions:**

| action(s) | code |
|---|---|
| `AddLock`, `AddRead`, `AddAppend` | `add_to_blacklist`, which holds the lock throughout |
| `RemRead`, `RemTruncate`, `RemWrite`, `RemLock` | `remove_blacklist`. `fs::write` is two steps, truncate and then write. The read, the create and the write may each fail: the `?` returns Err, and a failed write leaves the file empty. |
| `WatchRead`, `WatchReplace` | one pass of `watch_blacklist_txt` |

Keys are model values. The one string operation on the file's text,
`content.contains(key)`, becomes the constant relation `Substr`.

### `DevTracker` (with `MCDevTracker`)

`DevTracker` models the analyzer's ingest loop (`process_subscription` and `main` in
`src/analyzer/src/main.rs`). The chain is modelled beside it so that the rows the
analyzer writes can be compared with what happened.

| variable | code |
|---|---|
| `tokenMap` | `token_map`, holding the dev's holding, SOL bought and SOL sold, and the profit |
| `rows`, `tradeRows` | the `token_states` rows in order, and the number of `token_trades` rows per mint |
| `conn` | `"up"` while `process_subscription` runs, `"down"` during the 10 s sleep, `"dead"` after a panic |
| `chain`, `txs` | what happened on chain per mint, and the number of transactions so far |
| `missed` | history: an event of the mint never reached the map, or a write for it failed |

| action | code |
|---|---|
| `Observe(m, create, trades)` | one stream message. It applies the last CreateEvent, then the last TradeEvent (`ParseLogs`), through `DevTrade`, and the INSERTs, each of which may fail. |
| `ParsePanic` | a transaction with a `Program data:` payload shorter than 8 bytes: `split_at(8)` panics in `main`'s future and the process ends |
| `Missed` | a transaction that lands while the stream is down or the process is gone |
| `StreamError`, `Resubscribe` | the stream ends, and `main` subscribes again |

### `BuyPath` (with `MCBuyPath`)

`BuyPath` models the buy path: `pump_buy`, `tx_pump_buy`, `update_nonce` and the ATA
read in `process_entries`. It runs against a chain that holds the durable nonce account.

| variable | code |
|---|---|
| `nonce` | the nonce account's value on chain |
| `recent` | `RECENT_BLOCKHASH` |
| `pc[l]`, `bh[l]` | where launch `l`'s buy task is, and the value its transactions carry |
| `pool` | sibling transactions forwarded by a relay and not yet executed or dropped |
| `landed[l]` | how many of `l`'s transactions executed |

| action | code |
|---|---|
| `Start` | `pump_buy`. Under `Sequential`, it waits until no other buy is in flight, as in one chunk's loop. |
| `Send` | the `tokio::join!` of the 0slot and jito sends. Each relay may or may not forward its sibling. |
| `UpdateNonce` | `update_nonce`. An RPC error leaves `RECENT_BLOCKHASH` unchanged. |
| `ReadAta` | the read 1.5 s later. The position is tracked only if a sibling executed and the read succeeded. |
| `Execute`, `Drop` | the chain: a nonce-anchored transaction runs only against the current value, and advances it even when its buy instruction fails |

### `Classifier` (with `MCClassifier`)

`Classifier` models the launch classifier:

- `PumpParser::parse_transaction` and its helpers (`models/pump_parser.rs`): instruction
  extraction for legacy and v0 messages, the discriminators, the last Create and the last
  Buy, the account slots, the three length-prefixed strings (`ReadStrings`, RECURSIVE)
  and the creator after them, and the Buy payload;
- the loop of one chunk task of `process_entries`, with its gates in order (`Passes`).

Data are real byte sequences, and `LeBytes` decodes them as `from_le_bytes` does. The
reference half of the module (`Wire`, `Intended`) encodes a described transaction in
the venue's layout (spec §4.1) and says which launch the spec expects from it. The f64
price and buy-size arithmetic is not modelled: it works on products near 10^25.

### `Whitelist` (with `MCWhitelist`)

`Whitelist` models three tasks and how they interact:

- the admin `update_whitelist_config` (`server.rs`);
- the exporter `start_periodic_task` / `export_to_whitelist` (`jito_client.rs`), with
  the analyzer's `get_whitelist` query (`analyzer/src/server.rs`) as the answer it gets;
- the watcher `watch_whitelist_txt` (`transaction_processor.rs`).

| variable | code |
|---|---|
| `params` | the eight `unsafe` `WHITELIST_*` statics |
| `cfg[p]`, `cfgAt[p]` | where `update_whitelist_config(p)` is, and how many statics it has written |
| `exp`, `req`, `answer` | the exporter's program counter, the request it built, the `HashSet` it got back |
| `pending`, `buf`, `file` | the creators still to write, the `BufWriter`'s lines, and `whitelist.txt` |
| `watch`, `snap`, `mem` | the watcher's program counter, the lines it read, and `WHITELIST` |
| `begun` | history: every answer whose export began, and the initial file |

| action | code |
|---|---|
| `CfgEnv(p)`, `CfgWrite(p)` | the `.env` write, then one static per step in the code's order, so a request can be built from a half-written config |
| `Connect` | the single connect; on failure the task returns for good |
| `Request`, `Call` | building the request by reading the statics one by one, each before or after a racing assignment (`Sources`), and the call, which may fail (`continue`) |
| `Create`, `WriteLine`, `Finish` | `File::create` (truncates), one `writeln!` (flushing the buffer when it is full, which may fail; the drop then tries the flush once more), and the drop, which flushes and ignores the error |
| `WatchRead`, `WatchReplace` | one pass of the watcher |

`GetWhitelist(p)` is the SQL filter (`Qualifies`, the eight comparisons with
binds `$1..$8`) over a constant table of creator statistics. The answer is a set, and
the export writes it in any order (`SetToSeqs`).

### `PositionLifecycle` (abstract)

`PositionLifecycle` is what spec §3 and §4.7 promise for one mint. The position is
`none`, then `held` with a balance. Take-profit slices of half and then two fifths
of the balance are taken, rounded to nearest. A stage-3 sale of the rest follows.
The position ends `closed`. `Position` implements it through `Lifecycle`, an
`INSTANCE ... WITH` mapping:

- a mint with a priced entry and a fill is `held`, with the entry's stage and balance;
- a filled mint whose entry was removed, or was re-created unpriced by a later trade,
  is `closed`;
- a mint never filled is `none`.

`LifecycleRefined` checks `Position`'s specification against the abstract one.

## Runs

| run | expect | what it shows |
|---|---|---|
| `position_safety` | pass | Two mints with gated buys in flight, 5 prices crossing every threshold, fill balance 4, up to 4 spawned tasks. The take-profit bookkeeping adds up (`PartialAccounting`). No closed position leaves tokens unoffered (`ClosedPositionFullyOffered`). No balance underflows (`TypeOK`). |
| `stoploss_liveness` | pass | One mint, with every listener failure: the stream closing, the resubscribe failing, the parse panic. Every stop-loss exit eventually blacklists the creator (`StopLossBlacklists`). Every step of the table and the tasks is a step of `PositionLifecycle` (`LifecycleRefined`), so the stage-2 slice is rounded, not truncated. |
| `no_double_sell` | violation | Two trades before the exit task runs spawn two full sells. |
| `listener_panic` | violation | Two mints. A short log payload on the first mint's curve panics the listener after it set `GRPC_NORMAL`; the second launch's `Gate` step then passes with no listener to price or exit it (`GateMeansListening`). Spec §5 says a short buffer drops one record. |
| `listener_resubscribe` | violation | One mint, the stream closing and the re-subscribe failing. The `?` ends the listener task, and a held position never again gets a price update, so no trailing, take-profit or stop-loss exit fires (`ExitsKeepListening`). With only the close allowed, the property holds. |
| `blacklist_add` | pass | Adds racing reloads, with no removals and no key inside another. Every add that returned Ok eventually takes effect in memory, even when a reload that read the file before the append replaced the set (`AddTakesEffect`). |
| `blacklist_remove` | pass | One removal racing an add and the reload eventually keeps its key out. |
| `analyzer_accounting` | pass | One mint, up to 5 transactions of up to 2 trades, with failing INSERTs, stream drops and a panicking payload. For a mint whose events all arrived and were written, the last row's profit is the dev's net on chain (`SellOutAccounted`). The dev's holding never underflows (`TypeOK`). |
| `buy_fanout` | pass | Two overlapping buys, each with two siblings that may be delivered late, reordered or lost. No launch is bought twice (`AtMostOneFillPerLaunch`). |
| `buy_stale_nonce` | violation | `update_nonce` reads the nonce before the buy lands, so the next buy is signed with a consumed nonce. |
| `whitelist_refresh` | pass | One config update racing 2 exports, each read of a static before or after its assignment, with failing calls, creates and flushes, and the watcher. `WHITELIST` is always a subset of a single analyzer answer, never a mix of two exports (`WhitelistFromOneAnswer`). Once an update has finished and a request can still be made, the in-memory whitelist eventually is the analyzer's answer for the new parameters, unless the failure budget ran out or another update started (`ConfigTakesEffect`). |
| `classifier_contract` | pass | 6,480 transactions, single and in pairs. The launches handed to `pump_buy` are exactly those the spec's layout and contract give for the transactions looked at, and the three-account panic only hits a transaction the spec drops (`LaunchContract`). |

Each property of a passing run has a mutant in `PROJECT.json`. The mutant is a
plausible bug in the mapped code, and TLC finds the property violated when the mutant
replaces that code.

### Bounds

- **Position.**
  - The prices 90, 110, 125, 145 and 165 against a fill price of 100 put a price on
    each side of every threshold: −5 %, +20 %, +40 %, +60 %, and the trailing 95 % of
    the high.
  - A fill balance of 4 makes every slice non-trivial: 2, then 1, then the rest.
  - `MaxTasks = 4` allows a fill timer plus three exit decisions, which is enough for
    two exits to race.
  - Two mints are needed for the mismatched-mint update. The liveness run and the
    other violation runs use one mint. `listener_panic` needs two: the panic needs a
    held curve, so the launch that passes the dead gate is a second one.
  - The safety run has no listener faults. A fault only stops price updates, so the
    table and task states it reaches are reached without it. Every fault goes to the
    one-mint liveness run: with two mints, closing and failed resubscribes take the
    safety run past 6 minutes.
- **Blacklist.** Three creators and `all` give room for one add, one remove and one
  untouched key. `Substr` is empty: base58 has no letter `l`, so no address contains
  `all`, and no address occurs inside another.
- **DevTracker.** One mint and up to 5 transactions are enough for a create, a buy and
  a sell-out with an outage between them. Two trades per transaction exercise the
  last-event rule.
- **BuyPath.** Two launches are the fewest that can share a nonce. Two relays give the
  sibling race.
- **Whitelist.** Creators c1..c3 have statistics, and c4 has none. The initial
  parameters admit only c1 and the update admits c2 and c3. The torn request (new
  profit, old count) admits all three, so a half-applied config shows up in the
  answer. `Cap = 1` makes each export flush between lines, so a reader can see
  every prefix. `MaxExports = 2` lets one export race the update and one follow it;
  a third, before the update,
  multiplies the state space by six and takes the run past 5 minutes. `MaxFails = 1` covers each failure kind once.
- **Classifier.** Every feature the code tests is varied against the others:
  - the message version and lookups;
  - the instruction order and the program each instruction addresses;
  - both discriminators of each kind;
  - three creators (clean, blacklisted, off the whitelist);
  - four Create payload shapes (well formed with 0- or 2-byte names, the creator cut
    short, a name longer than the data);
  - 14, 3 and 2 accounts;
  - costs 299, 300, 7000, 7001 and a short Buy.

  Costs are in units of 10^6 lamports, so the window 300..7000 is the code's
  3·10^8..=7·10^9.

### Fairness

tokio runs every spawned task and every loop to completion, and time passes, so these
actions are weakly fair:

- in `Position`: `Tick`, each task's steps, and the listener's `RetryWake` (its sleep
  ends) and `Subscribe` (the call returns). Stream updates and failures are not
  promised;
- in `Blacklist`: the steps of calls already made, and the watcher's loop;
- in `Whitelist`: the config call's writes, every exporter step and the watcher's
  loop. The exporter is bounded by `MaxExports`. Otherwise its next truncation can
  always come just before the watcher's read, so no eventuality about the file could
  hold.

`DevTracker`, `BuyPath` and `Classifier` are checked only for safety, so they assume no
fairness.

Trades, launches and admin calls come from outside, so none of them is assumed to
happen.

## Plan

This is the order of work still to do, most important first:

1. **`Sniper` composition.** Make `Classifier`'s gates read `Blacklist`'s set and
   compose them with `Position`. A stop-loss blacklisting could then be followed to the
   creator's next launch.
2. **Lost add.** A violation run for the add that a concurrent `remove_blacklist`
   writes out of the file, once a run slot is free.

### Findings whose runs were retired

The run cap is 12, so four findings have no run of their own. Their cfgs are
kept, and each still gives the violation described here.

The blacklist truncate finding (`MCBlacklist_truncate.cfg`, `UntouchedStaysBlacklisted`)
no longer has a run. `remove_blacklist` writes the file
with `fs::write`, which truncates first, so a reload in between empties the in-memory
blacklist until the next reload; a failed write leaves it empty for good. Spec §4.8
says readers never see a truncated file.

The chunk-panic finding (`MCClassifier_panic.cfg`, `ChunkComplete`) has never had a
run. `parse_transaction` guards its account reads with `accounts.len() >= 3` but reads
`accounts[3]`, so a venue Create with exactly three accounts panics the chunk task.
Every later transaction of the 800-transaction chunk is then never looked at, and TLC
shows a good launch lost after one. Spec §4.1 says a malformed instruction drops that
one record.

The timer finding (`MCPosition_timerbal.cfg`, `TimerSellWithinBalance`) gave its slot to
`listener_resubscribe`, and its cfg is kept. The 2 s timer sells the fill-time balance
after a stage-1 slice. `NoDoubleSell` also catches it: with every exit task excluded by
a constraint, the timer and one slice ask `pump_sell` for 6 of 4 tokens.

The analyzer's second-row finding (`MCDevTracker_onerow.cfg`, `OneRowPerMint`) no longer
has a run. A dev who sells out, buys again and sells out again gets
a second `token_states` row. That makes the whitelist query's `COUNT(*)` and averages
count the token twice.

## Not modelled

- The label tables (`utils/mod.rs`), protobuf code generation (`sniper-protos`) and
  the gRPC client wrapper hold no state any property could distinguish.
- Instruction encoding, signing, the tip accounts and the HTTP calls to 0slot and
  jito are not modelled. The model keeps only their outcome, Ok or Err.
- The periodic `clean_token_account_task` is on-chain I/O outside the spec's scope.
  Its `unwrap()`s end it for good on one RPC error, which is listed as a hazard.
- `.env` and restarts. `update_config` and `update_whitelist_config` rewrite `.env`
  by read-modify-write with an await between the read and the write. Two concurrent
  admin calls lose one call's keys on disk. This is listed as a hazard. The statics
  are what every run checks, and showing the lost update would take a violation run
  with a restart action.
- The shred loop `connect_and_process` holds only its retry delay (1 s doubling to
  30 s), which sets sleep lengths, and time is not modelled. While it is down no
  launch arrives, which every model already allows.
- `update_config`'s statics (`BUY_ENABLED`, `MAX_SOL`, the relay fees and
  `WHITELIST_ENABLED`) are set only by the admin and read without synchronisation.
  The hazard is a torn update, such as buying enabled with the old `MAX_SOL`, and it
  is listed. Its violation would need a run slot, and every slot holds a finding of
  more consequence.
- Restarting the analyzer. `DevTracker`'s `ParsePanic` ends the process, since `main`
  awaits `process_subscription` directly, and nothing in the repository restarts it.
