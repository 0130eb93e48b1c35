------------------------------ MODULE Whitelist ------------------------------
(***************************************************************************)
(* The sniper's creator whitelist and the three tasks that feed it:        *)
(*   - admin update_whitelist_config: writes the .env file, then the eight *)
(*     unsafe WHITELIST_* statics one after another;                       *)
(*   - start_periodic_task: connects to the analyzer once, then every 60 s *)
(*     builds a WhitelistRequest from the statics, calls get_whitelist and *)
(*     hands the answer to export_to_whitelist, which truncates            *)
(*     whitelist.txt (File::create) and writes one line per creator        *)
(*     through a BufWriter, flushed when full and when dropped;            *)
(*   - watch_whitelist_txt: every 50 s reads the file without any lock and *)
(*     replaces WHITELIST by the set of its lines.                         *)
(* The analyzer's answer is its WHITELIST_SQL filter over per-creator      *)
(* statistics, returned as a HashSet, so in no particular order.           *)
(* Time is not modelled: the 50 s and 60 s periods become interleavings.   *)
(***************************************************************************)
EXTENDS Naturals, Sequences, SequencesExt

CONSTANTS
    Stats,      \* Stats[c]: the token_stats/user_counts/top3 row of creator
                \* c; creators without a finished token_states row are not
                \* in DOMAIN Stats
    InitParams, \* the WHITELIST_* values read from .env at start
    Updates,    \* parameter records update_whitelist_config is called with
    InitFile,   \* lines of whitelist.txt at start, or Absent
    Absent,
    Cap,        \* lines the BufWriter holds before it flushes (8 KiB)
    MaxFails,   \* failed calls, creates and writes, over the whole run
    MaxExports  \* periodic requests the model lets the exporter make

(* The order in which update_whitelist_config assigns the statics.         *)
FieldOrder == <<"profit", "avg", "count", "mid", "hold_less_5_sec_count",
                "min_hold", "avg_user", "top_3_buy">>

VARIABLES
    params,     \* the WHITELIST_* statics
    cfg,        \* cfg[p]: program counter of update_whitelist_config(p)
    cfgAt,      \* cfgAt[p]: statics update_whitelist_config(p) has written
    exp,        \* program counter of start_periodic_task
    req,        \* the WhitelistRequest of the current call
    answer,     \* filtered_creators of the current response
    pending,    \* creators export_to_whitelist has still to write
    buf,        \* lines in the BufWriter, not yet in the file
    file,       \* lines of whitelist.txt, or Absent
    fails,      \* failed calls, creates and writes so far
    exports,    \* requests made so far
    watch,      \* program counter of watch_whitelist_txt
    snap,       \* the set the watcher read from the file
    mem,        \* WHITELIST
    begun       \* history: every answer whose export began, and InitFile

vars == <<params, cfg, cfgAt, exp, req, answer, pending, buf, file, fails,
          exports, watch, snap, mem, begun>>
cfgVars == <<cfg, cfgAt>>
expVars == <<exp, req, answer, pending, buf, fails, exports, begun>>
watchVars == <<watch, snap, mem>>

(* WHITELIST_SQL's WHERE clause, with its binds $1..$8.                    *)
Qualifies(s, p) ==
    /\ s.avg_holding_seconds > p.avg
    /\ s.total_profit_sol > p.profit
    /\ s.token_count > p.count
    /\ s.mid_hold_count <= p.mid
    /\ s.hold_less_5_sec_count <= p.hold_less_5_sec_count
    /\ s.min_holding_seconds >= p.min_hold
    /\ s.avg_users_per_token >= p.avg_user
    /\ s.avg_top3_buy >= p.top_3_buy

(* get_whitelist: the creators of the rows the query returns.              *)
GetWhitelist(p) == {c \in DOMAIN Stats : Qualifies(Stats[c], p)}

FileLines == IF InitFile = Absent THEN {} ELSE ToSet(InitFile)

-----------------------------------------------------------------------------
Init ==
    /\ params = InitParams
    /\ cfg = [p \in Updates |-> "idle"]
    /\ cfgAt = [p \in Updates |-> 0]
    /\ exp = "connect"
    /\ req = InitParams
    /\ answer = {}
    /\ pending = << >>
    /\ buf = << >>
    /\ file = InitFile
    /\ fails = 0
    /\ exports = 0
    /\ watch = "read"
    /\ snap = {}
    /\ mem = {}
    /\ begun = {FileLines}

(* update_whitelist_config(p): read_env_file and write_env_file; either   *)
(* may fail, and the call returns Err with the statics untouched.          *)
CfgEnv(p) ==
    /\ cfg[p] = "idle"
    /\ \/ cfg' = [cfg EXCEPT ![p] = "write"]
       \/ cfg' = [cfg EXCEPT ![p] = "err"]
    /\ UNCHANGED <<params, cfgAt, file>>
    /\ UNCHANGED expVars /\ UNCHANGED watchVars

(* One `*WHITELIST_X = config.x` assignment, in FieldOrder; after the     *)
(* eighth the call returns Ok.                                             *)
CfgWrite(p) ==
    /\ cfg[p] = "write"
    /\ LET f == FieldOrder[cfgAt[p] + 1]
       IN  params' = [params EXCEPT ![f] = p[f]]
    /\ cfgAt' = [cfgAt EXCEPT ![p] = @ + 1]
    /\ cfg' = [cfg EXCEPT ![p] = IF cfgAt[p] + 1 = Len(FieldOrder)
                                   THEN "ok" ELSE "write"]
    /\ UNCHANGED <<file>> /\ UNCHANGED expVars /\ UNCHANGED watchVars

(* WhitelistServiceClient::connect; on error the task logs and returns,   *)
(* and nothing refreshes whitelist.txt again.                              *)
Connect ==
    /\ exp = "connect"
    /\ exp' \in {"sleep", "dead"}
    /\ UNCHANGED <<params, req, answer, pending, buf, file, fails, exports,
                   begun>>
    /\ UNCHANGED cfgVars /\ UNCHANGED watchVars

\* Mutant: the request is built once, before the loop, from the .env values.
RequestHoisted ==
    /\ exp = "sleep"
    /\ exports < MaxExports
    /\ req' = InitParams
    /\ exports' = exports + 1
    /\ exp' = "call"
    /\ UNCHANGED <<params, answer, pending, buf, file, fails, begun>>
    /\ UNCHANGED cfgVars /\ UNCHANGED watchVars

(* Where a static may be read from while it is read: its current value,   *)
(* or the value of an update_whitelist_config call that has still to      *)
(* assign it.  The reads race those assignments with no synchronisation, *)
(* so which one a read sees is not determined.                             *)
Sources(f) ==
    {params} \cup {p \in Updates : /\ cfg[p] = "write"
                                 /\ cfgAt[p] < SelectInSeq(FieldOrder, LAMBDA x : x = f)}

(* After the 60 s sleep: a WhitelistRequest built by reading the eight    *)
(* statics one after another, each possibly before or after a racing      *)
(* update's assignment to it.                                              *)
Request ==
    /\ exp = "sleep"
    /\ exports < MaxExports
    /\ \E g \in [Range(FieldOrder) -> {params} \cup Updates] :
         /\ \A f \in Range(FieldOrder) : g[f] \in Sources(f)
         /\ req' = [f \in Range(FieldOrder) |-> g[f][f]]
    /\ exports' = exports + 1
    /\ exp' = "call"
    /\ UNCHANGED <<params, answer, pending, buf, file, fails, begun>>
    /\ UNCHANGED cfgVars /\ UNCHANGED watchVars

(* get_whitelist(request).await: an error is logged and the loop goes on  *)
(* (`continue`); an answer goes to export_to_whitelist.                    *)
Call ==
    /\ exp = "call"
    /\ \/ /\ fails < MaxFails
          /\ fails' = fails + 1
          /\ exp' = "sleep"
          /\ UNCHANGED answer
       \/ /\ answer' = GetWhitelist(req)
          /\ exp' = "create"
          /\ UNCHANGED fails
    /\ UNCHANGED <<params, req, pending, buf, file, exports, begun>>
    /\ UNCHANGED cfgVars /\ UNCHANGED watchVars

\* Mutant: the file is opened for append (OpenOptions::append) instead of
\* File::create, so the old lines stay in front of the new ones.
CreateAppends ==
    /\ exp = "create"
    /\ \/ /\ fails < MaxFails
          /\ fails' = fails + 1
          /\ exp' = "sleep"
          /\ UNCHANGED <<pending, file, begun>>
       \/ /\ \E order \in SetToSeqs(answer) : pending' = order
          /\ begun' = begun \cup {answer}
          /\ exp' = "write"
          /\ UNCHANGED <<fails, file>>
    /\ buf' = << >>
    /\ UNCHANGED <<params, req, answer, exports>>
    /\ UNCHANGED cfgVars /\ UNCHANGED watchVars

(* File::create("whitelist.txt"): creates or truncates the file, or fails *)
(* and export_to_whitelist returns Err.  The creators are written in the  *)
(* HashSet's order, which is none in particular.                           *)
Create ==
    /\ exp = "create"
    /\ \/ /\ fails < MaxFails
          /\ fails' = fails + 1
          /\ exp' = "sleep"
          /\ UNCHANGED <<pending, file, begun>>
       \/ /\ file' = << >>
          /\ \E order \in SetToSeqs(answer) : pending' = order
          /\ begun' = begun \cup {answer}
          /\ exp' = "write"
          /\ UNCHANGED fails
    /\ buf' = << >>
    /\ UNCHANGED <<params, req, answer, exports>>
    /\ UNCHANGED cfgVars /\ UNCHANGED watchVars

(* writeln!(writer, "{}", creator)?: a full buffer is flushed to the file *)
(* first; that write may fail, and the function returns Err.  The failed  *)
(* lines stay buffered, and dropping the BufWriter on the way out tries   *)
(* to flush them once more, ignoring the result.                           *)
WriteLine ==
    /\ exp = "write"
    /\ pending # << >>
    /\ \/ /\ Len(buf) < Cap
          /\ buf' = Append(buf, Head(pending))
          /\ pending' = Tail(pending)
          /\ UNCHANGED <<file, fails, exp>>
       \/ /\ Len(buf) = Cap
          /\ file' = file \o buf
          /\ buf' = << Head(pending) >>
          /\ pending' = Tail(pending)
          /\ UNCHANGED <<fails, exp>>
       \/ /\ Len(buf) = Cap
          /\ fails < MaxFails
          /\ fails' = fails + 1
          /\ file' \in {file, file \o buf}
          /\ buf' = << >>
          /\ pending' = << >>
          /\ exp' = "sleep"
    /\ UNCHANGED <<params, req, answer, exports, begun>>
    /\ UNCHANGED cfgVars /\ UNCHANGED watchVars

(* The function returns Ok and the BufWriter is dropped: drop flushes the *)
(* rest, and ignores a failure to.                                         *)
Finish ==
    /\ exp = "write"
    /\ pending = << >>
    /\ \/ /\ file' = file \o buf
          /\ UNCHANGED fails
       \/ /\ fails < MaxFails
          /\ fails' = fails + 1
          /\ UNCHANGED file
    /\ buf' = << >>
    /\ exp' = "sleep"
    /\ UNCHANGED <<params, req, answer, pending, exports, begun>>
    /\ UNCHANGED cfgVars /\ UNCHANGED watchVars

(* read_whitelist: tokio::fs::read_to_string, the set of its trimmed      *)
(* non-empty lines; a missing file leaves WHITELIST as it is.              *)
WatchRead ==
    /\ watch = "read"
    /\ file # Absent
    /\ snap' = ToSet(file)
    /\ watch' = "replace"
    /\ UNCHANGED <<params, file, mem>>
    /\ UNCHANGED cfgVars /\ UNCHANGED expVars

(* WHITELIST.write().await; *wl = new_set; then sleep 50 s and loop.      *)
WatchReplace ==
    /\ watch = "replace"
    /\ mem' = snap
    /\ watch' = "read"
    /\ UNCHANGED <<params, file, snap>>
    /\ UNCHANGED cfgVars /\ UNCHANGED expVars

Next ==
    \/ \E p \in Updates : CfgEnv(p) \/ CfgWrite(p)
    \/ Connect \/ Request \/ Call \/ Create \/ WriteLine \/ Finish
    \/ WatchRead \/ WatchReplace

(* Every task, once started, is run by the tokio runtime: an admin call   *)
(* to its end, the exporter and the watcher around their loops.  Whether  *)
(* and when an admin call is made is the environment's choice.             *)
Fairness ==
    /\ \A p \in Updates : WF_vars(CfgWrite(p))
    /\ WF_vars(Connect) /\ WF_vars(Request) /\ WF_vars(Call)
    /\ WF_vars(Create) /\ WF_vars(WriteLine) /\ WF_vars(Finish)
    /\ WF_vars(WatchRead) /\ WF_vars(WatchReplace)

Spec == Init /\ [][Next]_vars
FairSpec == Spec /\ Fairness

-----------------------------------------------------------------------------
TypeOK ==
    /\ params \in [Range(FieldOrder) -> Nat]
    /\ cfg \in [Updates -> {"idle", "write", "err", "ok"}]
    /\ cfgAt \in [Updates -> 0..Len(FieldOrder)]
    /\ exp \in {"connect", "sleep", "call", "create", "write", "dead"}
    /\ answer \subseteq DOMAIN Stats /\ mem \subseteq DOMAIN Stats
    /\ file = Absent \/ file \in Seq(DOMAIN Stats)
    /\ fails \in 0..MaxFails /\ exports \in 0..MaxExports
    /\ watch \in {"read", "replace"}

(* Whatever the watcher's reads catch of an export in progress, the       *)
(* in-memory whitelist holds creators of one answer only: the file is     *)
(* truncated before the new lines go in and the set is replaced, not      *)
(* merged, so a torn read can drop whitelisted creators but never admit   *)
(* one that no single answer of the analyzer contains.                    *)
WhitelistFromOneAnswer == \E S \in begun : mem \subseteq S

(* The exporter is connected and idle, with a request left in the model. *)
CanRequest == exp = "sleep" /\ exports < MaxExports

(* The model's requests are used up after an I/O step failed.             *)
Exhausted == exp = "sleep" /\ exports = MaxExports /\ fails = MaxFails

(* Once update_whitelist_config(p) has returned Ok and the exporter is    *)
(* connected, WHITELIST eventually is exactly the analyzer's answer for   *)
(* p: the next request carries all eight new statics, the export writes   *)
(* every line and the watcher reads the whole file.  Not once another     *)
(* update was made, nor if failed calls or writes used up the requests.   *)
ConfigTakesEffect ==
    \A p \in Updates :
        (cfg[p] = "ok" /\ CanRequest)
            ~> \/ mem = GetWhitelist(p)
               \/ Exhausted
               \/ \E q \in Updates \ {p} : cfg[q] \in {"write", "ok"}
====
