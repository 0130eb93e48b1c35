------------------------------ MODULE Blacklist ------------------------------
(***************************************************************************)
(* The sniper's creator blacklist: the in-memory BLACKLIST set (a tokio    *)
(* RwLock<HashSet<String>>) and its backing file blacklist.txt, and the    *)
(* four tasks that touch them:                                             *)
(*   - add_to_blacklist (stop-loss sell task, admin add_blacklist): takes  *)
(*     the write lock, inserts, reads the file and appends the key unless  *)
(*     the file's text already contains it, holding the lock throughout;   *)
(*   - watch_blacklist_txt: every 60 s reads the file without the lock,    *)
(*     then takes the write lock and replaces the set by the file's lines; *)
(*   - admin remove_blacklist: reads the file, rewrites it without the key *)
(*     (fs::write: truncate, then write), then takes the lock and removes; *)
(*   - process_entries, which reads the set under the read lock.           *)
(*                                                                         *)
(* A file is the set of its trimmed non-empty lines.  Keys are opaque; the *)
(* one string operation the code applies to the whole file text,           *)
(* content.contains(key), is the relation Substr: <<a, b>> \in Substr      *)
(* when key a occurs inside key b (every key occurs inside itself).        *)
(***************************************************************************)
EXTENDS Naturals, FiniteSets

CONSTANTS
    Keys,       \* creator addresses and the literal "all"
    All,        \* the key "all", which rejects every launch
    Substr,     \* <<a, b>>: string a occurs inside string b, a # b
    Adds,       \* keys add_to_blacklist is called with, once each
    Removes,    \* keys admin remove_blacklist is called with, once each
    InitFile,   \* the lines of blacklist.txt at start
    None

ASSUME All \in Keys /\ Substr \subseteq Keys \X Keys
ASSUME Adds \subseteq Keys /\ Removes \subseteq Keys /\ InitFile \subseteq Keys

VARIABLES
    mem,        \* BLACKLIST
    file,       \* the lines of blacklist.txt
    lock,       \* holder of BLACKLIST's write lock across awaits: None or
                \* an add_to_blacklist call (the others hold it in one step)
    add,        \* add[k]: program counter of add_to_blacklist(k)
    addSnap,    \* the file text add_to_blacklist(k) read
    rem,        \* rem[k]: program counter of remove_blacklist(k)
    remSnap,    \* the set remove_blacklist(k) read from the file
    watch,      \* program counter of watch_blacklist_txt
    watchSnap,  \* the set the watcher read from the file
    durable     \* history: keys whose add returned Ok, not removed since

vars == <<mem, file, lock, add, addSnap, rem, remSnap, watch, watchSnap, durable>>

\* A call is named by what it does and to which key.
AddCall(k) == <<"add", k>>

\* content.contains(k) on the text of a file with these lines.
TextContains(lines, k) == \E l \in lines : l = k \/ <<k, l>> \in Substr

-----------------------------------------------------------------------------
Init ==
    /\ mem = {}                  \* HashSet::new() until the first reload
    /\ file = InitFile
    /\ lock = None
    /\ add = [k \in Adds |-> "idle"]
    /\ addSnap = [k \in Adds |-> {}]
    /\ rem = [k \in Removes |-> "idle"]
    /\ remSnap = [k \in Removes |-> {}]
    /\ watch = "read"
    /\ watchSnap = {}
    /\ durable = {}

(* add_to_blacklist(k): BLACKLIST.write().await, then if the set lacks k, *)
(* insert it; if it has k, drop the lock and return Ok.                   *)
AddLock(k) ==
    /\ add[k] = "idle"
    /\ lock = None
    /\ IF k \in mem
         THEN /\ add' = [add EXCEPT ![k] = "ok"]
              /\ durable' = durable \cup {k}
              /\ UNCHANGED <<mem, lock>>
         ELSE /\ mem' = mem \cup {k}
              /\ lock' = AddCall(k)
              /\ add' = [add EXCEPT ![k] = "read"]
              /\ UNCHANGED durable
    /\ UNCHANGED <<file, addSnap, rem, remSnap, watch, watchSnap>>

(* fs::read_to_string(BLACKLIST_PATH), an empty text when it fails.       *)
AddRead(k) ==
    /\ add[k] = "read"
    /\ addSnap' = [addSnap EXCEPT ![k] = file]
    /\ add' = [add EXCEPT ![k] = "append"]
    /\ UNCHANGED <<mem, file, lock, rem, remSnap, watch, watchSnap, durable>>

\* Mutant: the skip test asks the in-memory set, which already holds k.
AddAppendChecksSet(k) ==
    /\ add[k] = "append"
    /\ lock' = None
    /\ add' = [add EXCEPT ![k] = "ok"]
    /\ durable' = durable \cup {k}
    /\ UNCHANGED <<mem, file, addSnap, rem, remSnap, watch, watchSnap>>

(* Unless the text read contains k: open for append and write "k\n" (the  *)
(* open or a write may fail: Err, with k already in the set).  The lock   *)
(* is dropped when the function returns.                                  *)
AddAppend(k) ==
    /\ add[k] = "append"
    /\ lock' = None
    /\ \/ /\ TextContains(addSnap[k], k)
          /\ add' = [add EXCEPT ![k] = "ok"]
          /\ durable' = durable \cup {k}
          /\ UNCHANGED file
       \/ /\ ~TextContains(addSnap[k], k)
          /\ file' = file \cup {k}
          /\ add' = [add EXCEPT ![k] = "ok"]
          /\ durable' = durable \cup {k}
       \/ /\ ~TextContains(addSnap[k], k)
          /\ add' = [add EXCEPT ![k] = "err"]
          /\ UNCHANGED <<file, durable>>
    /\ UNCHANGED <<mem, addSnap, rem, remSnap, watch, watchSnap>>

(* remove_blacklist(k): read_blacklist (no lock), the set of its lines;   *)
(* if fs::read_to_string fails the `?` returns Err and nothing changes.   *)
RemRead(k) ==
    /\ rem[k] = "idle"
    /\ \/ /\ remSnap' = [remSnap EXCEPT ![k] = file]
          /\ rem' = [rem EXCEPT ![k] = "truncate"]
       \/ /\ rem' = [rem EXCEPT ![k] = "err"]
          /\ UNCHANGED remSnap
    /\ durable' = durable \ {k}
    /\ UNCHANGED <<mem, file, lock, addSnap, add, watch, watchSnap>>

(* write_blacklist: fs::write creates (truncates) the file ...  If the    *)
(* create fails, the `?` returns Err with the file untouched.            *)
RemTruncate(k) ==
    /\ rem[k] = "truncate"
    /\ \/ /\ file' = {}
          /\ rem' = [rem EXCEPT ![k] = "write"]
       \/ /\ rem' = [rem EXCEPT ![k] = "err"]
          /\ UNCHANGED file
    /\ UNCHANGED <<mem, lock, add, addSnap, remSnap, watch, watchSnap, durable>>

\* Mutant: the key is removed from a copy, and the set read is written back.
RemWriteKeepsKey(k) ==
    /\ rem[k] = "write"
    /\ file' = remSnap[k]
    /\ rem' = [rem EXCEPT ![k] = "lock"]
    /\ UNCHANGED <<mem, lock, add, addSnap, remSnap, watch, watchSnap, durable>>

(* ... and writes every line of the set read, without k.  A failed write *)
(* leaves the file truncated and returns Err before the lock is taken.   *)
RemWrite(k) ==
    /\ rem[k] = "write"
    /\ \/ /\ file' = remSnap[k] \ {k}
          /\ rem' = [rem EXCEPT ![k] = "lock"]
       \/ /\ rem' = [rem EXCEPT ![k] = "err"]
          /\ UNCHANGED file
    /\ UNCHANGED <<mem, lock, add, addSnap, remSnap, watch, watchSnap, durable>>

(* BLACKLIST.write().await, then remove k from the set.                   *)
RemLock(k) ==
    /\ rem[k] = "lock"
    /\ lock = None
    /\ mem' = mem \ {k}
    /\ rem' = [rem EXCEPT ![k] = "done"]
    /\ UNCHANGED <<file, lock, add, addSnap, remSnap, watch, watchSnap, durable>>

(* watch_blacklist_txt: fs::read_to_string, its trimmed non-empty lines.  *)
WatchRead ==
    /\ watch = "read"
    /\ watchSnap' = file
    /\ watch' = "replace"
    /\ UNCHANGED <<mem, file, lock, add, addSnap, rem, remSnap, durable>>

(* BLACKLIST.write().await; *bl = new_set; then sleep 60 s and loop.      *)
WatchReplace ==
    /\ watch = "replace"
    /\ lock = None
    /\ mem' = watchSnap
    /\ watch' = "read"
    /\ UNCHANGED <<file, lock, add, addSnap, rem, remSnap, watchSnap, durable>>

Next ==
    \/ \E k \in Adds : AddLock(k) \/ AddRead(k) \/ AddAppend(k)
    \/ \E k \in Removes : RemRead(k) \/ RemTruncate(k) \/ RemWrite(k) \/ RemLock(k)
    \/ WatchRead \/ WatchReplace

(* Each call, once made, runs to its end, and the watcher loops forever.  *)
(* Which calls are made is the environment's choice: none is promised.    *)
Fairness ==
    /\ \A k \in Adds : WF_vars(AddRead(k) \/ AddAppend(k))
    /\ \A k \in Removes : WF_vars(RemTruncate(k) \/ RemWrite(k) \/ RemLock(k))
    /\ WF_vars(WatchRead) /\ WF_vars(WatchReplace)

Spec == Init /\ [][Next]_vars
FairSpec == Spec /\ Fairness

-----------------------------------------------------------------------------
TypeOK ==
    /\ mem \subseteq Keys /\ file \subseteq Keys
    /\ lock \in {None} \cup {AddCall(k) : k \in Adds}
    /\ add \in [Adds -> {"idle", "read", "append", "ok", "err"}]
    /\ addSnap \in [Adds -> SUBSET Keys]
    /\ rem \in [Removes -> {"idle", "truncate", "write", "lock", "done", "err"}]
    /\ remSnap \in [Removes -> SUBSET Keys]
    /\ watch \in {"read", "replace"} /\ watchSnap \subseteq Keys
    /\ durable \subseteq Adds

(* A creator that was in blacklist.txt at start and that no call adds or  *)
(* removes is in the set every reload of watch_blacklist_txt installs:    *)
(* spec 4.8, readers never observe a truncated file.                      *)
UntouchedStaysBlacklisted ==
    [][watch = "replace" /\ watch' = "read"
         => InitFile \ (Adds \cup Removes) \subseteq mem']_vars

(* Once add_to_blacklist(k) has returned Ok, and while no removal of k is *)
(* made, k is back in the in-memory set eventually, whatever the          *)
(* watcher's reloads did to it meanwhile.                                 *)
AddTakesEffect == \A k \in Adds : (k \in durable) ~> (k \in mem \/ k \notin durable)

(* Once remove_blacklist(k) has returned, k leaves the in-memory set for  *)
(* good eventually, even if a reload that read the file before the        *)
(* rewrite puts it back for a while.                                      *)
RemovalSticks == \A k \in Removes : (rem[k] = "done") ~> [](k \notin mem)
=============================================================================
