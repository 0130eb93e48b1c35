------------------------------ MODULE BuyPath ------------------------------
(***************************************************************************)
(* The buy path after a launch passed the filter (transaction/mod.rs       *)
(* pump_buy, tx.rs tx_pump_buy and update_nonce, and the ATA read of       *)
(* process_entries).  A buy is signed against RECENT_BLOCKHASH, the value  *)
(* of a durable nonce account, with an advance-nonce instruction first;    *)
(* two siblings (0slot and jito, differing only in their tip) are sent     *)
(* concurrently, then the nonce account is re-read at processed            *)
(* commitment into RECENT_BLOCKHASH, and 1.5 s later the token account is  *)
(* read.  The chain is modelled beside it: a nonce-anchored transaction    *)
(* executes only if its nonce is the account's current value, and          *)
(* executing it advances the value.  Relays forward, lose or delay a       *)
(* transaction; the expiry-slot instruction lets the chain drop it.        *)
(***************************************************************************)
EXTENDS Naturals, FiniteSets

CONSTANTS
    Launches,    \* launches that passed the filter, one buy task each
    Paths,       \* the relays: 0slot and jito
    Sequential   \* TRUE: one buy at a time (all launches in one 800-tx chunk)

VARIABLES
    nonce,       \* the nonce account's value on chain (its blockhash)
    recent,      \* RECENT_BLOCKHASH
    pc,          \* pc[l]: where launch l's buy task is
    bh,          \* bh[l]: the RECENT_BLOCKHASH value l's transactions carry
    pool,        \* transactions forwarded by a relay and not yet executed
    landed       \* landed[l]: how many of l's transactions executed

vars == <<nonce, recent, pc, bh, pool, landed>>

\* Mutant: the siblings are signed without the advance-nonce instruction,
\* with a recent blockhash that stays valid for both.
BuyTxNoNonce(l, p) == [launch |-> l, path |-> p, bh |-> bh[l], nonced |-> FALSE]

\* One sibling: advance_nonce_account at index 0, signed with bh[l].
BuyTx(l, p) == [launch |-> l, path |-> p, bh |-> bh[l], nonced |-> TRUE]

-----------------------------------------------------------------------------
\* start_blockhash_fetcher sets RECENT_BLOCKHASH before any buy.
Init ==
    /\ nonce = 0
    /\ recent = 0
    /\ pc = [l \in Launches |-> "idle"]
    /\ bh = [l \in Launches |-> 0]
    /\ pool = {}
    /\ landed = [l \in Launches |-> 0]

Busy(l) == pc[l] \in {"send", "update", "ata"}

(* pump_buy builds the instructions; tx_pump_buy reads RECENT_BLOCKHASH.   *)
(* Launches of different chunks run concurrently; within a chunk, one     *)
(* after the other.                                                        *)
Start(l) ==
    /\ pc[l] = "idle"
    /\ Sequential => \A k \in Launches : ~Busy(k)
    /\ bh' = [bh EXCEPT ![l] = recent]
    /\ pc' = [pc EXCEPT ![l] = "send"]
    /\ UNCHANGED <<nonce, recent, pool, landed>>

(* tokio::join! of the two HTTP sends.  Each relay may or may not forward  *)
(* its sibling, whatever its 500 ms-bounded response says; the results    *)
(* are discarded and tx_pump_buy returns Ok.                              *)
Send(l) ==
    /\ pc[l] = "send"
    /\ \E fwd \in SUBSET Paths : pool' = pool \cup {BuyTx(l, p) : p \in fwd}
    /\ pc' = [pc EXCEPT ![l] = "update"]
    /\ UNCHANGED <<nonce, recent, bh, landed>>

(* update_nonce: read the nonce account at processed commitment and write *)
(* its value to RECENT_BLOCKHASH; an RPC error is ignored by pump_buy.    *)
UpdateNonce(l) ==
    /\ pc[l] = "update"
    /\ \E ok \in BOOLEAN : recent' = IF ok THEN nonce ELSE recent
    /\ pc' = [pc EXCEPT ![l] = "ata"]
    /\ UNCHANGED <<nonce, bh, pool, landed>>

(* After sleep(1500): get_account_info_fast on the ATA.  A balance is     *)
(* found only if a sibling executed, and the RPC may still fail; the      *)
(* position is tracked or the launch is given up.                         *)
ReadAta(l) ==
    /\ pc[l] = "ata"
    /\ \E ok \in BOOLEAN :
         pc' = [pc EXCEPT ![l] = IF landed[l] > 0 /\ ok THEN "tracked" ELSE "untracked"]
    /\ UNCHANGED <<nonce, recent, bh, pool, landed>>

(* The chain processes a forwarded transaction: a nonce-anchored one runs *)
(* only if it carries the current nonce value, and then advances it even  *)
(* when the buy instruction fails (slippage past max_sol_cost, funds):    *)
(* the transaction is included, the fee paid, and no tokens bought.       *)
Execute(tx) ==
    /\ tx \in pool
    /\ pool' = pool \ {tx}
    /\ IF tx.nonced => tx.bh = nonce
         THEN /\ nonce' = IF tx.nonced THEN nonce + 1 ELSE nonce
              /\ \E bought \in BOOLEAN :
                   landed' = IF bought THEN [landed EXCEPT ![tx.launch] = @ + 1]
                             ELSE landed
         ELSE UNCHANGED <<nonce, landed>>
    /\ UNCHANGED <<recent, pc, bh>>

\* The relay loses it, or its expiry slot (create_slot + 1) passes.
Drop(tx) ==
    /\ tx \in pool
    /\ pool' = pool \ {tx}
    /\ UNCHANGED <<nonce, recent, pc, bh, landed>>

Next ==
    \/ \E l \in Launches : Start(l) \/ Send(l) \/ UpdateNonce(l) \/ ReadAta(l)
    \/ \E tx \in pool : Execute(tx) \/ Drop(tx)

Spec == Init /\ [][Next]_vars

-----------------------------------------------------------------------------
TypeOK ==
    /\ nonce \in Nat /\ recent \in Nat
    /\ pc \in [Launches -> {"idle", "send", "update", "ata", "tracked", "untracked"}]
    /\ bh \in [Launches -> Nat]
    /\ \A tx \in pool : tx.launch \in Launches /\ tx.path \in Paths
    /\ landed \in [Launches -> Nat]

(* The two-relay fan-out never buys a launch twice: both siblings carry   *)
(* the same nonce, so once one executes the other cannot, in whatever     *)
(* order the relays deliver them and whatever other buys run meanwhile.   *)
AtMostOneFillPerLaunch == \A l \in Launches : landed[l] <= 1

(* When no buy is in flight, the next buy is signed with the nonce        *)
(* account's current value, so it can land (the point of re-reading the   *)
(* nonce after each send).                                                *)
NonceFreshWhenQuiet ==
    \A l \in Launches :
        (pc[l] = "send" /\ pool = {}) => bh[l] = nonce
=============================================================================
