----------------------------- MODULE Classifier -----------------------------
(***************************************************************************)
(* The launch classifier: PumpParser::parse_transaction                    *)
(* (models/pump_parser.rs) and the loop of one chunk task of               *)
(* process_entries (services/transaction_processor.rs), which parses each  *)
(* transaction of its chunk in turn, applies the blacklist, whitelist and  *)
(* cost gates, and calls pump_buy for a launch that passes them.           *)
(*                                                                         *)
(* A transaction is a record: its message version, whether a v0 message   *)
(* has address-table lookups, its static account keys and its compiled    *)
(* instructions (program index, account indexes, data bytes).  Data are    *)
(* sequences of bytes, decoded as the code decodes them.  A public key's   *)
(* base58 text is the key itself; bs58::encode of 32 bytes is the key     *)
(* whose bytes they are.  name, symbol and uri are read only to find the   *)
(* creator's offset and are not kept.  The reference price and buy size    *)
(* (f64 arithmetic over reserves near 10^25) are not modelled.             *)
(***************************************************************************)
EXTENDS Integers, Sequences, SequencesExt

CONSTANTS
    Keys,          \* public keys
    PumpProgram,   \* PUMP_PROGRAM_ID
    KeyBytes,      \* KeyBytes[k]: the 32 bytes of key k
    MinSolCost,    \* the max_sol_cost window 300_000_000..=7_000_000_000,
    MaxSolCost,    \*   in the unit the model's byte encodings use
    Blacklist,     \* BLACKLIST during the chunk: keys and All
    All,           \* the literal "all"
    WhitelistEnabled, Whitelist,
    Mint, Curve, Assoc, Other,   \* keys of a launch's accounts, another program
    Chunks,        \* the transactions a chunk task may be given, as descriptions
    None, Panic, NoKey

ASSUME PumpProgram \in Keys /\ KeyBytes \in [Keys -> Seq(0..255)]
ASSUME WhitelistEnabled \in BOOLEAN

VARIABLES
    chunk,      \* the chunk's transactions
    i,          \* index of the transaction the loop is at
    pc,         \* "scan", "done", or "panicked" (the task's JoinError)
    submitted   \* the launches pump_buy was called for, in order

vars == <<chunk, i, pc, submitted>>

BuyDiscs    == {<<102, 6, 61, 18, 1, 218, 235, 234>>, <<242, 35, 198, 137, 82, 225, 242, 182>>}
CreateDiscs == {<<24, 30, 200, 40, 5, 28, 7, 119>>, <<54, 49, 138, 255, 162, 99, 87, 199>>}

\* uN::from_le_bytes of the n bytes of d from the 0-based offset off.
LeBytes(d, off, n) == FoldRight(LAMBDA b, acc : b + 256 * acc, SubSeq(d, off + 1, off + n), 0)

\* The discriminator match: the first 8 bytes, Unknown when shorter.
InstructionType(d) ==
    IF Len(d) < 8 THEN "Unknown"
    ELSE CASE SubSeq(d, 1, 8) \in BuyDiscs    -> "Buy"
           [] SubSeq(d, 1, 8) \in CreateDiscs -> "Create"
           [] OTHER                           -> "Unknown"

\* compile_instruction_to_pump_instruction: the keys of the account
\* indexes that exist in the message (filter_map over get).
CompileIx(ix, keys) ==
    LET idx == SelectSeq(ix.accts, LAMBDA a : a < Len(keys))
    IN  [type |-> InstructionType(ix.data), data |-> ix.data,
         accounts |-> [j \in 1..Len(idx) |-> keys[idx[j] + 1]]]

IsPumpIx(ix, keys) == ix.prog < Len(keys) /\ keys[ix.prog + 1] = PumpProgram

CompilePump(msg) ==
    LET p == SelectSeq(msg.ixs, LAMBDA ix : IsPumpIx(ix, msg.keys))
    IN  [j \in 1..Len(p) |-> CompileIx(p[j], msg.keys)]

ExtractLegacy(msg) == CompilePump(msg)

\* A v0 message with address-table lookups yields no instruction.
ExtractV0(msg) == IF msg.lookups THEN << >> ELSE CompilePump(msg)

(* The name, symbol and uri reads: n u32-length-prefixed strings from     *)
(* offset off, each read only if its prefix and its bytes fit; the nested *)
(* ifs stop at the first that does not.                                   *)
RECURSIVE ReadStrings(_, _, _)
ReadStrings(d, off, n) ==
    IF n = 0 THEN [off |-> off, ok |-> TRUE]
    ELSE IF off + 4 > Len(d) THEN [off |-> off, ok |-> FALSE]
    ELSE LET len == LeBytes(d, off, 4)
         IN  IF off + 4 + len > Len(d) THEN [off |-> off + 4, ok |-> FALSE]
             ELSE ReadStrings(d, off + 4 + len, n - 1)

Bs58(bytes) == CHOOSE k \in Keys : KeyBytes[k] = bytes

\* Mutant: the creator is read only if bytes remain after it.
CreatorOfStrict(d) ==
    LET r == ReadStrings(d, 8, 3)
    IN  IF Len(d) > 8 /\ r.ok /\ r.off + 32 < Len(d)
          THEN Bs58(SubSeq(d, r.off + 1, r.off + 32)) ELSE NoKey

\* The creator after the three strings, "" (NoKey) when any does not fit.
CreatorOf(d) ==
    LET r == ReadStrings(d, 8, 3)
    IN  IF Len(d) > 8 /\ r.ok /\ r.off + 32 <= Len(d)
          THEN Bs58(SubSeq(d, r.off + 1, r.off + 32)) ELSE NoKey

\* accounts[i] of a Vec: a panic when out of bounds.
Account(c, j) == IF j < Len(c.accounts) THEN c.accounts[j + 1] ELSE Panic

\* Guarded by accounts.len() >= 3, the reads of slots 0, 2 and 3.
CreateAccounts(c) ==
    IF Len(c.accounts) >= 3
      THEN [mint |-> Account(c, 0), curve |-> Account(c, 2), assoc |-> Account(c, 3)]
      ELSE [mint |-> NoKey, curve |-> NoKey, assoc |-> NoKey]

\* The Buy's token amount and max_sol_cost; None when shorter than 16.
BuyFields(b) ==
    IF Len(b.data) < 16 THEN None
    ELSE [amount |-> LeBytes(b.data, 8, 8),
          cost   |-> IF Len(b.data) >= 24 THEN LeBytes(b.data, 16, 8) ELSE 0]

(* parse_transaction: None without venue instructions or without both a  *)
(* Create and a Buy (the last of each is kept), Panic from the account    *)
(* reads, None from a short Buy, else the launch record.                  *)
ParseTransaction(tx) ==
    LET ixs == IF tx.version = "legacy" THEN ExtractLegacy(tx) ELSE ExtractV0(tx)
        ci  == SelectLastInSeq(ixs, LAMBDA ix : ix.type = "Create")
        bi  == SelectLastInSeq(ixs, LAMBDA ix : ix.type = "Buy")
    IN  IF ixs = << >> \/ ci = 0 \/ bi = 0 THEN None
        ELSE LET acc == CreateAccounts(ixs[ci])
                 bf  == BuyFields(ixs[bi])
             IN  IF Panic \in {acc.mint, acc.curve, acc.assoc} THEN Panic
                 ELSE IF bf = None THEN None
                 ELSE [mint |-> acc.mint, curve |-> acc.curve, assoc |-> acc.assoc,
                       creator |-> CreatorOf(ixs[ci].data),
                       amount |-> bf.amount, cost |-> bf.cost,
                       types |-> {ixs[j].type : j \in DOMAIN ixs}]

(* The gates of the chunk loop in their order: blacklist (the creator or  *)
(* "all"), whitelist when enabled, Create and Buy present, the cost       *)
(* window, then Pubkey::from_str of mint, curves and creator ("" fails).  *)
Passes(r) ==
    /\ r.creator \notin Blacklist /\ All \notin Blacklist
    /\ WhitelistEnabled => r.creator \in Whitelist
    /\ {"Create", "Buy"} \subseteq r.types
    /\ r.cost \in MinSolCost..MaxSolCost
    /\ NoKey \notin {r.mint, r.curve, r.assoc, r.creator}

-----------------------------------------------------------------------------
(***************************************************************************)
(* Reference: the venue's layout (spec 4.1) and the contract a chunk's    *)
(* launches must meet.  A transaction is described by what it is meant to *)
(* carry; Wire gives its bytes and Intended the launch the spec says it   *)
(* yields.                                                                *)
(***************************************************************************)
RECURSIVE LeN(_, _)
LeN(x, n) == IF n = 0 THEN << >> ELSE <<x % 256>> \o LeN(x \div 256, n - 1)

\* u32 length + bytes.
Str(bytes) == LeN(Len(bytes), 4) \o bytes

\* A Create payload: "ok0"/"ok2" well formed with a 0- or 2-byte name,
\* "cut" missing the creator's last byte, "long" a name prefix of 200
\* followed by 2 bytes.
CreateData(d) ==
    LET body(name) == d.cDisc \o Str(name) \o Str(<<83>>) \o Str(<<117>>) \o KeyBytes[d.creator]
    IN  CASE d.shape = "ok0"  -> body(<< >>)
          [] d.shape = "ok2"  -> body(<<110, 97>>)
          [] d.shape = "cut"  -> Front(body(<<110, 97>>))
          [] d.shape = "long" -> d.cDisc \o LeN(200, 4) \o <<110, 97>>

\* Buy payload: token_amount and max_sol_cost, or only the amount.
BuyData(d) == d.bDisc \o LeN(d.amount, 8) \o (IF d.short THEN << >> ELSE LeN(d.cost, 8))

\* Keys 0..5: the venue, another program, mint, curve, assoc curve, creator.
Wire(d) ==
    LET cIx == [prog |-> IF d.cPump THEN 0 ELSE 1, data |-> CreateData(d),
                accts |-> SubSeq(<<2, 5, 3, 4, 5, 5, 5, 5, 5, 5, 5, 5, 5, 5>>, 1, d.nAccts)]
        bIx == [prog |-> IF d.bPump THEN 0 ELSE 1, data |-> BuyData(d),
                accts |-> <<0, 0, 2, 3, 4, 5, 5>>]
    IN  [version |-> d.version, lookups |-> d.lookups,
         keys |-> <<PumpProgram, Other, Mint, Curve, Assoc, d.creator>>,
         ixs |-> IF d.createFirst THEN <<cIx, bIx>> ELSE <<bIx, cIx>>]

(* Spec 4.1/4.2: a launch record iff a well-formed Create and Buy are     *)
(* both addressed to the venue, the message has no table lookups, the    *)
(* cost is in the window and the creator passes the lists; a malformed   *)
(* instruction drops that one record.                                    *)
Intended(d) ==
    IF /\ ~d.lookups /\ d.cPump /\ d.bPump
       /\ d.shape \in {"ok0", "ok2"} /\ d.nAccts >= 4
       /\ ~d.short /\ d.cost \in MinSolCost..MaxSolCost
       /\ d.creator \notin Blacklist /\ All \notin Blacklist
       /\ WhitelistEnabled => d.creator \in Whitelist
      THEN [mint |-> Mint, curve |-> Curve, assoc |-> Assoc, creator |-> d.creator,
            amount |-> d.amount, cost |-> d.cost]
      ELSE None

-----------------------------------------------------------------------------
\* The task is spawned with its chunk of all_transactions.
Init ==
    /\ chunk \in Chunks
    /\ i = 1
    /\ pc = "scan"
    /\ submitted = << >>

\* One iteration of `for tx in chunk`.
Scan ==
    /\ pc = "scan" /\ i <= Len(chunk)
    /\ LET r == ParseTransaction(Wire(chunk[i]))
       IN  /\ r # Panic
           /\ submitted' = IF r # None /\ Passes(r) THEN Append(submitted, r) ELSE submitted
    /\ i' = i + 1
    /\ UNCHANGED <<chunk, pc>>

\* An index out of bounds panics the task; the rest of the chunk is not
\* looked at, and process_entries logs the JoinError.
ChunkPanics ==
    /\ pc = "scan" /\ i <= Len(chunk)
    /\ ParseTransaction(Wire(chunk[i])) = Panic
    /\ pc' = "panicked"
    /\ UNCHANGED <<chunk, i, submitted>>

\* The loop ends; the batch results are merged.
Finish ==
    /\ pc = "scan" /\ i > Len(chunk)
    /\ pc' = "done"
    /\ UNCHANGED <<chunk, i, submitted>>

Next == Scan \/ ChunkPanics \/ Finish

Spec == Init /\ [][Next]_vars

-----------------------------------------------------------------------------
\* The fields of a launch record the buy path uses.
Launch(r) == [f \in {"mint", "curve", "assoc", "creator", "amount", "cost"} |-> r[f]]

(* Spec 4.1 contract and parser round-trip: the launches the chunk loop   *)
(* has handed to pump_buy so far are exactly, in order, those the spec    *)
(* says the transactions looked at so far carry, with the mint, curves,   *)
(* creator, amount and cost that were encoded; and when parse_transaction *)
(* panics, it is on a transaction the spec drops, never on a launch.      *)
(* The launches the panic keeps the loop from looking at are the subject  *)
(* of ChunkComplete.                                                      *)
LaunchContract ==
    /\ LET looked == [j \in 1..(i - 1) |-> Intended(chunk[j])]
       IN  [j \in DOMAIN submitted |-> Launch(submitted[j])]
               = SelectSeq(looked, LAMBDA x : x # None)
    /\ pc = "panicked" => Intended(chunk[i]) = None

(* Spec 4.1/4.2, "a malformed instruction drops that one record": once    *)
(* the chunk task has ended, every launch of its chunk was handed to      *)
(* pump_buy.                                                              *)
ChunkComplete ==
    pc \in {"done", "panicked"}
        => [j \in DOMAIN submitted |-> Launch(submitted[j])]
               = SelectSeq([j \in 1..Len(chunk) |-> Intended(chunk[j])],
                           LAMBDA x : x # None)
=============================================================================
