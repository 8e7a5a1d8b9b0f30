----------------------------- MODULE ChainHead -----------------------------
(***************************************************************************)
(* The head-update protocol of the beacon chain (beacon_chain.rs):         *)
(*   - block import, which mutates fork choice under its write lock and    *)
(*     keeps the lock across the database write (import_block);            *)
(*   - head selection, which reads the fork-choice head and swaps the      *)
(*     canonical head in several unlocked phases (fork_choice_internal);   *)
(*   - the forkchoiceUpdated handshake with the execution engine, ordered  *)
(*     by its own lock, and the invalidation pass it may start             *)
(*     (update_execution_engine_forkchoice_async,                          *)
(*     process_invalid_execution_payload);                                 *)
(*   - proposer preparation as a second caller of forkchoiceUpdated.       *)
(* The fork-choice store (proto_array) lives outside this repository; it   *)
(* is modelled from the interface spec.md gives it: get_head, on_block,    *)
(* on_invalid_execution_payload, on_valid_execution_payload.              *)
(* Attestation weights are abstracted: get_head may return any viable     *)
(* leaf of the block tree.                                                 *)
(***************************************************************************)
EXTENDS Naturals, Sequences, FiniteSets, TLC

CONSTANTS
    Blocks,          \* block roots
    Genesis,         \* the genesis (and anchor) block
    Parent,          \* Parent[b] for b # Genesis
    Slot,            \* Slot[b]
    JustCp,          \* current justified checkpoint of b's post-state
    FinCp,           \* finalized checkpoint of b's post-state
    PayloadInvalid,  \* blocks whose payload the execution engine rejects
    SlotsPerEpoch,
    Importers,       \* threads importing blocks
    Runners,         \* threads running fork_choice (per-slot task, after import)
    Preparers,       \* threads running prepare_beacon_proposer on a timer
    Attesters,       \* threads serving produce_unaggregated_attestation
    NoThread, NoBlock, NoParams,
    MaxImports,      \* bound on import attempts
    MaxRuns,         \* bound on fork_choice / prepare_beacon_proposer starts
    MaxDbFails,      \* bound on failed database writes
    MaxAtts,         \* bound on attestations produced
    MaxRestarts,     \* bound on process restarts
    ImportCanAbort,  \* TRUE: import may end early with an error (before or after on_block)
    HeadLockCanTimeout \* TRUE: the canonical-head write lock may time out

Threads == Importers \cup Runners \cup Preparers \cup Attesters

Checkpoint == [epoch : Nat, root : Blocks]

ASSUME /\ Genesis \in Blocks
       /\ \A b \in Blocks \ {Genesis} : Parent[b] \in Blocks /\ Slot[Parent[b]] < Slot[b]
       /\ Slot[Genesis] = 0 /\ \A b \in Blocks : Slot[b] \in Nat
       /\ \A b \in Blocks : JustCp[b] \in Checkpoint /\ FinCp[b] \in Checkpoint
       /\ PayloadInvalid \subseteq Blocks \ {Genesis}
       /\ SlotsPerEpoch \in Nat \ {0}
       /\ NoThread \notin Threads /\ NoBlock \notin Blocks
       /\ ImportCanAbort \in BOOLEAN /\ HeadLockCanTimeout \in BOOLEAN

(***************************************************************************)
(* The block tree.                                                         *)
(***************************************************************************)
RECURSIVE Chain(_)
\* b and all its ancestors
Chain(b) == IF b = Genesis THEN {b} ELSE {b} \cup Chain(Parent[b])

EpochOf(s) == s \div SlotsPerEpoch

GenesisCp == [epoch |-> 0, root |-> Genesis]

\* The root a state of block b holds for slot s < Slot[b]: the latest
\* ancestor at or before s (skipped slots repeat the previous root).
BlockRootAtSlot(b, s) ==
    CHOOSE a \in Chain(b) : Slot[a] <= s /\ \A c \in Chain(b) : Slot[c] <= s => Slot[c] <= Slot[a]

\* is_reorg: the new head's state does not hold the old head at the old
\* head's slot; get_block_root fails (map_or(true)) unless that slot is
\* before the new state's slot.
IsReorg(new, old) ==
    Slot[old] >= Slot[new] \/ BlockRootAtSlot(new, Slot[old]) # old

(***************************************************************************)
(* The execution engine: the truth about payloads and its answers to a    *)
(* forkchoiceUpdated for a head.                                           *)
(***************************************************************************)
InvalidChain == {b \in Blocks : Chain(b) \cap PayloadInvalid # {}}

\* latest_valid_hash: the newest ancestor of h whose payload is valid
LatestValidAncestor(h) ==
    CHOOSE a \in Chain(h) \ InvalidChain :
        \A c \in Chain(h) \ InvalidChain : Slot[c] <= Slot[a]

\* Syncing stands for SYNCING, ACCEPTED and a failed call: none changes state.
FcuResponses(h) ==
    IF h \in InvalidChain THEN {"Syncing", "Invalid", "InvalidBlockHash"}
                          ELSE {"Valid", "Syncing"}

\* payload_verification_status a block can be imported with: a block on an
\* invalid chain is only ever imported optimistically.
ImportStatuses(b) ==
    IF b \in InvalidChain THEN {"Optimistic"} ELSE {"Valid", "Optimistic"}

(***************************************************************************)
(* The fork-choice store (external; from spec.md's interface).  A store is *)
(* a record: status maps each known block to its execution status, just    *)
(* and fin are its checkpoints, params the forkchoice-update parameters    *)
(* cached by the last get_head.                                            *)
(***************************************************************************)
FcBlocks(f) == DOMAIN f.status

Descendants(f, S) == {b \in FcBlocks(f) : Chain(b) \cap S # {}}

\* node_is_viable_for_head over the subtree of the justified root
ViableForHead(f) ==
    {b \in FcBlocks(f) :
        /\ f.just.root \in Chain(b)
        /\ f.status[b] # "Invalid"
        /\ JustCp[b].epoch = f.just.epoch \/ f.just.epoch = 0
        /\ FinCp[b].epoch = f.fin.epoch \/ f.fin.epoch = 0}

\* get_head: the heads weights may pick; empty when get_head errors
\* (justified block unknown or invalid, or no viable descendant).
GetHead(f) ==
    IF f.just.root \notin FcBlocks(f) \/ f.status[f.just.root] = "Invalid"
    THEN {}
    ELSE {b \in ViableForHead(f) :
            \A c \in ViableForHead(f) \ {b} : b \notin Chain(c)}

\* on_block: add the block, advance the store's checkpoints
OnBlock(f, b, st) ==
    [f EXCEPT !.status = f.status @@ (b :> st),
              !.just = IF JustCp[b].epoch > f.just.epoch THEN JustCp[b] ELSE f.just,
              !.fin = IF FinCp[b].epoch > f.fin.epoch THEN FinCp[b] ELSE f.fin]

MarkInvalid(f, S) ==
    [f EXCEPT !.status = [b \in FcBlocks(f) |->
                            IF b \in Descendants(f, S) THEN "Invalid" ELSE f.status[b]]]

\* on_invalid_execution_payload(InvalidateMany): head back to, but not
\* including, the latest valid ancestor, and every descendant.
OnInvalidMany(f, h, lva) == MarkInvalid(f, Chain(h) \ Chain(lva))

\* on_invalid_execution_payload(InvalidateOne): the head and its descendants
OnInvalidOne(f, h) == MarkInvalid(f, {h})

\* on_valid_execution_payload: the block and its optimistic ancestors
OnValid(f, r) ==
    [f EXCEPT !.status = [b \in FcBlocks(f) |->
                            IF b \in Chain(r) /\ f.status[b] = "Optimistic"
                            THEN "Valid" ELSE f.status[b]]]

InitFc == [status |-> (Genesis :> "Valid"), just |-> GenesisCp,
           fin |-> GenesisCp, params |-> NoParams]

\* The persisted form of a store (to_persisted): the cached
\* forkchoice-update parameters are not part of it.
Persisted(f) == [f EXCEPT !.params = NoParams]

\* load_fork_choice: the store read back from disk.
Reloaded(p) == p

\* get_head caches the forkchoice-update parameters of its head: the head
\* and the finalized block.  seq is a ghost numbering each distinct
\* parameter set in the order get_head produced it.
HeadParams(f, h, n) ==
    IF f.params # NoParams /\ f.params.root = h /\ f.params.fin = f.fin.root
    THEN f.params
    ELSE [root |-> h, fin |-> f.fin.root, seq |-> n + 1]

(***************************************************************************)
(* State.                                                                  *)
(***************************************************************************)
VARIABLES
    fc,          \* the in-memory fork-choice store (self.fork_choice)
    persisted,   \* the fork-choice store last written to disk
    db,          \* blocks (with their states) in the hot database
    head,        \* self.canonical_head (its block; the state follows)
    eac,         \* the block held by the early attester cache, or NoBlock
    elHead,      \* the last forkchoice-update parameters the engine received
    seq,         \* number of get_head calls (orders the parameters)
    shutdown,    \* shutdown reasons sent
    fcLock,      \* holder of the fork-choice write lock across an import
    elLock,      \* holder of execution_engine_forkchoice_lock
    pc, stack,   \* per-thread program counter and return points
    imp,         \* block an importer is importing
    cand, cur,   \* head picked by get_head; head_info read by fork_choice
    persistNeeded, \* is_epoch_transition || is_reorg
    fcu,         \* forkchoice-update parameters a thread read
    resp,        \* the engine's answer to a thread's forkchoiceUpdated
    attRoot,     \* beacon_block_root an attester read from the head
    lastAtt,     \* the block the last attestation produced votes for
    atts,        \* number of attestations produced
    imports, runs, dbFails,
    restarts,    \* number of process restarts
    swapSeq      \* history: seq of fork choice's parameters when the head last moved

vars == <<fc, persisted, db, head, eac, elHead, seq, shutdown, fcLock, elLock,
          pc, stack, imp, cand, cur, persistNeeded, fcu, resp, attRoot, lastAtt, atts,
          imports, runs, dbFails, restarts, swapSeq>>

Labels == {"idle", "dbWrite", "getHead", "setHead", "persist", "fcuLock", "fcuRead",
           "fcuSend", "fcuResp", "prep", "justCheck", "attCheck"}

Params == [root : Blocks, fin : Blocks, seq : Nat]

TypeOK ==
    /\ FcBlocks(fc) \subseteq Blocks /\ FcBlocks(persisted) \subseteq Blocks
    /\ fc.status \in [FcBlocks(fc) -> {"Optimistic", "Valid", "Invalid"}]
    /\ fc.just \in Checkpoint /\ fc.fin \in Checkpoint
    /\ fc.params \in Params \cup {NoParams}
    /\ db \subseteq Blocks /\ head \in Blocks /\ eac \in Blocks \cup {NoBlock}
    /\ elHead \in Params \cup {NoParams} /\ seq \in Nat
    /\ shutdown \subseteq {"FinalizedInvalid", "JustifiedInvalid"}
    /\ fcLock \in Importers \cup {NoThread} /\ elLock \in Threads \cup {NoThread}
    /\ pc \in [Threads -> Labels] /\ stack \in [Threads -> Seq(Labels)]
    /\ imp \in [Threads -> Blocks \cup {NoBlock}]
    /\ cand \in [Threads -> Blocks \cup {NoBlock}] /\ cur \in [Threads -> Blocks \cup {NoBlock}]
    /\ persistNeeded \in [Threads -> BOOLEAN]
    /\ fcu \in [Threads -> Params \cup {NoParams}]
    /\ resp \in [Threads -> {"None", "Valid", "Syncing", "Invalid", "InvalidBlockHash"}]
    /\ attRoot \in [Threads -> Blocks \cup {NoBlock}]
    /\ lastAtt \in Blocks \cup {NoBlock} /\ atts \in 0..MaxAtts
    /\ restarts \in 0..MaxRestarts /\ swapSeq \in Nat

Init ==
    /\ fc = InitFc /\ persisted = InitFc
    /\ db = {Genesis} /\ head = Genesis /\ eac = NoBlock
    /\ elHead = NoParams /\ seq = 0 /\ shutdown = {}
    /\ fcLock = NoThread /\ elLock = NoThread
    /\ pc = [t \in Threads |-> "idle"] /\ stack = [t \in Threads |-> <<>>]
    /\ imp = [t \in Threads |-> NoBlock]
    /\ cand = [t \in Threads |-> NoBlock] /\ cur = [t \in Threads |-> NoBlock]
    /\ persistNeeded = [t \in Threads |-> FALSE]
    /\ fcu = [t \in Threads |-> NoParams] /\ resp = [t \in Threads |-> "None"]
    /\ attRoot = [t \in Threads |-> NoBlock] /\ lastAtt = NoBlock /\ atts = 0
    /\ imports = 0 /\ runs = 0 /\ dbFails = 0 /\ restarts = 0 /\ swapSeq = 0

\* Return from the current routine to the caller's return point.
Return(t) ==
    IF stack[t] = <<>>
    THEN pc' = [pc EXCEPT ![t] = "idle"] /\ UNCHANGED stack
    ELSE pc' = [pc EXCEPT ![t] = Head(stack[t])] /\ stack' = [stack EXCEPT ![t] = Tail(@)]

\* Call a routine starting at label entry, resuming at ret afterwards.
Call(t, entry, ret) ==
    pc' = [pc EXCEPT ![t] = entry] /\ stack' = [stack EXCEPT ![t] = <<ret>> \o @]

(***************************************************************************)
(* import_block.                                                           *)
(***************************************************************************)
\* Blocks that pass block verification: unknown to fork choice (else
\* BlockIsAlreadyKnown), with a known parent whose payload is not invalid.
Importable ==
    {b \in Blocks \ {Genesis} :
        b \notin FcBlocks(fc) /\ Parent[b] \in FcBlocks(fc) /\ fc.status[Parent[b]] # "Invalid"}

\* Take the fork-choice write lock; the block's parent is known and not
\* invalid (block verification); it descends from the finalized block;
\* on_block; then, for a block imported with a valid payload, get_head
\* decides whether it enters the early attester cache.  A get_head error
\* there returns early, releasing the lock without the database write.
ImportBlock(t, b, st) ==
    /\ pc[t] = "idle" /\ imports < MaxImports /\ fcLock = NoThread
    /\ b \in Importable
    /\ fc.fin.root \in Chain(b)
    /\ LET f == OnBlock(fc, b, st) IN
       IF st = "Valid"
       THEN IF GetHead(f) = {}
            THEN /\ fc' = f /\ UNCHANGED <<pc, fcLock, imp, eac, seq>>
            ELSE \E h \in GetHead(f) :
                    /\ fc' = [f EXCEPT !.params = HeadParams(f, h, seq)]
                    /\ seq' = fc'.params.seq
                    /\ eac' = IF h = b THEN b ELSE eac
                    /\ fcLock' = t /\ imp' = [imp EXCEPT ![t] = b]
                    /\ pc' = [pc EXCEPT ![t] = "dbWrite"]
       ELSE /\ fc' = f /\ fcLock' = t /\ imp' = [imp EXCEPT ![t] = b]
            /\ pc' = [pc EXCEPT ![t] = "dbWrite"] /\ UNCHANGED <<eac, seq>>
    /\ imports' = imports + 1
    /\ UNCHANGED <<persisted, db, head, elHead, shutdown, elLock, stack, cand, cur,
                   persistNeeded, fcu, resp, runs, dbFails>>

\* check_block_is_finalized_descendant fails: the block is rejected.
ImportReject(t, b) ==
    /\ pc[t] = "idle" /\ imports < MaxImports /\ fcLock = NoThread
    /\ b \in Importable
    /\ fc.fin.root \notin Chain(b)
    /\ imports' = imports + 1
    /\ UNCHANGED <<fc, persisted, db, head, eac, elHead, seq, shutdown, fcLock, elLock,
                   pc, stack, imp, cand, cur, persistNeeded, fcu, resp, runs, dbFails>>

\* An error returned with ? before the fork-choice lock is taken (observing
\* the block's attestations, the slasher, the pubkey-cache and
\* shuffling-cache lock timeouts, the attester cache): the block reaches
\* neither fork choice nor the database.
ImportEarlyError(t, b) ==
    /\ ImportCanAbort /\ pc[t] = "idle" /\ imports < MaxImports
    /\ b \in Importable
    /\ imports' = imports + 1
    /\ UNCHANGED <<fc, persisted, db, head, eac, elHead, seq, shutdown, fcLock, elLock,
                   pc, stack, imp, cand, cur, persistNeeded, fcu, resp, runs, dbFails>>

\* An error returned with ? between on_block and the database write
\* (committee lookup, on_attestation, sync committee, epoch): the lock is
\* dropped and fork choice keeps the block.
ImportAbort(t) ==
    /\ ImportCanAbort /\ pc[t] = "dbWrite"
    /\ fcLock' = NoThread /\ pc' = [pc EXCEPT ![t] = "idle"]
    /\ imp' = [imp EXCEPT ![t] = NoBlock]
    /\ UNCHANGED <<fc, persisted, db, head, eac, elHead, seq, shutdown, elLock,
                   stack, cand, cur, persistNeeded, fcu, resp, imports, runs, dbFails>>

\* The atomic write of block and state succeeds; only then is the lock dropped.
ImportDbWrite(t) ==
    /\ pc[t] = "dbWrite"
    /\ db' = db \cup {imp[t]}
    /\ fcLock' = NoThread /\ pc' = [pc EXCEPT ![t] = "idle"]
    /\ imp' = [imp EXCEPT ![t] = NoBlock]
    /\ UNCHANGED <<fc, persisted, head, eac, elHead, seq, shutdown, elLock,
                   stack, cand, cur, persistNeeded, fcu, resp, imports, runs, dbFails>>

\* Mutant: the failed write returns without restoring fork choice.
ImportDbFailNoReload(t) ==
    /\ pc[t] = "dbWrite" /\ dbFails < MaxDbFails
    /\ dbFails' = dbFails + 1
    /\ fcLock' = NoThread /\ pc' = [pc EXCEPT ![t] = "idle"]
    /\ imp' = [imp EXCEPT ![t] = NoBlock]
    /\ UNCHANGED <<fc, persisted, db, head, eac, elHead, seq, shutdown, elLock,
                   stack, cand, cur, persistNeeded, fcu, resp, imports, runs>>

\* The write fails: fork choice is restored from disk, then the lock is dropped.
ImportDbFail(t) ==
    /\ pc[t] = "dbWrite" /\ dbFails < MaxDbFails
    /\ dbFails' = dbFails + 1
    /\ fc' = Reloaded(persisted)
    /\ fcLock' = NoThread /\ pc' = [pc EXCEPT ![t] = "idle"]
    /\ imp' = [imp EXCEPT ![t] = NoBlock]
    /\ UNCHANGED <<persisted, db, head, eac, elHead, seq, shutdown, elLock,
                   stack, cand, cur, persistNeeded, fcu, resp, imports, runs>>

(***************************************************************************)
(* fork_choice_internal.                                                   *)
(***************************************************************************)
\* Start fork_choice from the per-slot task or after an import.
RunForkChoice(t) ==
    /\ pc[t] = "idle" /\ runs < MaxRuns
    /\ runs' = runs + 1 /\ pc' = [pc EXCEPT ![t] = "getHead"]
    /\ UNCHANGED <<fc, persisted, db, head, eac, elHead, seq, shutdown, fcLock, elLock,
                   stack, imp, cand, cur, persistNeeded, fcu, resp, imports, dbFails>>

\* Under the write lock: get_head (caching the forkchoice-update
\* parameters) and the finalized block; then head_info.  Return early if
\* get_head fails or the head is unchanged; request a shutdown if the
\* finalized block is invalid.
FcGetHead(t) ==
    /\ pc[t] = "getHead" /\ fcLock = NoThread
    /\ IF GetHead(fc) = {}
       THEN Return(t) /\ UNCHANGED <<fc, seq, cand, cur, shutdown>>
       ELSE \E h \in GetHead(fc) :
              /\ fc' = [fc EXCEPT !.params = HeadParams(fc, h, seq)]
              /\ seq' = fc'.params.seq
              /\ IF h = head
                 THEN Return(t) /\ UNCHANGED <<shutdown, cand, cur>>
                 ELSE IF fc.status[fc.fin.root] = "Invalid"
                 THEN /\ shutdown' = shutdown \cup {"FinalizedInvalid"}
                      /\ Return(t) /\ UNCHANGED <<cand, cur>>
                 ELSE /\ cand' = [cand EXCEPT ![t] = h] /\ cur' = [cur EXCEPT ![t] = head]
                      /\ pc' = [pc EXCEPT ![t] = "setHead"]
                      /\ UNCHANGED <<stack, shutdown>>
    /\ UNCHANGED <<persisted, db, head, eac, elHead, fcLock, elLock, imp,
                   persistNeeded, fcu, resp, imports, runs, dbFails>>

\* Mutant: the head is swapped without the RevertedFinalizedEpoch check.
FcSetHeadNoRevertCheck(t) ==
    /\ pc[t] = "setHead"
    /\ IF cand[t] \notin db
       THEN Return(t) /\ UNCHANGED <<head, eac, persistNeeded>>
       ELSE /\ eac' = NoBlock /\ head' = cand[t]
            /\ persistNeeded' = [persistNeeded EXCEPT ![t] =
                   IsReorg(cand[t], cur[t]) \/ EpochOf(Slot[cur[t]]) < EpochOf(Slot[cand[t]])]
            /\ pc' = [pc EXCEPT ![t] = "persist"] /\ UNCHANGED stack
    /\ cand' = [cand EXCEPT ![t] = NoBlock] /\ cur' = [cur EXCEPT ![t] = NoBlock]
    /\ UNCHANGED <<fc, persisted, db, elHead, seq, shutdown, fcLock, elLock, imp,
                   fcu, resp, imports, runs, dbFails>>

\* Load the new head's block and state from the database (an error if
\* missing), detect a re-org against the head read by head_info, refuse a
\* head with a lower finalized epoch, then clear the early attester cache
\* and swap the canonical head.
FcSetHead(t) ==
    /\ pc[t] = "setHead"
    /\ IF cand[t] \notin db \/ FinCp[cand[t]].epoch < FinCp[cur[t]].epoch
       THEN Return(t) /\ UNCHANGED <<head, eac, persistNeeded>>
       ELSE /\ eac' = NoBlock /\ head' = cand[t]
            /\ persistNeeded' = [persistNeeded EXCEPT ![t] =
                   IsReorg(cand[t], cur[t]) \/ EpochOf(Slot[cur[t]]) < EpochOf(Slot[cand[t]])]
            /\ pc' = [pc EXCEPT ![t] = "persist"] /\ UNCHANGED stack
    /\ cand' = [cand EXCEPT ![t] = NoBlock] /\ cur' = [cur EXCEPT ![t] = NoBlock]
    /\ UNCHANGED <<fc, persisted, db, elHead, seq, shutdown, fcLock, elLock, imp,
                   fcu, resp, imports, runs, dbFails>>

\* The canonical head's write lock is not taken within HEAD_LOCK_TIMEOUT
\* (CanonicalHeadLockTimeout): the early attester cache is already
\* cleared, the head stays, and fork_choice returns the error.
FcSetHeadTimeout(t) ==
    /\ HeadLockCanTimeout /\ pc[t] = "setHead"
    /\ cand[t] \in db /\ FinCp[cand[t]].epoch >= FinCp[cur[t]].epoch
    /\ eac' = NoBlock /\ Return(t)
    /\ cand' = [cand EXCEPT ![t] = NoBlock] /\ cur' = [cur EXCEPT ![t] = NoBlock]
    /\ UNCHANGED <<fc, persisted, db, head, elHead, seq, shutdown, fcLock, elLock, imp,
                   persistNeeded, fcu, resp, imports, runs, dbFails>>

\* Mutant: the engine update and proposer preparation run only inside
\* the is_epoch_transition || is_reorg branch.
FcPersistUpdateOnPersist(t) ==
    /\ pc[t] = "persist" /\ fcLock = NoThread
    /\ persisted' = IF persistNeeded[t] THEN Persisted(fc) ELSE persisted
    /\ persistNeeded' = [persistNeeded EXCEPT ![t] = FALSE]
    /\ IF persistNeeded[t] THEN Call(t, "fcuLock", "prep") ELSE Return(t)
    /\ UNCHANGED <<fc, db, head, eac, elHead, seq, shutdown, fcLock, elLock, imp,
                   cand, cur, fcu, resp, imports, runs, dbFails>>

\* Mutant: fork choice is persisted without waiting for its lock.
FcPersistUnlocked(t) ==
    /\ pc[t] = "persist"
    /\ persisted' = IF persistNeeded[t] THEN Persisted(fc) ELSE persisted
    /\ persistNeeded' = [persistNeeded EXCEPT ![t] = FALSE]
    /\ Call(t, "fcuLock", "prep")
    /\ UNCHANGED <<fc, db, head, eac, elHead, seq, shutdown, fcLock, elLock, imp,
                   cand, cur, fcu, resp, imports, runs, dbFails>>

\* persist_head_and_fork_choice on an epoch transition or re-org (a read
\* of fork choice); after_finalization's prune is a no-op below proto
\* array's prune threshold.  Then update the execution engine, and
\* prepare proposers after it.
FcPersist(t) ==
    /\ pc[t] = "persist" /\ fcLock = NoThread
    /\ persisted' = IF persistNeeded[t] THEN Persisted(fc) ELSE persisted
    /\ persistNeeded' = [persistNeeded EXCEPT ![t] = FALSE]
    /\ Call(t, "fcuLock", "prep")
    /\ UNCHANGED <<fc, db, head, eac, elHead, seq, shutdown, fcLock, elLock, imp,
                   cand, cur, fcu, resp, imports, runs, dbFails>>

\* The atomic write of persist_head_and_fork_choice fails: fork_choice
\* returns the error (?) before the engine update and proposer preparation.
FcPersistFail(t) ==
    /\ pc[t] = "persist" /\ fcLock = NoThread /\ persistNeeded[t]
    /\ dbFails < MaxDbFails /\ dbFails' = dbFails + 1
    /\ persistNeeded' = [persistNeeded EXCEPT ![t] = FALSE]
    /\ Return(t)
    /\ UNCHANGED <<fc, persisted, db, head, eac, elHead, seq, shutdown, fcLock, elLock, imp,
                   cand, cur, fcu, resp, imports, runs>>

(***************************************************************************)
(* prepare_beacon_proposer: whether it sends a forkchoiceUpdated depends   *)
(* on registered proposers, head age, duties and timing, all abstracted.   *)
(***************************************************************************)
StartPrepare(t) ==
    /\ pc[t] = "idle" /\ runs < MaxRuns
    /\ runs' = runs + 1 /\ pc' = [pc EXCEPT ![t] = "prep"]
    /\ UNCHANGED <<fc, persisted, db, head, eac, elHead, seq, shutdown, fcLock, elLock,
                   stack, imp, cand, cur, persistNeeded, fcu, resp, imports, dbFails>>

\* One of the early returns: no proposers, head too old, head changed,
\* too late, or not yet in the preparation window.
PrepSkip(t) ==
    /\ pc[t] = "prep" /\ Return(t)
    /\ UNCHANGED <<fc, persisted, db, head, eac, elHead, seq, shutdown, fcLock, elLock,
                   imp, cand, cur, persistNeeded, fcu, resp, imports, runs, dbFails>>

\* update_execution_engine_forkchoice_async as the routine's tail call
PrepFcu(t) ==
    /\ pc[t] = "prep" /\ pc' = [pc EXCEPT ![t] = "fcuLock"]
    /\ UNCHANGED <<fc, persisted, db, head, eac, elHead, seq, shutdown, fcLock, elLock,
                   stack, imp, cand, cur, persistNeeded, fcu, resp, imports, runs, dbFails>>

(***************************************************************************)
(* update_execution_engine_forkchoice_async.                               *)
(***************************************************************************)
\* Mutant: the parameters are read and sent without the ordering lock.
FcuLockSkipped(t) ==
    /\ pc[t] = "fcuLock"
    /\ pc' = [pc EXCEPT ![t] = "fcuRead"]
    /\ UNCHANGED <<fc, persisted, db, head, eac, elHead, seq, shutdown, fcLock, elLock, stack,
                   imp, cand, cur, persistNeeded, fcu, resp, imports, runs, dbFails>>

\* Await execution_engine_forkchoice_lock.
FcuLock(t) ==
    /\ pc[t] = "fcuLock" /\ elLock = NoThread
    /\ elLock' = t /\ pc' = [pc EXCEPT ![t] = "fcuRead"]
    /\ UNCHANGED <<fc, persisted, db, head, eac, elHead, seq, shutdown, fcLock, stack,
                   imp, cand, cur, persistNeeded, fcu, resp, imports, runs, dbFails>>

\* Holding the ordering lock, read the forkchoice-update parameters under
\* a read lock of fork choice (waiting for an import's write lock); with
\* none cached ("Missing forkchoice params") return, dropping the ordering
\* lock.
FcuRead(t) ==
    /\ pc[t] = "fcuRead" /\ fcLock = NoThread
    /\ fcu' = [fcu EXCEPT ![t] = fc.params]
    /\ IF fc.params = NoParams
       THEN Return(t) /\ elLock' = IF elLock = t THEN NoThread ELSE elLock
       ELSE pc' = [pc EXCEPT ![t] = "fcuSend"] /\ UNCHANGED <<stack, elLock>>
    /\ UNCHANGED <<fc, persisted, db, head, eac, elHead, seq, shutdown, fcLock,
                   imp, cand, cur, persistNeeded, resp, imports, runs, dbFails>>

\* Mutant: the ordering lock is not dropped before the response is handled.
FcuSendKeepsLock(t) ==
    /\ pc[t] = "fcuSend"
    /\ elHead' = fcu[t]
    /\ \E r \in FcuResponses(fcu[t].root) : resp' = [resp EXCEPT ![t] = r]
    /\ pc' = [pc EXCEPT ![t] = "fcuResp"]
    /\ UNCHANGED <<fc, persisted, db, head, eac, seq, shutdown, fcLock, elLock,
                   stack, imp, cand, cur, persistNeeded, fcu, imports, runs, dbFails>>

\* notify_forkchoice_updated, then drop the ordering lock; the response is
\* handled after the lock is gone.
FcuSend(t) ==
    /\ pc[t] = "fcuSend"
    /\ elHead' = fcu[t]
    /\ elLock' = IF elLock = t THEN NoThread ELSE elLock
    /\ \E r \in FcuResponses(fcu[t].root) : resp' = [resp EXCEPT ![t] = r]
    /\ pc' = [pc EXCEPT ![t] = "fcuResp"]
    /\ UNCHANGED <<fc, persisted, db, head, eac, seq, shutdown, fcLock,
                   stack, imp, cand, cur, persistNeeded, fcu, imports, runs, dbFails>>

\* VALID: on_valid_execution_payload under the write lock.
FcuValid(t) ==
    /\ pc[t] = "fcuResp" /\ resp[t] = "Valid" /\ fcLock = NoThread
    /\ fc' = OnValid(fc, fcu[t].root)
    /\ Return(t)
    /\ fcu' = [fcu EXCEPT ![t] = NoParams] /\ resp' = [resp EXCEPT ![t] = "None"]
    /\ UNCHANGED <<persisted, db, head, eac, elHead, seq, shutdown, fcLock, elLock,
                   imp, cand, cur, persistNeeded, imports, runs, dbFails>>

\* SYNCING, ACCEPTED or an error: nothing changes.
FcuSyncing(t) ==
    /\ pc[t] = "fcuResp" /\ resp[t] = "Syncing"
    /\ Return(t)
    /\ fcu' = [fcu EXCEPT ![t] = NoParams] /\ resp' = [resp EXCEPT ![t] = "None"]
    /\ UNCHANGED <<fc, persisted, db, head, eac, elHead, seq, shutdown, fcLock, elLock,
                   imp, cand, cur, persistNeeded, imports, runs, dbFails>>

\* INVALID / INVALID_BLOCK_HASH: process_invalid_execution_payload (awaited
\* on a blocking task): on_invalid_execution_payload under the write lock,
\* then fork_choice, then the justified-block check.
FcuInvalid(t) ==
    /\ pc[t] = "fcuResp" /\ resp[t] \in {"Invalid", "InvalidBlockHash"}
    /\ fcLock = NoThread
    /\ fc' = IF resp[t] = "Invalid"
             THEN OnInvalidMany(fc, fcu[t].root, LatestValidAncestor(fcu[t].root))
             ELSE OnInvalidOne(fc, fcu[t].root)
    /\ Call(t, "getHead", "justCheck")
    /\ fcu' = [fcu EXCEPT ![t] = NoParams] /\ resp' = [resp EXCEPT ![t] = "None"]
    /\ UNCHANGED <<persisted, db, head, eac, elHead, seq, shutdown, fcLock, elLock,
                   imp, cand, cur, persistNeeded, imports, runs, dbFails>>

\* Mutant: the justified block is never checked.
JustCheckSkipped(t) ==
    /\ pc[t] = "justCheck" /\ fcLock = NoThread
    /\ Return(t)
    /\ UNCHANGED <<fc, persisted, db, head, eac, elHead, seq, shutdown, fcLock, elLock,
                   imp, cand, cur, persistNeeded, fcu, resp, imports, runs, dbFails>>

\* get_justified_block under a read lock; an invalid one requests shutdown.
JustCheck(t) ==
    /\ pc[t] = "justCheck" /\ fcLock = NoThread
    /\ shutdown' = IF fc.status[fc.just.root] = "Invalid"
                   THEN shutdown \cup {"JustifiedInvalid"} ELSE shutdown
    /\ Return(t)
    /\ UNCHANGED <<fc, persisted, db, head, eac, elHead, seq, fcLock, elLock,
                   imp, cand, cur, persistNeeded, fcu, resp, imports, runs, dbFails>>

(***************************************************************************)
(* produce_unaggregated_attestation.                                       *)
(***************************************************************************)
\* The early attester cache matches the request (try_attest: the request
\* is for the cached block's epoch, at or after its slot): the attestation
\* votes for the cached block and the routine returns at once.
AttestFromEac(t) ==
    /\ pc[t] = "idle" /\ atts < MaxAtts /\ eac # NoBlock
    /\ lastAtt' = eac /\ atts' = atts + 1
    /\ UNCHANGED <<fc, persisted, db, head, eac, elHead, seq, shutdown, fcLock, elLock,
                   pc, stack, imp, cand, cur, persistNeeded, fcu, resp, attRoot,
                   imports, runs, dbFails>>

\* The cache misses; under the head read lock, a request slot at or after
\* the head's slot votes for the head, an earlier one for the head state's
\* root at that slot; a slot before the head's finalized slot is refused
\* (AttestingToFinalizedSlot), so it is not among the choices.
AttestReadHead(t) ==
    /\ pc[t] = "idle" /\ atts < MaxAtts
    /\ \E s \in FinCp[head].epoch * SlotsPerEpoch..Slot[head] :
          attRoot' = [attRoot EXCEPT ![t] = BlockRootAtSlot(head, s)]
    /\ pc' = [pc EXCEPT ![t] = "attCheck"]
    /\ UNCHANGED <<fc, persisted, db, head, eac, elHead, seq, shutdown, fcLock, elLock,
                   stack, imp, cand, cur, persistNeeded, fcu, resp, lastAtt, atts,
                   imports, runs, dbFails>>

\* Mutant: the execution-status check is left out.
AttestCheckNoStatus(t) ==
    /\ pc[t] = "attCheck" /\ fcLock = NoThread
    /\ lastAtt' = attRoot[t] /\ atts' = atts + 1
    /\ pc' = [pc EXCEPT ![t] = "idle"] /\ attRoot' = [attRoot EXCEPT ![t] = NoBlock]
    /\ UNCHANGED <<fc, persisted, db, head, eac, elHead, seq, shutdown, fcLock, elLock,
                   stack, imp, cand, cur, persistNeeded, fcu, resp, imports, runs, dbFails>>

\* Under a fork-choice read lock: attest only to a block whose payload is
\* valid; an optimistic or invalid block (HeadBlockNotFullyVerified) or one
\* fork choice lacks (HeadMissingFromForkChoice) is an error.  Phase 2 then
\* takes the justified checkpoint and committee from the head state, the
\* attester cache, or a state loaded from disk, and that load may fail.
AttestCheck(t) ==
    /\ pc[t] = "attCheck" /\ fcLock = NoThread
    /\ \E loaded \in BOOLEAN :
          IF attRoot[t] \in FcBlocks(fc) /\ fc.status[attRoot[t]] = "Valid" /\ loaded
          THEN lastAtt' = attRoot[t] /\ atts' = atts + 1
          ELSE UNCHANGED <<lastAtt, atts>>
    /\ pc' = [pc EXCEPT ![t] = "idle"] /\ attRoot' = [attRoot EXCEPT ![t] = NoBlock]
    /\ UNCHANGED <<fc, persisted, db, head, eac, elHead, seq, shutdown, fcLock, elLock,
                   stack, imp, cand, cur, persistNeeded, fcu, resp, imports, runs, dbFails>>

(***************************************************************************)
(* Stop and resume.                                                        *)
(***************************************************************************)
Idle == \A t \in Threads : pc[t] = "idle"

\* The process stops and resumes from disk.  A clean stop runs Drop, which
\* persists fork choice under its read lock; Drop runs only once no thread
\* holds the chain.  A crash keeps the fork choice persisted last.  On
\* resume the fork choice is loaded, get_head picks the head, and the head
\* block and state are loaded from the store (startup fails if get_head
\* fails or the block is missing).  In-memory caches and routines are gone;
\* the database and the execution engine keep their state.
Restart(clean) ==
    /\ restarts < MaxRestarts
    /\ clean => Idle
    /\ LET p == IF clean THEN Persisted(fc) ELSE persisted
           f == Reloaded(p)
       IN /\ \E h \in GetHead(f) \cap db : head' = h
          /\ fc' = f /\ persisted' = p
    /\ eac' = NoBlock /\ fcLock' = NoThread /\ elLock' = NoThread
    /\ pc' = [t \in Threads |-> "idle"] /\ stack' = [t \in Threads |-> <<>>]
    /\ imp' = [t \in Threads |-> NoBlock]
    /\ cand' = [t \in Threads |-> NoBlock] /\ cur' = [t \in Threads |-> NoBlock]
    /\ persistNeeded' = [t \in Threads |-> FALSE]
    /\ fcu' = [t \in Threads |-> NoParams] /\ resp' = [t \in Threads |-> "None"]
    /\ attRoot' = [t \in Threads |-> NoBlock]
    /\ restarts' = restarts + 1 /\ swapSeq' = 0
    /\ UNCHANGED <<db, elHead, seq, shutdown, lastAtt, atts, imports, runs, dbFails>>

(***************************************************************************)
(* The specification.                                                      *)
(***************************************************************************)

\* Every bounded budget is spent and every thread is back at rest.
Terminating ==
    /\ Idle /\ runs = MaxRuns /\ (imports = MaxImports \/ Importable = {})
    /\ UNCHANGED vars

\* The history variable follows every head move: it records the newest
\* parameters fork choice held at that moment.
TrackSwap ==
    swapSeq' = IF head' # head /\ fc.params # NoParams THEN fc.params.seq ELSE swapSeq

Next ==
    \/ /\ \/ \E t \in Importers :
             \/ \E b \in Blocks : \/ \E st \in ImportStatuses(b) : ImportBlock(t, b, st)
                                  \/ ImportReject(t, b) \/ ImportEarlyError(t, b)
             \/ ImportAbort(t) \/ ImportDbWrite(t) \/ ImportDbFail(t)
          \/ \E t \in Runners : RunForkChoice(t)
          \/ \E t \in Preparers : StartPrepare(t)
          \/ \E t \in Runners \cup Preparers :
             \/ FcGetHead(t) \/ FcSetHead(t) \/ FcSetHeadTimeout(t)
             \/ FcPersist(t) \/ FcPersistFail(t)
             \/ PrepSkip(t) \/ PrepFcu(t)
             \/ FcuLock(t) \/ FcuRead(t) \/ FcuSend(t)
             \/ FcuValid(t) \/ FcuSyncing(t) \/ FcuInvalid(t) \/ JustCheck(t)
       /\ UNCHANGED <<attRoot, lastAtt, atts, restarts>> /\ TrackSwap
    \/ \E t \in Attesters :
          (AttestFromEac(t) \/ AttestReadHead(t) \/ AttestCheck(t)) /\ UNCHANGED <<restarts, swapSeq>>
    \/ \E clean \in BOOLEAN : Restart(clean)
    \/ Terminating

Spec == Init /\ [][Next]_vars

\* A step of a started fork_choice, proposer preparation or forkchoice
\* update, and the completion of a started import.
RoutineStep(t) ==
    /\ \/ FcGetHead(t) \/ FcSetHead(t) \/ FcSetHeadTimeout(t) \/ FcPersist(t) \/ FcPersistFail(t)
       \/ PrepSkip(t) \/ PrepFcu(t)
       \/ FcuLock(t) \/ FcuRead(t) \/ FcuSend(t) \/ FcuValid(t) \/ FcuSyncing(t) \/ FcuInvalid(t)
       \/ JustCheck(t)
    /\ UNCHANGED <<attRoot, lastAtt, atts, restarts>> /\ TrackSwap

ImportStep(t) ==
    (ImportAbort(t) \/ ImportDbWrite(t) \/ ImportDbFail(t)) /\ UNCHANGED <<attRoot, lastAtt, atts, restarts, swapSeq>>

\* per_slot_task runs fork_choice every slot (a timer), and every started
\* routine runs to completion: none waits on another thread except for
\* the fork-choice and engine-ordering locks, which every holder releases
\* within a bounded number of its own steps.  Block arrival and
\* attestation requests come from the network and get no fairness.
Fairness ==
    /\ \A t \in Runners : WF_vars(RunForkChoice(t) /\ UNCHANGED <<attRoot, lastAtt, atts, restarts, swapSeq>>)
    /\ \A t \in Runners \cup Preparers : WF_vars(RoutineStep(t))
    /\ \A t \in Importers : WF_vars(ImportStep(t))

FairSpec == Spec /\ Fairness

\* The abstract specification HeadChain, with the hot database as its
\* store and the canonical head's block as its head.
Abstract == INSTANCE HeadChain WITH
    stored <- db, head <- head, incarnation <- restarts,
    FinEpoch <- [b \in Blocks |-> FinCp[b].epoch]

(***************************************************************************)
(* Properties.                                                             *)
(***************************************************************************)
\* Whenever no import holds the fork-choice lock, every block fork choice
\* knows is in the database: import_block keeps the lock across the write
\* and reloads fork choice from disk when the write fails (issue 2028), and
\* persisting happens only between imports.
ForkChoiceBlocksStored ==
    fcLock = NoThread => FcBlocks(fc) \subseteq db

\* Whatever moment the process crashes at, the fork choice on disk names
\* only blocks that are on disk, so resume_from_db (and the reload after a
\* failed write) can load any head it picks: persist_head_and_fork_choice
\* reads fork choice under its read lock, which waits for an import to
\* finish its database write, and Drop persists only once all threads
\* are done.
PersistedForkChoiceStored ==
    FcBlocks(persisted) \subseteq db

\* The execution engine never receives forkchoice-update parameters older
\* than ones it already received: execution_engine_forkchoice_lock is held
\* from reading the parameters until notify_forkchoice_updated returns.
ElUpdatesOrdered ==
    [][elHead # NoParams /\ elHead' # elHead => elHead' # NoParams /\ elHead'.seq > elHead.seq]_elHead

\* Whenever every thread is at rest, the execution engine has received
\* forkchoice-update parameters at least as new as those fork choice held
\* when the canonical head last moved: fork_choice_internal calls
\* update_execution_engine_forkchoice after every head swap, and a later
\* fork_choice whose head is unchanged returns early without one.  A head
\* lock timeout returns before the swap, so the next fork_choice retries.
EngineToldOfHead ==
    Idle /\ swapSeq > 0 => elHead # NoParams /\ elHead.seq >= swapSeq

\* The canonical head never moves to a block whose finalized epoch is lower
\* than the current head's (spec.md: finalized epoch is monotone; the
\* RevertedFinalizedEpoch check in fork_choice_internal).
HeadFinalizedMonotone ==
    [][FinCp[head'].epoch >= FinCp[head].epoch]_head

\* Once every thread is at rest, an invalid justified block in fork choice
\* has led to a shutdown request: every invalidation goes through
\* process_invalid_execution_payload, which re-runs fork choice and then
\* checks the justified block.
JustifiedInvalidShutdown ==
    Idle /\ fc.status[fc.just.root] = "Invalid" => "JustifiedInvalid" \in shutdown

\* Every attestation produced votes for a block that fork choice holds
\* with a valid payload at that moment, whether it comes from the early
\* attester cache or from the head ("The early attester cache should never
\* contain an optimistically imported block"; "Only attest to a block if it
\* is fully verified").
AttestationsFullyVerified ==
    [][atts' > atts => lastAtt' \in FcBlocks(fc) /\ fc.status[lastAtt'] = "Valid"]_<<atts, lastAtt>>

\* The head is never stuck on a block whose payload is known invalid:
\* once it is, fork choice eventually moves it to another block or a
\* shutdown is requested.  process_invalid_execution_payload re-runs fork
\* choice at once and then checks the justified block, and per_slot_task
\* re-runs it every slot.
HeadInvalid == head \in FcBlocks(fc) /\ fc.status[head] = "Invalid"

InvalidHeadReplaced == HeadInvalid ~> (~HeadInvalid \/ shutdown # {})

\* Every routine a thread starts (an import, fork_choice with its nested
\* forkchoice update and invalidation, proposer preparation) runs to
\* completion: execution_engine_forkchoice_lock is dropped before the
\* response is handled, so the nested fork_choice of
\* process_invalid_execution_payload can take it again, and no lock is
\* held while waiting for another.
RoutinesComplete == \A t \in Threads \ Attesters : pc[t] # "idle" ~> pc[t] = "idle"

\* ChainHead implements HeadChain: the database grows parent-first, the
\* canonical head is always a stored block, and every head swap keeps or
\* raises the finalized epoch.
HeadChainRefined == Abstract!Spec

=============================================================================
