# TLA+ models of the beacon chain head protocol

This directory holds TLA+ models of the chain-state engine in
`src/beacon_node/beacon_chain/src/beacon_chain.rs`, together with the TLC
configurations that check them. `PROJECT.json` lists:

- every component and its status;
- every run and mutant;
- the source lines each definition translates;
- the findings;
- the hazards the code is exposed to.

## The system

`BeaconChain` is shared by many threads: network block processing, the
per-slot timer, HTTP API handlers and execution-layer tasks. The state that
matters for correctness is as follows.

| state | code | guarded by |
|---|---|---|
| fork-choice store (proto_array: block tree, execution status, checkpoints, cached forkchoiceUpdated parameters) | `fork_choice: RwLock<BeaconForkChoice>` | its RwLock |
| canonical head snapshot (block + state) | `canonical_head: TimeoutRwLock<BeaconSnapshot>` | its lock, 1 s timeout |
| hot database (blocks, states, persisted fork choice) | `store` | atomic batches |
| early attester cache | `early_attester_cache` | internal lock |
| ordering of forkchoiceUpdated to the execution engine | `execution_engine_forkchoice_lock` | itself |

The operations, and how they interact:

- **`import_block`** (l. 2510):
  - Fills caches without holding any lock.
  - Takes the fork-choice write lock, checks that the block descends from the finalized block, and calls `on_block` and `on_attestation`.
  - For a recent block with a valid payload, it runs `get_head` and may insert the block into the early attester cache.
  - It keeps the lock across the database write (l. 2822). If the write fails, it restores fork choice from disk before releasing the lock. Any other error after `on_block` returns with `?`.
- **`fork_choice_internal`** (l. 3385), called by `per_slot_task`, after imports, and inside invalidation. Its steps:
  1. Reads `get_head` under the write lock.
  2. Reads `head_info` from the canonical head. It returns early if the head is unchanged, and shuts down if the finalized block is invalid.
  3. Loads the new head from the database and detects a re-org.
  4. Refuses a head whose finalized epoch is lower (`RevertedFinalizedEpoch`).
  5. Clears the early attester cache and swaps the head.
  6. Persists fork choice on an epoch transition or a re-org.
  7. Runs `after_finalization`.
  8. Calls forkchoiceUpdated, then `prepare_beacon_proposer`.

  None of these phases holds a lock across the others.
- **`update_execution_engine_forkchoice_async`** (l. 4015):
  - Takes the ordering lock, reads the cached parameters from fork choice, sends them and drops the lock.
  - Then acts on the response:
    - VALID → `on_valid_execution_payload`;
    - SYNCING or ACCEPTED → nothing;
    - INVALID → `process_invalid_execution_payload` with InvalidateMany;
    - INVALID_BLOCK_HASH or INVALID_TERMINAL_BLOCK → InvalidateOne.
- **`process_invalid_execution_payload`** (l. 3295): `on_invalid_execution_payload`, then `fork_choice` (nested), then a shutdown if the justified block is now invalid.
- **`prepare_beacon_proposer`** (l. 3792): computes the next proposer, then sends a forkchoiceUpdated with payload attributes. It is a second, timer-driven caller of the same routine.
- **`process_chain_segment`** (l. 2254): the batch import used by sync. It checks the links and filters the blocks for relevancy, splits them into per-epoch batches, verifies each batch's signatures, then imports its blocks one by one. Gossip imports of single blocks (`process_block`, l. 2448) run at the same time and take no lock across those phases.
- **`Drop`** (l. 4774): a clean stop persists the head tracker and fork choice (`persist_head_and_fork_choice`, l. 381, under the fork-choice read lock). On the next start, the node resumes from the fork choice on disk.
- **`find_reorg_slot`** (l. 599) and **`block_root_at_slot`** (l. 815–943): block-root lookups in the head state's circular history window. The first finds where two chains diverge and the second finds the canonical root at a slot.
- **`produce_unaggregated_attestation`** (l. 1552): it serves the early attester cache first. Otherwise it reads the head and checks the block's execution status in fork choice.
- **`shuffling_is_compatible`** (l. 2092), used through `filter_op_pool_attestation` (l. 2066) when attestations are packed into a block: it compares the block that fixed the attestation's shuffling (the ancestor at the pivot slot, found in proto_array) with the state's root at that slot.
- **`with_committee_cache`** (l. 4420), used by `validator_attestation_duties` (l. 1451): it serves a committee from the shuffling cache. On a miss it uses the head state or a state loaded from disk, advances it if needed, builds the committee and inserts it. The cache lock is taken twice, each time with a timeout, and is not held in between.
- **Proposer preparation, in detail** (`prepare_beacon_proposer`, l. 3792–3992): it reads the head, then looks up the proposer of the next slot in the beacon proposer cache. The cache is keyed by the epoch and the shuffling decision root, the block root at the last slot of the epoch before. On a miss, it computes the proposers from a clone of the head state and inserts them. It abandons the preparation if the head's decision root has changed in between. Otherwise it registers the proposer and sends the forkchoiceUpdated if the slot has not yet begun.
- **`produce_block_with_verification`** (l. 2987): it reads `head_info`. For a head at or before the slot it takes the head state advanced to the slot. For a later head it takes `state_at_slot(slot - 1)` (l. 1219), which reads the head a second time. `produce_block_on_state` then advances the state, reads the parent root from it, and runs the block through `per_block_processing`.

What makes the system correct:

1. Fork choice never knows a block the database lacks.
2. The engine sees heads in order.
3. The head's finalized epoch never decreases.
4. An invalid justified block stops the node.
5. Invalid payloads never become the head.
6. The imported-block count of a chain segment is exact.
7. The re-org depth is never under-reported.
8. Attestations vote only for fully verified blocks.
9. Every started routine completes, and an invalid head does not stay the head.
10. A committee handed out is the shuffling of the requested block's chain, and an attestation is packed only if its shuffling is the state's.
11. A produced block builds on the latest block before its slot on a chain the node held as head.
12. A prepared proposer is the proposer of its slot on the chain of the head it was prepared for.
13. A crash at any moment leaves a fork choice on disk that names only stored blocks.
14. A block that first finalizes past the weak subjectivity checkpoint is imported only if it agrees with it.

## Modules

### `ChainHead.tla`: import, head update, forkchoiceUpdated, invalidation, attestation

- **Constants:**
  - The block tree is given as constants: `Parent`, `Slot`, and the justified and finalized checkpoints of each block's post-state (`JustCp`, `FinCp`).
  - The payloads the engine rejects are `PayloadInvalid`.
  - The thread sets are `Importers`, `Runners`, `Preparers` and `Attesters`.
  - Each counter has a named bound (`MaxImports`, `MaxRuns`, `MaxDbFails`, `MaxAtts`, `MaxRestarts`).
  - `ImportCanAbort` enables the `?` returns of `import_block`: those before the fork-choice lock (`ImportEarlyError`) and those between `on_block` and the database write (`ImportAbort`).
  - `HeadLockCanTimeout` enables the canonical-head lock timeout. A failed persist shares the `MaxDbFails` budget with failed import writes.
  - `swapSeq` is a history variable, not program state. `TrackSwap` sets it, on every head move, to the sequence number of the parameters fork choice holds at that moment.
- **Variables:**
  - `fc` is the fork-choice store: a record of the status map, the checkpoints and the cached parameters.
  - `persisted` is the store's on-disk copy, and `db` is the set of stored blocks.
  - `head`, `eac` and `shutdown` follow the code's variables of the same meaning.
  - `elHead` holds the last parameters the engine received.
  - The locks are `fcLock` and `elLock`. `fcLock` is the import's write lock; other fork-choice accesses are short and are modelled as guards.
  - Each thread has a program counter `pc` and a stack `stack` of return points, because fork_choice nests inside invalidation. It also has the locals the code keeps between phases: `imp`, `cand`, `cur`, `persistNeeded`, `fcu`, `resp` and `attRoot`.
  - `lastAtt` and `atts` record the attestations produced.
- **One action per phase.** Each action models the whole phase, including its early returns and error paths:

| action | code |
|---|---|
| `ImportBlock` | l. 2593–2763: lock, `on_block`, early-attester `get_head` (whose error returns early) and the cache insert |
| `ImportEarlyError` | l. 2521–2592: a `?` return before the fork-choice lock (observed attestations, slasher, pubkey-cache and shuffling-cache lock timeouts, attester cache) |
| `ImportReject` | l. 2596: not a finalized descendant |
| `ImportAbort` | a `?` error between `on_block` and the write |
| `ImportDbWrite`, `ImportDbFail` | l. 2815–2860 |
| `RunForkChoice` | l. 4320–4349 |
| `FcGetHead` | l. 3385–3425 |
| `FcSetHead` | l. 3427–3549 |
| `FcSetHeadTimeout` | l. 3539–3549: the cache cleared, then `try_write_for(HEAD_LOCK_TIMEOUT)` fails and `fork_choice` returns `CanonicalHeadLockTimeout` |
| `FcPersist` | l. 3628–3667 |
| `FcPersistFail` | l. 381–393: the atomic write of `persist_head_and_fork_choice` fails; the `?` at l. 3630 returns before the engine update |
| `StartPrepare`, `PrepSkip`, `PrepFcu` | l. 3760–3992 |
| `FcuLock` | l. 4015–4053: awaits the ordering lock (`execution_engine_forkchoice_lock`) |
| `FcuRead` | l. 4054–4121: reads the fork-choice parameters while holding the ordering lock, waiting for the fork-choice lock |
| `FcuSend` | l. 4123–4131 |
| `FcuValid`, `FcuSyncing`, `FcuInvalid` | l. 4133–4230 |
| `JustCheck` | l. 3330–3361 |
| `AttestFromEac` | l. 1552–1581: early-attester-cache hit |
| `AttestReadHead` | l. 1583–1680: the head, or the head state's root at an earlier slot |
| `AttestCheck` | l. 1682–1757: the fork-choice status check, then the committee lookup, which may fail |
| `Restart` | l. 4774–4793 (`Drop`) and the resume from disk: a crash keeps the fork choice persisted last; a clean stop (all threads idle) persists it first. The resume loads it, picks the head with `get_head`, and needs the head block in the database. Caches, locks and routines are reset; the database and the engine keep their state |

- **Fork-choice store.** The store (proto_array) is not in this repository. It is modelled from spec.md's interface, and those definitions are marked `spec_modelled`:
  - `get_head` returns any viable leaf under the justified root, because weights are abstracted. A node is viable when it is not invalid and its own checkpoints equal the store's, or the store's are at genesis, as in proto_array's `node_is_viable_for_head`. `get_head` fails when the justified block is invalid or nothing is viable.
  - `on_block` advances the checkpoints.
  - Invalidation marks a range and all its descendants.
  - Validation marks the optimistic ancestors.
  - The cached parameters are not persisted.
- **Parameter ghost.** `seq` numbers each distinct parameter set in the order `get_head` produced it. It exists only so that ordering can be stated.
- **Fairness.** `FairSpec` adds weak fairness for each started routine (`RoutineStep`, `ImportStep`) and for the per-slot `RunForkChoice` (see "Fairness" below).
- **Refinement.** `Abstract` instantiates `HeadChain` with `stored <- db`, `head <- head` and `incarnation <- restarts`, and maps each block to its finalized epoch. `HeadChainRefined` is `Abstract!Spec`.

`MCChainHead.tla` gives the constants: blocks `G(0) <- A(1) <- B(2) <- C(3) <- E(4)` plus a fork `A <- D(2)`, two slots per epoch, and C and E justifying B (finalizing it in some runs).

### `HeadChain.tla`: the abstract head specification

This is what the head protocol promises, with no threads, locks or fork-choice store:
- The store grows one block at a time, and a block enters it only after its parent.
- The head moves only to a stored block whose finalized epoch is at least that of the current head, within one run of the process.
- A restart (`Resume`) starts a new incarnation at any stored block.

`ChainHead` is checked to implement it.

### `ChainSegment.tla`: `process_chain_segment` racing gossip imports

- **Segment thread.** The segment thread runs the code's phases in order:
  - the filter loop (`FilterReject`, `FilterKeep`, `FilterSkip`, `FilterBreak`);
  - the per-epoch split (`LastIndex`, `SplitBatch`);
  - the signature check of a batch (`VerifyBatch`);
  - the import of its blocks one at a time (`ImportNext`).
- **Relevancy and failures.** The filter's outcome, `Relevancy`, follows `check_block_relevancy` (not under src/, so it is `spec_modelled`). Its branches are future slot, genesis, would-revert-finalized, already known and ok. Bad signatures and blocks that fail full verification are chosen from `SigCandidates` and `BadCandidates`, so a failure can happen at any position.
- **Gossip thread.** `GossipImport` imports any importable block between any two steps of the segment thread.
- **Instance.** `MCChainSegment.tla` uses the chain `G(0) <- A(1) <- B(2) <- C(3) <- D(4) <- X(5) <- Y(6)` and a fork `A <- F(2) <- H(3)`, with the clock at slot 4. The segments are:
  - every injective sequence of up to three blocks;
  - one long segment that is linear up to two future blocks and then breaks.

### `BlockRoots.tla`: block-root lookups and shufflings

- **Operators.** The lookups are operators over a constant block tree. A head state keeps the roots of its last `HistLen` slots in a circular buffer (`GetBlockRoot`), and a skipped slot repeats the previous root.
  - `AlignedRoots` and the recursive `Walk` translate the lock-step iteration of `find_reorg_slot`.
  - `SkipsNone` and `SkipsPrev` translate both variants of `block_root_at_slot`, including the fast path through the head state and the slow path through the store's forwards iterator (`ForwardsRoots`).
  - A committee is named by its seed block (`Committee`): the chain's latest block at or before the end of epoch `e - 1 - MIN_SEED_LOOKAHEAD`, genesis for early epochs.
  - `ShufflingIsCompatible` translates `shuffling_is_compatible`: the early-epoch shortcut, the epoch check, the state's pivot root (`StateBlockRoot`, a state of any block at any later slot), and the proto_array ancestor search (`IterFind`, over the pruned tree `FcBlocks`).
  - `WithCommitteeCache` translates `with_committee_cache` as a function of a request and the cache, returning the result and the new cache. It keeps the order of the early returns: missing block, no shuffling id (`IdForEpoch`), first lock timeout, cache hit, `InvalidStateForShuffling`, `IncorrectStateForAttestation`, second lock timeout. The state comes from `HeadStateFor` (the head state, if the head is the requested block) or a disk load, and `ShufflingState` advances it.
- **Checking.** Each behaviour picks one query and evaluates it, so TLC compares every input against a reference:
  - a re-org between an old head and a new head that agrees with the old head's finalized checkpoint;
  - a root lookup with a wall clock and a request slot;
  - a shuffling check of an attestation (block, epoch) against a state at its current or previous epoch;
  - two `with_committee_cache` requests sharing the shuffling cache. The first, for a block at its own head, fills the cache; the second may name any head, lock timeout or loaded state;
  - the weak subjectivity check at the import of a block, with the store's finalized epoch before the import and a configured checkpoint (any epoch from 1 to 3, any root);
  - a block production at a slot, with the head `head_info` reads, the head `state_at_slot` reads afterwards (the same or another canonical head), and whether a forward skip times out.
- **Weak subjectivity.** `ImportWsGate` translates the check in `import_block` (l. 2604). It runs only when the store's finalized epoch is below the WS epoch and the block's post-state finalizes at or past it, and a failure requests a shutdown. `VerifyWsCheckpoint` translates `verify_weak_subjectivity_checkpoint`: equal epochs compare the finalized root, an older WS epoch walks back with `root_at_slot_from_state` (`RootAtSlotFromState`) to the epoch's start slot, and a newer one passes.
- **State roots.** `StateRootAtSlot` translates `state_root_at_slot` (l. 761–807): the wall-clock check, the genesis root, the store's historic state limits (a query input `gap`, since the store lives outside src/), the head-state fast path, the head state's circular `state_roots` window (`StateBufferRoot`: entry `x % HistLen` holds the latest slot with that index, readable for the `HistLen` slots before the state), and the store's forwards state-roots iterator (`ForwardsStateRoots`, l. 715–733) with its `InconsistentForwardsIter` sanity check. A state root is named by its state, `StateOf(block, slot)`.
- **Block production.** `StateAtSlot` translates the three branches of `state_at_slot`, `ProduceBlock` the state choice of `produce_block_with_verification`, and `ProduceBlockOnState` the slot check, the advance, the parent read from the state and the header checks of `per_block_processing` (a state is named by its latest block and its slot).
- **Instance.** `MCBlockRoots.tla` uses the tree `G0 <- A1 <- B3 <- C5 <- D6 <- H8`, `A1 <- E2 <- F5 <- J8` and `B3 <- K5`, and a window of 3 slots. D finalizes epoch 1. H and J finalize epoch 2 on conflicting chains: B is H's checkpoint root and E is J's. Proto_array is pruned to A and its descendants, the canonical head is D or F, `MIN_SEED_LOOKAHEAD` is 1, and epochs run to 3.

### `ProposerPrep.tla`: proposer preparation racing head swaps

- **Why a second module.** `ChainHead` models the preparation as three coarse steps (`StartPrepare`, `PrepSkip`, `PrepFcu`) whose only effect there is the forkchoiceUpdated. This module models the steps in between, where the proposer cache and the head are read at different times.
- **Constants:** a block tree (`Parent`, `Slot`), `SlotsPerEpoch`, `HistoricEpochs` (the too-old limit), the preparer threads, and `Connected`, the proposers with a registered fee recipient. A proposer is abstracted as `[dec, epoch, idx]`: the decision root and epoch of the shuffling it was drawn from, and its position. `ProposerOf` picks the one for a slot.
- **Variables:** the slot clock and its phase (`clock`, `late`), the canonical `head`, the proposer `cache` (a set of `[epoch, root]` keys, its value being `Proposers` of that key), the `registered` proposers and the `pushed` updates. Each preparer has a `pc` and the locals the code keeps across the cache lock: `prepSlot`, `hd`, `sdr`, `prop`.
- **Actions:**

| action | code |
|---|---|
| `Tick` | the slot clock: early, then late, then the next slot |
| `HeadChange` | l. 3545–3548: the head swap of a concurrent `fork_choice` |
| `Start` | l. 3792–3813: the slot to prepare |
| `ReadHead` | l. 3815–3867: the head read and the cache lookup, with every early return (no connected validator, head too old, epoch too far ahead on a miss) |
| `Compute` | l. 3869–3898: the miss path; it inserts into the cache, then abandons if the head's decision root changed |
| `Register` | l. 3900–3948: the proposer is not connected, or is registered |
| `Push` | l. 3950–3989: the forkchoiceUpdated is sent only before the slot starts, and only if the head is recent or the slot is near |

- **History variables.** `moved` records that the head changed since a thread read it, and `abandons` records the value of `moved` at each abandon. They exist only so that the abandon can be related to a head change.
- **Instance.** `MCProposerPrep.tla` uses the tree `G0 <- A1 <- B2 <- C4` and a fork `A1 <- D3`, two slots per epoch, and proposers of index 0 connected. The clock runs to slot 5 and the head changes at most twice, with two preparers starting three times in all (symmetric).

## Runs

| run | expect | threads, bounds | checks |
|---|---|---|---|
| `head_concurrent` | pass | 1 importer, 2 runners (symmetric), 1 attester; blocks G,A,B,D; D invalid; import errors and head-lock timeouts allowed; 2 imports, 2 runs, 1 attestation, no failed write | `ElUpdatesOrdered`, `EngineToldOfHead` |
| `invalidation` | pass | 1 importer, 1 runner, 1 preparer, weak fairness; B invalid, C justifies B; 3 imports, 2 starts | `JustifiedInvalidShutdown`, `RoutinesComplete` |
| `head_serial` | pass | 1 importer, 1 runner; C, E finalize B; 4 imports, 3 runs, 1 failed write, 1 crash or clean restart | `HeadChainRefined`, `ForkChoiceBlocksStored`, `PersistedForkChoiceStored` |
| `head_race` | violation | 2 runners; C finalizes B | `HeadFinalizedMonotone` |
| `import_get_head_error` | violation | 1 importer, 1 runner, 1 preparer; B invalid, C justifies B; 4 imports, 3 runs, 1 failed write | `ForkChoiceBlocksStored` |
| `attest_lost_block` | violation | 1 importer, 1 runner, 1 attester; D invalid; 3 imports, 2 runs, 2 attestations, 1 failed write | `AttestationsFullyVerified` |
| `invalid_head_stuck` | violation | as `invalidation` | `InvalidHeadReplaced` |
| `segment` | pass | all segments above; chains {G,A,B} or {G,A,B,C}, finalized slot 2; up to 2 gossip imports; F on the wrong fork | `SegmentMatchesReference`, `SegmentSuccessComplete` |
| `segment_nonlinear` | violation | chains {G} or {G,A}; no gossip | `NonLinearNothingImported` |
| `reorg_window` | pass | every query: re-org, root lookup (clock ≤ 7), shuffling check (epoch ≤ 3), pair of committee requests, block production (slot ≤ 7), WS check (WS epoch ≤ 3), state-root lookup (clock ≤ 7, every historic gap) | `ReorgSlotExact`, `BlockRootAtSlotCorrect`, `ShufflingCompatibleCorrect`, `CommitteeMatchesChain`, `CommitteeServed`, `ProducedOnHeadChain`, `WsCheckpointEnforced`, `StateRootAtSlotCorrect` |
| `reorg_depth` | violation | as `reorg_window` | `ReorgDepthFromAncestor` |
| `prep` | pass | 2 preparers (symmetric), clock to slot 5, 3 starts, 2 head changes | `PreparedProposerCorrect`, `AbandonOnlyOnHeadChange` |

The properties:
- **`ForkChoiceBlocksStored`** (invariant): whenever no import holds the lock, every block in fork choice is in the database.
- **`PersistedForkChoiceStored`** (invariant): at every moment, the fork choice on disk names only blocks in the database. A crash at any point can therefore resume at whatever head `get_head` picks. This relies on the persist reading fork choice under its lock, which waits for an import's write.
- **`EngineToldOfHead`** (invariant): whenever every thread is at rest, the engine has received parameters at least as new as those fork choice held when the canonical head last moved. A later `fork_choice` with an unchanged head returns early at l. 3400 without an update, so the update must follow the swap itself. A head-lock timeout returns before the swap, and the next run completes it. With a failed persist (l. 3630) it does not hold; see "A failed persist after the head swap" under Not modelled.
- **`ElUpdatesOrdered`** (action property): the engine never receives parameters older than ones it already received. `FcuLock` takes the ordering lock before `FcuRead` waits for the fork-choice lock, the order of l. 4052–4060. No path takes the fork-choice lock and then waits for the ordering lock, so the lock order cannot deadlock.
- **`HeadFinalizedMonotone`** (action property): the canonical head never moves to a lower finalized epoch.
- **`HeadChainRefined`** (refinement): `ChainHead` implements `HeadChain`. The database grows parent-first, the head is always a stored block, and its finalized epoch never decreases within one run of the process. This includes `HeadFinalizedMonotone` under a serial schedule.
- **`JustifiedInvalidShutdown`** (invariant): whenever every thread is at rest, an invalid justified block has caused a shutdown request.
- **`RoutinesComplete`** (liveness): every routine a thread starts returns to rest. In particular, the nested fork_choice of an invalidation can take the ordering lock again, because that lock is dropped before the response is handled.
- **`InvalidHeadReplaced`** (liveness): once the head's payload is known invalid, the head eventually moves off it, or a shutdown is requested.
- **`AttestationsFullyVerified`** (action property): every attestation votes for a block that fork choice holds with a valid payload. Only `attest_lost_block` checks it, where a failed write leaves the early attester cache serving a block fork choice no longer holds. On the head path, the status check and the vote are one step of `AttestCheck`, so a passing run would only restate that guard.
- **`SegmentMatchesReference`** (invariant): for a linear segment with no racing gossip, the imported blocks and the returned count equal a reference. The reference is the relevant blocks before the first future block, cut at the first bad signature or failing block.
- **`SegmentSuccessComplete`** (invariant): a `Successful` result leaves every relevant block before the future slot in the chain.
- **`NonLinearNothingImported`** (invariant): a segment that is not linear imports nothing.
- **`ReorgSlotExact`** (invariant): `find_reorg_slot` returns the highest slot where both chains agree when it lies inside both windows, and the old head's finalized slot otherwise.
- **`BlockRootAtSlotCorrect`** (invariant): both `block_root_at_slot` variants return the canonical root.
- **`ReorgDepthFromAncestor`** (invariant): the reported depth is measured from the common ancestor.
- **`ShufflingCompatibleCorrect`** (invariant): `shuffling_is_compatible` never admits an attestation whose shuffling differs from the state's. It admits every attestation whose epoch is past the lookahead and whose seed block agrees, lies in the state's window and is in fork choice.
- **`CommitteeMatchesChain`** (invariant): every committee `with_committee_cache` returns, whether from the cache or newly built, is the shuffling of the requested block's chain at the requested epoch.
- **`ProducedOnHeadChain`** (invariant): a produced block's parent is the latest block before its slot on the chain of the head `head_info` read or the head `state_at_slot` read. Production succeeds unless a skip times out or the head is exactly at the slot. In that last case the advanced head state already holds a block at the slot, and `per_block_processing` rejects the new one (a hazard in `PROJECT.json`).
- **`StateRootAtSlotCorrect`** (invariant): for any slot up to the head's slot, `state_root_at_slot` returns the root of the canonical state at that slot, whichever path serves it (the head state, its circular window, or the forwards iterator for slots older than the window), and None strictly inside the store's historic gap.
- **`WsCheckpointEnforced`** (invariant): a block whose post-state first carries finality from below the WS epoch to at or past it is imported only if its chain holds the WS root at that epoch's start slot. A shutdown is requested only for a block whose chain really conflicts with the checkpoint.
- **`PreparedProposerCorrect`** (invariant): every registered proposer is the proposer of its slot on the chain of the head it was prepared with, although the cache entry it came from may have been filled by another thread from another head.
- **`AbandonOnlyOnHeadChange`** (invariant): a preparation is abandoned for a changed decision root only if the head really changed after it was read.
- **`CommitteeServed`** (invariant): a request for a fork-choice block with a shuffling id, whose epoch is not more than one behind the block's, is served unless a lock times out.

Each property of a passing run has a mutant in `PROJECT.json`: a plausible bug that TLC finds. The mutants are:
- a failed write that returns without reloading fork choice;
- parameters read and sent without the ordering lock;
- the justified check skipped;
- the ordering lock kept while the response is handled;
- fork choice persisted without waiting for its lock;
- the engine update placed inside the `is_epoch_transition || is_reorg` branch;
- an epoch batch ending one block late;
- a skipped block breaking the filter loop;
- the reorg walk skipping its lowest slot;
- the `skips_none` fast path not comparing with the previous slot;
- the ancestor search stopping strictly before the pivot;
- the head state used without checking that the head is the requested block;
- the loaded state never advanced to the target slot;
- `state_at_slot` asked for the production slot instead of the slot before it;
- the head state's `state_roots` entry read in `state_root_at_slot` without checking that the slot is inside its window;
- the WS check skipped for a block that finalizes exactly the WS epoch;
- the miss path registering the computed proposer without the decision-root recheck;
- the decision root taken as the head block itself rather than its ancestor.

**Why these bounds are enough.** Each bound is the smallest that lets the interesting case happen:
- Two runners are enough for two fork_choice calls to overlap.
- In `head_concurrent`, two imports (A, then B or D) give the runners two distinct head changes to read and send out of order. A third import adds no new kind of race, but multiplies the interleavings of the lock-by-lock forkchoiceUpdated path past the time budget.
- One failed write makes fork choice fall back to an older persisted copy. For that copy to be older, the head must pass an epoch boundary, which persists, and then advance inside the epoch, which does not. The block tree has exactly those slots.
- `E` exists only so that, after C finalizes B, there is still a block whose import can fail.
- The fork `D` gives re-orgs, and an invalid payload away from the justified chain.
- In `invalidation`, three imports reach C, which justifies B. The liveness check (which needs the full state graph) stays under two minutes.
- In the segment model:
  - two slots per epoch with blocks at slots 1–6 give three batches;
  - the clock at 4 makes X and Y future blocks;
  - the fork gives non-linear and wrong-fork segments.
- In `BlockRoots`, a window of 3 over heads at slots up to 6 has both in-window and out-of-window common ancestors, and skipped slots on both sides of an ancestor.
  - With two slots per epoch and a lookahead of 1, epochs 2 and 3 have seeds at slots 1 and 3. Those seeds are A on every chain, and B or E depending on the fork, so shufflings agree for some blocks on different forks and differ for others.
  - Blocks at exactly the pivot slots (A1, B3) separate "at or before" from "before".
  - G lies outside fork choice, so the missing-ancestor and missing-block branches are reached.
  - H and J let the WS check reach both of its branches. A WS epoch of 2 compares finalized roots (B against E). A WS epoch of 1 walks back to slot 2, which both chains skip, so the walk must return A or E from the slot before.
- In `prep`, the fork D3 beside B2 and C4 gives heads with different decision roots for the same epoch, and two head changes let the head move away and back between a thread's read and its recheck. The clock to slot 5 makes the next epoch more than two ahead of an old head, which reaches the miss-path skip. With `HistoricEpochs` at 4, the too-old branch is kept in the model but cannot fire at these bounds.

## Findings

1. **`head_race`: the finalized epoch of the head goes backwards under concurrent fork choice.**
   1. Both runners read the head as G.
   2. r1's `get_head` picks B, with finalized epoch 0.
   3. C is then imported, and r2 installs C, which finalizes B (epoch 1).
   4. r1 now checks `RevertedFinalizedEpoch` against its stale `head_info` (G, epoch 0). The check passes, and r1 installs B.

   spec.md says a decrease of the finalized epoch is fatal. The comment at l. 3635 assumes it cannot happen.
2. **`import_get_head_error`: a block in fork choice is missing from the database.**
   - `import_block` restores fork choice only when the database write itself fails. The `?` returns after `on_block` leave the block in fork choice and not on disk. These are the early-attester `get_head` (l. 2738), the committee lookup, `on_attestation` and the sync committee lookup.
   - TLC reaches this through `get_head` failing once the justified block has been invalidated.
   - From then on, `fork_choice` can pick that block and fail with `MissingBeaconBlock`.
   - A later persist writes that fork choice to disk. After a crash, resuming fails if `get_head` picks the missing block. TLC finds this when `PersistedForkChoiceStored` is checked under this run's bounds.
3. **`attest_lost_block`: an attestation to a block the node does not have.**
   - `import_block` puts the block into the early attester cache (l. 2740) before the database write.
   - A failed write reloads fork choice (l. 2834) but does not clear the cache.
   - Attestation production serves the cache first, so it attests to a block that is neither in fork choice nor on disk.
4. **`invalid_head_stuck`: the head can stay on an invalid block with no shutdown.**
   - C carries the store's justified checkpoint (B). When C becomes the head and is then invalidated, B stays optimistic but no node is viable, because B's own justified epoch is 0.
   - The nested `fork_choice` in `process_invalid_execution_payload` fails (logged at l. 3324). The justified block is not invalid, so no shutdown is requested.
   - Every later `fork_choice` fails the same way.

   spec.md names no outcome for this case.
5. **`segment_nonlinear`: a non-linear segment imports its first blocks.** The link checks run inside the filter loop, and a future-slot block breaks out of that loop. The links after it are never checked, and the blocks before it are imported.
6. **`reorg_depth`: the re-org depth is under-reported.**
   - `find_reorg_slot` returns the highest slot where both chains' roots agree.
   - When both chains skip slots after the common ancestor (B at 3, C and K at 5), that slot is 4, not 3.
   - The depth in the log and in the `chain_reorg` event (l. 3466, 3696) is therefore one too small.

## Fairness

`FairSpec` assumes weak fairness of three kinds of step:
- each runner's `RunForkChoice`, because `per_slot_task` fires every slot;
- every step of a started fork_choice, forkchoiceUpdated, invalidation or proposer preparation;
- the completion of a started import.

Every one of these routines runs to completion without waiting on another thread, except through the two locks, and each lock holder releases its lock within a bounded number of its own steps. Weak fairness is therefore enough: a waiting thread finds the lock free once the finitely many imports and runs are spent.

Block arrival, attestation requests and restarts come from outside the process, so they get no fairness. The safety runs use `Spec`, without fairness.

## What is not modelled, and why

- **Inside `fork_choice_internal`:**
  - events, metrics, logging, the validator monitor and the head tracker;
  - pool pruning and the migrator in `after_finalization`.

  None of these feeds back into the modelled state.
- **The WS check inside `ChainHead`'s import:** `ChainHead` runs with no WS checkpoint configured. The check itself is a function of the block and the store's finalized epoch, and `BlockRoots` checks it over every input.
- **Proto_array:** its prune is threshold-gated at 256 nodes, so it cannot fire at these bounds.
- **A failed persist after the head swap (l. 3630):** `FcPersistFail` is modelled. With one failed write allowed, TLC finds `EngineToldOfHead` violated: the head moves, the persist fails, and the engine keeps the older head until the head moves again. No run records this, because all twelve runs are in use. It is listed as a hazard.
- **The finalization tail of `fork_choice_internal` (l. 3633–3679):** the head re-read with a timeout, the finalized state-root lookup and `after_finalization` (proto-array prune below its threshold, op-pool and cache pruning, store migration) are data or background work. An error there has the same effect as the failed persist.
- **The split between the early-attester-cache clear and the head swap (l. 3542):** the model swaps both in one step.
- **The pre-merge branch of forkchoiceUpdated** (terminal PoW block): out of scope for a post-merge model.
- **Restart:** `Drop` also persists the op pool and the eth1 cache, which are data. The resume path lives in the builder, outside this file, and is modelled from spec.md. A crash after a head move within an epoch resumes at an older head (fork choice is persisted only on epoch transitions and re-orgs); this is listed as a hazard.
- **Block production:** `wait_for_fork_choice_before_block_production` only logs its outcomes. Operation packing, eth1 data, the execution payload and the body of the state transition are data, not control. `get_advanced_state` and the forwards state-roots iterator always find a state.
- **`state_root_at_slot` past the head (l. 776–778):** modelled, but `StateRootAtSlotCorrect` leaves these slots out. The fast path returns the head block's state root for every slot from the head's slot up to the wall clock. A skipped slot after the head has a state of its own with a different root, and the slow path returns per-slot roots for skipped slots behind the head.
- **Committee and shuffling caches:** the caches live outside src/. The shuffling cache is a set with no eviction (the model makes two requests). Two `with_committee_cache` calls are not interleaved: each lock is held only around one lookup or insert, which the model takes as atomic. A duplicate insert by two racing misses stores the same committee, since both are keyed by the shuffling id. `get_advanced_state` always finds a state.
- **Builder client, client config:** pure I/O and configuration.
- **Proposer preparation:** the pre-Bellatrix and no-execution-layer returns (l. 3770–3790) are constant configuration. The payload attribute values (timestamp, randao, fee recipient) are left out, as the properties are about which proposer is prepared and when. The proposer cache is a set with no eviction. Two threads that miss at once both compute and insert the same entry (l. 3843), which spec.md (l. 112) rules out; it is listed as a hazard, not a property, because the duplicate is harmless to correctness.
