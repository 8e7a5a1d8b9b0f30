----------------------------- MODULE BlockRoots -----------------------------
(***************************************************************************)
(* Block-root lookups in beacon states and fork choice (beacon_chain.rs):  *)
(*   find_reorg_slot                              l. 599-666               *)
(*   block_root_at_slot                           l. 815-827               *)
(*   block_root_at_slot_skips_none, _skips_prev   l. 839-943               *)
(*   filter_op_pool_attestation, shuffling_is_compatible   l. 2066-2153    *)
(*   with_committee_cache                         l. 4420-4558             *)
(*   state_at_slot                                l. 1219-1292             *)
(*   produce_block_with_verification, _on_state   l. 2987-3089, 3271-3279  *)
(*   weak subjectivity check at import            l. 2600-2633, 4267-4310  *)
(*   root_at_slot_from_state                      l. 1421-1436             *)
(*                                                                         *)
(* A state of block h at slot s (s >= Slot[h]: later slots were skipped)   *)
(* keeps the roots of its last HistLen slots (SLOTS_PER_HISTORICAL_ROOT)   *)
(* in a circular buffer; a skipped slot repeats the root of the block      *)
(* before it.  The attester shuffling of epoch e on a chain is fixed by    *)
(* the randao mix at the end of epoch e - 1 - MIN_SEED_LOOKAHEAD, so by    *)
(* the chain's latest block at or before that slot (genesis for early      *)
(* epochs).  The algorithms are operators over a constant block tree; the  *)
(* spec below picks one query and evaluates it, so that TLC checks every   *)
(* query on the tree against reference definitions.                        *)
(***************************************************************************)
EXTENDS Integers, Sequences, FiniteSets

CONSTANTS
    Blocks, Genesis, Parent, Slot,
    FinEpoch,         \* FinEpoch[b]: finalized epoch of b's post-state
    SlotsPerEpoch,
    HistLen,          \* SLOTS_PER_HISTORICAL_ROOT
    MaxClock,         \* the largest wall-clock slot considered
    MinSeedLookahead, \* spec.min_seed_lookahead
    MaxEpoch,         \* the largest epoch a query names
    FcRoot,           \* the oldest block proto_array keeps after pruning
    Heads,            \* canonical heads with_committee_cache may meet
    NoRoot            \* None

ASSUME /\ Genesis \in Blocks /\ Slot[Genesis] = 0
       /\ \A b \in Blocks \ {Genesis} : Parent[b] \in Blocks /\ Slot[Parent[b]] < Slot[b]
       /\ HistLen \in Nat \ {0} /\ SlotsPerEpoch \in Nat \ {0}
       /\ NoRoot \notin Blocks /\ FcRoot \in Blocks /\ Heads \subseteq Blocks

(* The root the chain of b holds at slot x: its latest block at or before *)
(* x (a skipped slot repeats the previous root).                           *)
RECURSIVE RootAt(_, _)
RootAt(b, x) == IF Slot[b] <= x THEN b ELSE RootAt(Parent[b], x)

EpochOf(x) == x \div SlotsPerEpoch
StartSlot(e) == e * SlotsPerEpoch
EndSlot(e) == (e + 1) * SlotsPerEpoch - 1

\* Slot and Epoch subtraction saturates at zero.
SatSub(a, b) == IF a > b THEN a - b ELSE 0

LowerOf(x, y) == IF x < y THEN x ELSE y
HigherOf(x, y) == IF x < y THEN y ELSE x

FinSlot(b) == FinEpoch[b] * SlotsPerEpoch

(* BeaconState::get_block_root on a state of h at slot s: only slots in    *)
(* [s - HistLen, s) are readable, from the entry x % HistLen of the        *)
(* circular buffer, which holds the latest slot with that index.           *)
InHistory(s, x) == x < s /\ s <= x + HistLen

BufferRoot(h, s, x) ==
    LET y == CHOOSE y \in 0..s - 1 : s - HistLen <= y /\ y % HistLen = x % HistLen
    IN RootAt(h, y)

StateBlockRoot(h, s, x) == IF InHistory(s, x) THEN BufferRoot(h, s, x) ELSE NoRoot

GetBlockRoot(h, x) == StateBlockRoot(h, Slot[h], x)

(* The lowest slot state.rev_iter_block_roots yields.                      *)
IterBottom(h) == IF Slot[h] >= HistLen THEN Slot[h] - HistLen ELSE 0

(* Mutant: skip_while with >=, dropping the pair at the lowest slot.       *)
AlignedRootsSkipLowest(h, lowest) ==
    [k \in 1..(lowest - IterBottom(h)) |->
        LET x == lowest - k
        IN [slot |-> x, root |-> IF x = Slot[h] THEN h ELSE GetBlockRoot(h, x)]]

(* aligned_roots_iter!: (slot, root) of the state, then of its history,   *)
(* skipping while slot > lowest.                                           *)
AlignedRoots(h, lowest) ==
    [k \in 1..(lowest - IterBottom(h) + 1) |->
        LET x == lowest - k + 1
        IN [slot |-> x, root |-> IF x = Slot[h] THEN h ELSE GetBlockRoot(h, x)]]

(* The while loop over both iterators in lock-step.                        *)
RECURSIVE Walk(_, _, _, _)
Walk(news, olds, k, fallback) ==
    IF k > Len(news) \/ k > Len(olds) THEN [ok |-> TRUE, slot |-> fallback]
    ELSE IF news[k].slot # olds[k].slot THEN [ok |-> FALSE, slot |-> 0]
    ELSE IF news[k].root = olds[k].root THEN [ok |-> TRUE, slot |-> olds[k].slot]
    ELSE Walk(news, olds, k + 1, fallback)

(* find_reorg_slot(new_state, new_block_root) with old = the head.         *)
FindReorgSlot(new, old) ==
    LET lowest == LowerOf(Slot[new], Slot[old])
    IN Walk(AlignedRoots(new, lowest), AlignedRoots(old, lowest), 1, FinSlot(old))

(* The store's forwards block-roots iterator from a to b, ending at the   *)
(* head's slot.                                                            *)
ForwardsRoots(h, a, b) ==
    LET top == LowerOf(b, Slot[h])
    IN [k \in 1..(top - a + 1) |-> [slot |-> a + k - 1, root |-> RootAt(h, a + k - 1)]]

(* Mutant: the fast path returns the request root without comparing it    *)
(* with the previous slot's root.                                          *)
SkipsNoneNoPrevCheck(h, clock, req) ==
    IF req > clock THEN NoRoot
    ELSE IF req = 0 THEN Genesis
    ELSE LET prev == req - 1
             reqRoot == IF Slot[h] = req THEN h ELSE GetBlockRoot(h, req)
             fast == Slot[h] < req \/ (reqRoot # NoRoot /\ GetBlockRoot(h, prev) # NoRoot)
             it == ForwardsRoots(h, prev, req)
         IN IF fast THEN (IF Slot[h] < req THEN NoRoot ELSE reqRoot)
            ELSE IF Len(it) < 2 THEN NoRoot
            ELSE IF it[2].root # it[1].root THEN it[2].root ELSE NoRoot

(* block_root_at_slot_skips_none on head h with the wall clock at clock.  *)
SkipsNone(h, clock, req) ==
    IF req > clock THEN NoRoot
    ELSE IF req = 0 THEN Genesis
    ELSE LET prev == req - 1
             reqRoot == IF Slot[h] = req THEN h ELSE GetBlockRoot(h, req)
             fast == Slot[h] < req \/ (reqRoot # NoRoot /\ GetBlockRoot(h, prev) # NoRoot)
             fastRoot == IF Slot[h] < req \/ GetBlockRoot(h, prev) = reqRoot
                         THEN NoRoot ELSE reqRoot
             it == ForwardsRoots(h, prev, req)
         IN IF fast THEN fastRoot
            ELSE IF Len(it) < 2 THEN NoRoot
            ELSE IF it[2].root # it[1].root THEN it[2].root ELSE NoRoot

(* block_root_at_slot_skips_prev on head h with the wall clock at clock.  *)
SkipsPrev(h, clock, req) ==
    IF req > clock THEN NoRoot
    ELSE IF req = 0 THEN Genesis
    ELSE IF Slot[h] <= req THEN h
    ELSE IF GetBlockRoot(h, req) # NoRoot THEN GetBlockRoot(h, req)
    ELSE LET it == ForwardsRoots(h, req, req)
         IN IF Len(it) = 0 THEN NoRoot ELSE it[1].root

\* A state root, identified by the state it roots: the chain's latest
\* block at or before slot x, advanced through skipped slots to x.
StateOf(b, x) == [blk |-> b, slot |-> x]

(* BeaconState::get_state_root on a state of h at slot s: readable for x  *)
(* in [s - HistLen, s), from the entry x % HistLen of the state_roots      *)
(* buffer, which holds the latest slot with that index.                     *)
StateBufferRoot(h, s, x) ==
    LET y == CHOOSE y \in 0..s - 1 : s - HistLen <= y /\ y % HistLen = x % HistLen
    IN StateOf(RootAt(h, y), y)

(* The store's forwards state-roots iterator from a to b, ending at the    *)
(* head's slot: each slot's state, skipped slots advanced from their block. *)
ForwardsStateRoots(h, a, b) ==
    LET top == LowerOf(b, Slot[h])
    IN [k \in 1..(top - a + 1) |-> [slot |-> a + k - 1, root |-> StateOf(RootAt(h, a + k - 1), a + k - 1)]]

(* Mutant: the head state's state_roots entry is read without checking     *)
(* that the slot is inside its window.                                      *)
StateRootAtSlotNoWindowCheck(h, clock, req, gap) ==
    IF req > clock THEN NoRoot
    ELSE IF req = 0 THEN StateOf(Genesis, 0)
    ELSE IF gap[1] < req /\ req < gap[2] THEN NoRoot
    ELSE IF Slot[h] <= req THEN StateOf(h, Slot[h])
    ELSE StateBufferRoot(h, Slot[h], req)

(* state_root_at_slot on head h with the wall clock at clock; gap holds    *)
(* the store's historic state limits, between which no state is kept.      *)
(* The fast path returns the head state's root for a slot at or after the  *)
(* head block, else the head state's state_roots entry when the slot is    *)
(* in its window; otherwise the first item of the forwards iterator, which *)
(* must be at the requested slot (InconsistentForwardsIter).               *)
StateRootAtSlot(h, clock, req, gap) ==
    IF req > clock THEN NoRoot
    ELSE IF req = 0 THEN StateOf(Genesis, 0)
    ELSE IF gap[1] < req /\ req < gap[2] THEN NoRoot
    ELSE IF Slot[h] <= req THEN StateOf(h, Slot[h])
    ELSE IF InHistory(Slot[h], req) THEN StateBufferRoot(h, Slot[h], req)
    ELSE LET it == ForwardsStateRoots(h, req, req)
         IN IF Len(it) = 0 THEN NoRoot
            ELSE IF it[1].slot = req THEN it[1].root ELSE "InconsistentForwardsIter"

(***************************************************************************)
(* Shufflings.                                                             *)
(***************************************************************************)
\* The attester shuffling a state of chain x builds for epoch e
\* (build_committee_cache): its seed is the randao mix at the end of epoch
\* e - 1 - MIN_SEED_LOOKAHEAD, i.e. x's latest block at or before that slot.
Committee(x, e) ==
    [epoch |-> e,
     seed |-> IF e < 1 + MinSeedLookahead THEN Genesis
              ELSE RootAt(x, EndSlot(e - 1 - MinSeedLookahead))]

\* Blocks proto_array holds: FcRoot and its descendants.
FcBlocks == {b \in Blocks : RootAt(b, Slot[FcRoot]) = FcRoot}

\* Mutant: the ancestor search stops at a slot strictly before the pivot.
IterFindStrict(b, pivot) ==
    IF b \notin FcBlocks \/ pivot = 0 THEN NoRoot
    ELSE LET a == RootAt(b, pivot - 1) IN IF a \in FcBlocks THEN a ELSE NoRoot

\* iter_block_roots(b).find(slot <= pivot) over proto_array: the first
\* ancestor of b at or before the pivot, None once the walk leaves the
\* pruned tree or b is unknown.
IterFind(b, pivot) ==
    IF b \notin FcBlocks THEN NoRoot
    ELSE LET a == RootAt(b, pivot) IN IF a \in FcBlocks THEN a ELSE NoRoot

\* shuffling_is_compatible(b, e, state of h at slot s).
ShufflingIsCompatible(b, e, h, s) ==
    LET lookahead == 1 + MinSeedLookahead
        cur == EpochOf(s)
        prev == IF cur > 0 THEN cur - 1 ELSE cur
        pivot == EndSlot(SatSub(e, lookahead))
    IN IF cur < lookahead THEN TRUE
       ELSE IF e # prev /\ e # cur THEN FALSE
       ELSE /\ StateBlockRoot(h, s, pivot) # NoRoot
            /\ IterFind(b, pivot) # NoRoot
            /\ IterFind(b, pivot) = StateBlockRoot(h, s, pivot)

\* BlockShufflingIds::id_for_epoch of fork-choice block h: the current and
\* next epoch ids recorded at import (decision block at slot
\* start_slot(e - MIN_SEED_LOOKAHEAD) - 1 of h's state), h itself beyond.
IdForEpoch(h, e) ==
    LET he == EpochOf(Slot[h])
        decision == RootAt(h, SatSub(StartSlot(SatSub(e, MinSeedLookahead)), 1))
    IN IF e = he \/ e = he + 1 THEN [epoch |-> e, root |-> decision]
       ELSE IF e > he + 1 THEN [epoch |-> e, root |-> h]
       ELSE NoRoot

\* Mutant: the head state is used without comparing the head's root.
HeadStateForAnyHead(r) == {[blk |-> r.head, slot |-> Slot[r.head]]}

\* with_head: the head's state, if the head is the requested block.
HeadStateFor(r) ==
    IF r.head = r.blk THEN {[blk |-> r.head, slot |-> Slot[r.head]]} ELSE {}

\* Mutant: the loaded state is never advanced.
ShufflingStateNoAdvance(r) ==
    LET target == HigherOf(StartSlot(SatSub(r.epoch, 1)), Slot[r.blk])
    IN IF HeadStateFor(r) # {} THEN CHOOSE st \in HeadStateFor(r) : TRUE
       ELSE [blk |-> r.blk, slot |-> IF r.loaded = "block" THEN Slot[r.blk] ELSE target]

\* The head state or a state read from disk (get_advanced_state: the
\* block's own state or one advanced towards target_slot), then advanced
\* to target_slot if it is still two epochs short of the shuffling epoch.
ShufflingState(r) ==
    LET target == HigherOf(StartSlot(SatSub(r.epoch, 1)), Slot[r.blk])
        st == IF HeadStateFor(r) # {} THEN CHOOSE st \in HeadStateFor(r) : TRUE
              ELSE [blk |-> r.blk, slot |-> IF r.loaded = "block" THEN Slot[r.blk] ELSE target]
    IN IF EpochOf(st.slot) + 1 < r.epoch THEN [st EXCEPT !.slot = target] ELSE st

Err(reason) == [ok |-> FALSE, val |-> reason]

\* with_committee_cache(r.blk, r.epoch) with the shuffling cache in cache;
\* r.lock names the try_write_for that times out, if any.  The result and
\* the cache afterwards.
WithCommitteeCache(r, cache) ==
    LET id == IdForEpoch(r.blk, r.epoch)
        hits == {c \in cache : c.id = id}
        st == ShufflingState(r)
        cur == EpochOf(st.slot)
        c == Committee(st.blk, r.epoch)
    IN IF r.blk \notin FcBlocks THEN [res |-> Err("MissingBeaconBlock"), cache |-> cache]
       ELSE IF id = NoRoot THEN [res |-> Err("InvalidShufflingId"), cache |-> cache]
       ELSE IF r.lock = "first" THEN [res |-> Err("LockTimeout"), cache |-> cache]
       ELSE IF hits # {} THEN [res |-> [ok |-> TRUE, val |-> (CHOOSE h \in hits : TRUE).committee],
                               cache |-> cache]
       ELSE IF EpochOf(Slot[r.blk]) > r.epoch + 1
            THEN [res |-> Err("InvalidStateForShuffling"), cache |-> cache]
       ELSE IF r.epoch + 1 < cur \/ cur + 1 < r.epoch
            THEN [res |-> Err("IncorrectStateForAttestation"), cache |-> cache]
       ELSE IF r.lock = "second" THEN [res |-> Err("LockTimeout"), cache |-> cache]
       ELSE [res |-> [ok |-> TRUE, val |-> c], cache |-> cache \cup {[id |-> id, committee |-> c]}]

Ok(v) == [ok |-> TRUE, val |-> v]

(***************************************************************************)
(* Block production.  A state is named by its latest block and its slot.  *)
(***************************************************************************)
\* state_at_slot(x) on the head hd it reads: the head state, the head state
\* skipped forward (timeout: the skip loop overran its time budget), or the
\* canonical state at x found through the forwards state-roots iterator.
StateAtSlot(hd, x, timeout) ==
    IF x = Slot[hd] THEN Ok([blk |-> hd, slot |-> x])
    ELSE IF x > Slot[hd]
         THEN IF timeout THEN Err("StateSkipTooLarge") ELSE Ok([blk |-> hd, slot |-> x])
    ELSE Ok([blk |-> RootAt(hd, x), slot |-> x])

\* produce_block_on_state(st, s): the slot check, complete_state_advance to
\* s, the parent read from the advanced state's block roots, and the
\* header checks of per_block_processing (the block's slot is above the
\* latest header's, and its parent is that header).
ProduceBlockOnState(st, s) ==
    IF st.slot > s THEN Err("StateSlotTooHigh")
    ELSE LET parent == StateBlockRoot(st.blk, s, s - 1)
         IN IF Slot[st.blk] >= s \/ parent # st.blk THEN Err("BlockProcessing")
            ELSE Ok([parent |-> parent, slot |-> s])

\* Mutant: the state for a head past s is the canonical state at s itself.
ProduceBlockStateAtSlot(q) ==
    LET st == IF Slot[q.head] <= q.slot
              THEN Ok([blk |-> q.head, slot |-> q.slot])
              ELSE LET r == StateAtSlot(q.headNow, q.slot, q.timeout)
                   IN IF r.ok THEN r ELSE Err("UnableToProduceAtSlot")
    IN IF st.ok THEN ProduceBlockOnState(st.val, q.slot) ELSE st

\* produce_block_with_verification at slot s: head_info read as head, and
\* headNow the head that state_at_slot reads later.  A head at or before s
\* gives its state from get_advanced_state, a later head the state at s - 1.
ProduceBlock(q) ==
    LET st == IF Slot[q.head] <= q.slot
              THEN Ok([blk |-> q.head, slot |-> q.slot])
              ELSE LET r == StateAtSlot(q.headNow, q.slot - 1, q.timeout)
                   IN IF r.ok THEN r ELSE Err("UnableToProduceAtSlot")
    IN IF st.ok THEN ProduceBlockOnState(st.val, q.slot) ELSE st

(***************************************************************************)
(* The weak subjectivity checkpoint.                                       *)
(***************************************************************************)
\* The finalized checkpoint of b's post-state: its epoch and the root its
\* chain holds at the epoch's start slot.
FinCheckpoint(b) == [epoch |-> FinEpoch[b], root |-> RootAt(b, FinSlot(b))]

\* root_at_slot_from_state(target, b, state of b at slot s): (b, s), then the
\* state's block roots back through the store, searched for the target slot.
RootAtSlotFromState(target, b, s) == IF target > s THEN NoRoot ELSE RootAt(b, target)

\* verify_weak_subjectivity_checkpoint(ws, b, b's post-state).
VerifyWsCheckpoint(ws, b) ==
    LET fin == FinCheckpoint(b)
        root == RootAtSlotFromState(StartSlot(ws.epoch), b, Slot[b])
    IN IF ws.epoch = fin.epoch /\ ws.root # fin.root THEN FALSE
       ELSE IF ws.epoch < fin.epoch THEN root # NoRoot /\ root = ws.root
       ELSE TRUE

\* Mutant: the check runs only when the block finalizes past the WS epoch.
ImportWsGateStrict(q) ==
    IF q.oldFin < q.ws.epoch /\ q.ws.epoch < FinEpoch[q.blk] /\ ~VerifyWsCheckpoint(q.ws, q.blk)
    THEN "shutdown" ELSE "import"

\* import_block's weak subjectivity step, with the store's finalized epoch
\* oldFin: the check runs once, for the block whose post-state first
\* finalizes the WS epoch; a failure requests a shutdown and rejects it.
ImportWsGate(q) ==
    IF q.oldFin < q.ws.epoch /\ q.ws.epoch <= FinEpoch[q.blk] /\ ~VerifyWsCheckpoint(q.ws, q.blk)
    THEN "shutdown" ELSE "import"

-----------------------------------------------------------------------------
(* One query per behaviour: a re-org between two heads (the new one agrees *)
(* with the old head's finalized checkpoint, as get_head guarantees), a    *)
(* root lookup at a head with a wall clock, a shuffling-compatibility      *)
(* check of an attestation against a state at its current or previous     *)
(* epoch (the op pool asks for no other), or two with_committee_cache      *)
(* requests sharing the shuffling cache, the first filling it.             *)
ReorgQueries ==
    UNION {{[kind |-> "reorg", old |-> o, new |-> n] :
              n \in {b \in Blocks \ {o} : RootAt(b, FinSlot(o)) = RootAt(o, FinSlot(o))}} :
           o \in Blocks}

RootQueries ==
    {q \in [kind : {"root"}, old : Blocks, clock : 0..MaxClock, req : 0..MaxClock + 1] :
        q.clock >= Slot[q.old]}

\* A state-root lookup at a head with a wall clock and a historic gap.
StateRootQueries ==
    {q \in [kind : {"stateRoot"}, head : Blocks, clock : 0..MaxClock, req : 0..MaxClock + 1,
            gap : (0..MaxClock) \X (0..MaxClock)] :
        q.clock >= Slot[q.head] /\ q.gap[1] <= q.gap[2]}

ShufflingQueries ==
    {q \in [kind : {"shuffling"}, blk : Blocks, epoch : 0..MaxEpoch,
            stBlk : Blocks, stSlot : 0..MaxClock] :
        /\ q.stSlot >= Slot[q.stBlk]
        /\ q.epoch \in {EpochOf(q.stSlot), SatSub(EpochOf(q.stSlot), 1)}}

Requests ==
    {r \in [blk : Blocks, epoch : 0..MaxEpoch, head : Blocks,
            lock : {"none", "first", "second"}, loaded : {"block", "target"}] :
        r.head \in Heads \cup {r.blk}}

CommitteeQueries ==
    {[kind |-> "committee", reqs |-> <<r1, r2>>] :
        r1 \in {r \in Requests : r.lock = "none" /\ r.head = r.blk /\ r.loaded = "block"},
        r2 \in Requests}

\* A block production at a slot after genesis; the head may change (to
\* another canonical head) between head_info and state_at_slot.
ProduceQueries ==
    {q \in [kind : {"produce"}, head : Blocks, headNow : Blocks,
            slot : 1..MaxClock, timeout : BOOLEAN] :
        q.headNow \in Heads \cup {q.head}}

\* A block past the finalized-descendant check, the store's finalized
\* epoch before it, and a configured WS checkpoint.
WsQueries ==
    [kind : {"ws"}, blk : Blocks \ {Genesis}, oldFin : 0..MaxEpoch,
     ws : [epoch : 1..MaxEpoch, root : Blocks]]

Queries == ReorgQueries \cup RootQueries \cup ShufflingQueries \cup CommitteeQueries
           \cup ProduceQueries \cup WsQueries \cup StateRootQueries

VARIABLES query, reorg, byNone, byPrev, compat, cache, results, produced, wsRes, stRoot

vars == <<query, reorg, byNone, byPrev, compat, cache, results, produced, wsRes, stRoot>>

Init ==
    /\ query \in Queries
    /\ reorg = {} /\ byNone = {} /\ byPrev = {} /\ compat = {}
    /\ cache = {} /\ results = <<>> /\ produced = {} /\ wsRes = {} /\ stRoot = {}

FindReorg ==
    /\ query.kind = "reorg" /\ reorg = {}
    /\ reorg' = {FindReorgSlot(query.new, query.old)}
    /\ UNCHANGED <<query, byNone, byPrev, compat, cache, results, produced, wsRes, stRoot>>

LookupSkipsNone ==
    /\ query.kind = "root" /\ byNone = {}
    /\ byNone' = {SkipsNone(query.old, query.clock, query.req)}
    /\ UNCHANGED <<query, reorg, byPrev, compat, cache, results, produced, wsRes, stRoot>>

LookupSkipsPrev ==
    /\ query.kind = "root" /\ byPrev = {}
    /\ byPrev' = {SkipsPrev(query.old, query.clock, query.req)}
    /\ UNCHANGED <<query, reorg, byNone, compat, cache, results, produced, wsRes, stRoot>>

\* filter_op_pool_attestation: a memoised shuffling_is_compatible.
CheckShuffling ==
    /\ query.kind = "shuffling" /\ compat = {}
    /\ compat' = {ShufflingIsCompatible(query.blk, query.epoch, query.stBlk, query.stSlot)}
    /\ UNCHANGED <<query, reorg, byNone, byPrev, cache, results, produced, wsRes, stRoot>>

CommitteeRequest ==
    /\ query.kind = "committee" /\ Len(results) < Len(query.reqs)
    /\ LET out == WithCommitteeCache(query.reqs[Len(results) + 1], cache)
       IN results' = Append(results, out.res) /\ cache' = out.cache
    /\ UNCHANGED <<query, reorg, byNone, byPrev, compat, produced, wsRes, stRoot>>

ProduceBlockRequest ==
    /\ query.kind = "produce" /\ produced = {}
    /\ produced' = {ProduceBlock(query)}
    /\ UNCHANGED <<query, reorg, byNone, byPrev, compat, cache, results, wsRes, stRoot>>

ImportWsCheck ==
    /\ query.kind = "ws" /\ wsRes = {}
    /\ wsRes' = {ImportWsGate(query)}
    /\ UNCHANGED <<query, reorg, byNone, byPrev, compat, cache, results, produced, stRoot>>

StateRootLookup ==
    /\ query.kind = "stateRoot" /\ stRoot = {}
    /\ stRoot' = {StateRootAtSlot(query.head, query.clock, query.req, query.gap)}
    /\ UNCHANGED <<query, reorg, byNone, byPrev, compat, cache, results, produced, wsRes>>

Done ==
    /\ \/ reorg # {}
       \/ wsRes # {}
       \/ stRoot # {}
       \/ produced # {}
       \/ byNone # {} /\ byPrev # {}
       \/ compat # {}
       \/ query.kind = "committee" /\ Len(results) = Len(query.reqs)
    /\ UNCHANGED vars

Next ==
    FindReorg \/ LookupSkipsNone \/ LookupSkipsPrev \/ CheckShuffling \/ CommitteeRequest
    \/ ProduceBlockRequest \/ ImportWsCheck \/ StateRootLookup \/ Done

Spec == Init /\ [][Next]_vars

-----------------------------------------------------------------------------
(* Reference: the highest slot at which both chains hold the same root.    *)
AgreeSlot(a, b) ==
    LET S == {x \in 0..LowerOf(Slot[a], Slot[b]) : RootAt(a, x) = RootAt(b, x)}
    IN CHOOSE x \in S : \A y \in S : y <= x

(* find_reorg_slot returns the highest slot at which the old and the new   *)
(* chain agree whenever that slot lies in both states' block-roots         *)
(* windows, and the old head's finalized start slot otherwise; its sanity  *)
(* error (misaligned iterators) never happens.                             *)
ReorgSlotExact ==
    reorg # {} =>
        LET old == query.old
            new == query.new
        IN reorg = {[ok |-> TRUE,
                     slot |-> IF AgreeSlot(new, old) >= HigherOf(IterBottom(new), IterBottom(old))
                              THEN AgreeSlot(new, old) ELSE FinSlot(old)]}

(* Both block_root_at_slot variants, whichever of the fast path (the head  *)
(* state's circular buffer) or the slow path (the store's forwards         *)
(* iterator) they take, return the canonical root at the slot: the block   *)
(* at exactly that slot or None for skips_none, the latest block at or     *)
(* before it for skips_prev, and None past the wall clock.                 *)
BlockRootAtSlotCorrect ==
    LET old == query.old
        req == query.req
        clock == query.clock
    IN /\ byNone # {} =>
             byNone = {IF req > clock \/ req > Slot[old] \/ Slot[RootAt(old, req)] # req
                       THEN NoRoot ELSE RootAt(old, req)}
       /\ byPrev # {} =>
             byPrev = {IF req > clock THEN NoRoot ELSE RootAt(old, req)}

(* spec.md: with a common ancestor at slot S inside the window, the re-org *)
(* depth reported (old head slot minus find_reorg_slot) is head_slot - S.  *)
ReorgDepthFromAncestor ==
    LET old == query.old
        new == query.new
        ca == RootAt(old, AgreeSlot(new, old))
    IN reorg # {} /\ Slot[ca] >= HigherOf(IterBottom(new), IterBottom(old)) =>
          \A r \in reorg : Slot[old] - r.slot = Slot[old] - Slot[ca]

(* shuffling_is_compatible never admits an attestation whose shuffling    *)
(* differs from the state's (the seed blocks of the two chains differ),    *)
(* and it admits every attestation of a shuffling epoch past the lookahead *)
(* whose seed block is in the state's block-roots window and in fork       *)
(* choice and agrees with the state's: the pivot slot is exactly the seed  *)
(* slot, and the ancestor search lands on the block at that slot.          *)
ShufflingCompatibleCorrect ==
    compat # {} =>
        LET b == query.blk
            e == query.epoch
            sameSeed == Committee(b, e).seed = Committee(query.stBlk, e).seed
            pivot == EndSlot(SatSub(e, 1 + MinSeedLookahead))
        IN /\ TRUE \in compat => sameSeed
           /\ (/\ sameSeed /\ e >= 1 + MinSeedLookahead
               /\ InHistory(query.stSlot, pivot)
               /\ b \in FcBlocks /\ RootAt(b, pivot) \in FcBlocks) => TRUE \in compat

(* Every committee with_committee_cache hands out, from the shuffling      *)
(* cache filled by an earlier request or from a state it loaded or the    *)
(* head's, is the shuffling of the requested block's own chain at the     *)
(* requested epoch.                                                        *)
CommitteeMatchesChain ==
    \A i \in 1..Len(results) :
        results[i].ok => results[i].val = Committee(query.reqs[i].blk, query.reqs[i].epoch)

(* with_committee_cache serves every request for a fork-choice block with  *)
(* a shuffling id whose state is not more than one epoch past the          *)
(* shuffling epoch, unless a cache lock times out: the state it picks is   *)
(* advanced far enough and never too far.                                  *)
CommitteeServed ==
    \A i \in 1..Len(results) :
        LET r == query.reqs[i]
        IN (/\ r.blk \in FcBlocks /\ IdForEpoch(r.blk, r.epoch) # NoRoot
            /\ r.lock = "none" /\ EpochOf(Slot[r.blk]) <= r.epoch + 1) => results[i].ok


(* Block production at slot s builds on the latest block before s on the   *)
(* chain of a head the node held (the one head_info read, or the one       *)
(* state_at_slot read after a head change), and it succeeds unless a       *)
(* forward skip overruns its time budget or the head is already at s: the  *)
(* state chosen for it, from the head or from the canonical chain at       *)
(* s - 1, always passes the slot and header checks.                        *)
ProducedOnHeadChain ==
    \A r \in produced :
        LET s == query.slot
        IN /\ r.ok => r.val.parent \in {RootAt(query.head, s - 1), RootAt(query.headNow, s - 1)}
           /\ (~query.timeout /\ Slot[query.head] # s) => r.ok


(* The weak subjectivity check at import: a block whose post-state first   *)
(* carries finality from below the WS epoch to at or past it is imported   *)
(* only if its chain holds the WS root at the WS epoch's start slot (the   *)
(* node never finalizes past a conflicting WS checkpoint), and a shutdown  *)
(* is requested only for a block whose chain really conflicts with it,     *)
(* whether the epochs match or the root is found by walking back.          *)
WsCheckpointEnforced ==
    \A r \in wsRes :
        LET q == query
            agrees == RootAt(q.blk, StartSlot(q.ws.epoch)) = q.ws.root
        IN /\ r = "shutdown" => ~agrees
           /\ (r = "import" /\ q.oldFin < q.ws.epoch /\ q.ws.epoch <= FinEpoch[q.blk]) => agrees


(* For a slot at or before the head's, state_root_at_slot returns the     *)
(* root of the canonical state at that slot, whichever path serves it      *)
(* (genesis, the head state, the circular state_roots window or the        *)
(* store's forwards iterator), and None strictly inside the store's        *)
(* historic gap; the iterator's sanity error never fires                   *)
(* (the "Only returns state roots in the canonical chain" doc comment).    *)
(* A slot after the head is excluded: its fast path returns the head       *)
(* block's own state root, not the advanced state's (see the README).      *)
StateRootAtSlotCorrect ==
    LET h == query.head
        req == query.req
    IN stRoot # {} /\ req <= Slot[h] =>
          stRoot = {IF req > 0 /\ query.gap[1] < req /\ req < query.gap[2]
                    THEN NoRoot ELSE StateOf(RootAt(h, req), req)}

=============================================================================
