---------------------------- MODULE ChainSegment ----------------------------
(***************************************************************************)
(* Batch import of a chain segment (BeaconChain::process_chain_segment,    *)
(* beacon_chain.rs l. 2254-2391), racing single-block imports from gossip  *)
(* (process_block, l. 2448-2503).                                          *)
(*                                                                         *)
(* The segment thread runs the code's three phases: a filter loop over the *)
(* segment (linearity checks, then the relevancy check of each block), the *)
(* split of the filtered blocks into per-epoch batches, the signature      *)
(* check of a batch and the import of its blocks one by one.  A block is   *)
(* its root; importing it puts it into the chain (fork choice and the      *)
(* database, whose split is the subject of ChainHead).  The gossip thread  *)
(* imports any importable block between any two steps of the segment      *)
(* thread, since the code holds no lock across those steps.                *)
(***************************************************************************)
EXTENDS Naturals, Sequences, SequencesExt, FiniteSets

CONSTANTS
    Blocks,         \* block roots
    Parent,         \* Parent[b]: parent_root of block b
    Slot,           \* Slot[b]: slot of block b
    SlotsPerEpoch,
    CurrentSlot,    \* the wall-clock slot while the segment is processed
    FinSlot,        \* start slot of the finalized epoch
    Segments,       \* the segments sync may hand over
    InitChains,     \* the sets of blocks the chain may hold at the start
    SigCandidates,  \* blocks whose signature may be invalid
    BadCandidates,  \* blocks that may fail full verification
    WrongFork,      \* blocks whose encoding is not the fork of their slot
    MaxGossip       \* bound on concurrent single-block imports

ASSUME /\ \A b \in Blocks : Slot[b] \in Nat
       /\ \A b \in Blocks : Slot[b] > 0 => Parent[b] \in Blocks
       /\ SlotsPerEpoch \in Nat \ {0}
       /\ Segments \subseteq Seq(Blocks)
       /\ MaxGossip \in Nat

VARIABLES
    chain,      \* blocks imported into fork choice and the store
    seg,        \* the chain_segment argument
    sigBad,     \* blocks of the segment whose signature is invalid
    blockBad,   \* blocks that fail into_fully_verified_block
    chain0,     \* the chain when the call began (history, for the reference)
    spc,        \* the segment thread's phase
    i,          \* index of the filter loop
    filtered,   \* filtered_chain_segment
    batch,      \* blocks of the current epoch batch still to import
    imported,   \* imported_blocks, the count the call reports
    result,     \* "running", "Successful" or "Failed"
    mine,       \* history: blocks imported by this call, in order
    gossips     \* number of gossip imports so far

vars == <<chain, seg, sigBad, blockBad, chain0, spc, i, filtered, batch,
          imported, result, mine, gossips>>

EpochOf(s) == s \div SlotsPerEpoch

(* check_block_relevancy: the checks in the order the code makes them.    *)
Relevancy(b, known) ==
    IF Slot[b] > CurrentSlot THEN "FutureSlot"
    ELSE IF Slot[b] = 0 THEN "GenesisBlock"
    ELSE IF Slot[b] <= FinSlot THEN "WouldRevertFinalizedSlot"
    ELSE IF b \in known THEN "BlockIsAlreadyKnown"
    ELSE "Ok"

(* Errors of check_block_relevancy that the filter loop skips over.       *)
Skipped == {"GenesisBlock", "WouldRevertFinalizedSlot", "BlockIsAlreadyKnown"}

(* process_block succeeds: the block is new, its parent is in the chain   *)
(* and it passes full verification (state transition, payload).           *)
ProcessOk(b, known, bad) ==
    /\ b \notin known
    /\ Parent[b] \in known
    /\ b \notin bad

(* A block gossip may import on its own: it passes every check.           *)
GossipImportable(b) ==
    /\ ProcessOk(b, chain, blockBad)
    /\ b \notin sigBad
    /\ Relevancy(b, chain) = "Ok"

TypeOK ==
    /\ chain \subseteq Blocks
    /\ seg \in Segments
    /\ spc \in {"filter", "batch", "verify", "import", "done"}
    /\ i \in 1..Len(seg)
    /\ filtered \in Seq(Blocks)
    /\ batch \in Seq(Blocks)
    /\ imported \in 0..Len(seg)
    /\ result \in {"running", "Successful", "Failed"}
    /\ gossips \in 0..MaxGossip

Init ==
    /\ chain \in InitChains
    /\ chain0 = chain
    /\ seg \in Segments
    /\ sigBad \in SUBSET SigCandidates
    /\ blockBad \in SUBSET BadCandidates
    /\ spc = "filter"
    /\ i = 1
    /\ filtered = <<>>
    /\ batch = <<>>
    /\ imported = 0
    /\ result = "running"
    /\ mine = <<>>
    /\ gossips = 0

Fail ==
    /\ spc' = "done"
    /\ result' = "Failed"

(* After the filter loop's body: the next block, or the batch phase.      *)
NextFilter ==
    IF i < Len(seg) THEN i' = i + 1 /\ UNCHANGED spc
    ELSE spc' = "batch" /\ UNCHANGED i

(* The block at i has the wrong fork (InconsistentFork), or it has a      *)
(* child in the segment that does not link to it (NonLinearParentRoots,   *)
(* NonLinearSlots): the call fails before it imports anything more.       *)
FilterReject ==
    /\ spc = "filter"
    /\ \/ seg[i] \in WrongFork
       \/ /\ i < Len(seg)
          /\ \/ Parent[seg[i + 1]] # seg[i]
             \/ Slot[seg[i + 1]] <= Slot[seg[i]]
    /\ Fail
    /\ UNCHANGED <<chain, seg, sigBad, blockBad, chain0, i, filtered, batch,
                   imported, mine, gossips>>

FilterLinear ==
    /\ seg[i] \notin WrongFork
    /\ i < Len(seg) => /\ Parent[seg[i + 1]] = seg[i]
                       /\ Slot[seg[i + 1]] > Slot[seg[i]]

(* The block is relevant and is kept.                                     *)
FilterKeep ==
    /\ spc = "filter"
    /\ FilterLinear
    /\ Relevancy(seg[i], chain) = "Ok"
    /\ filtered' = Append(filtered, seg[i])
    /\ NextFilter
    /\ UNCHANGED <<chain, seg, sigBad, blockBad, chain0, batch, imported,
                   result, mine, gossips>>

(* Mutant: the skip written as `break`.                                   *)
FilterSkipBreaks ==
    /\ spc = "filter"
    /\ FilterLinear
    /\ Relevancy(seg[i], chain) \in Skipped
    /\ spc' = "batch"
    /\ UNCHANGED <<chain, seg, sigBad, blockBad, chain0, i, filtered, batch,
                   imported, result, mine, gossips>>

(* Already known, genesis, or at a finalized slot: `continue`.            *)
FilterSkip ==
    /\ spc = "filter"
    /\ FilterLinear
    /\ Relevancy(seg[i], chain) \in Skipped
    /\ NextFilter
    /\ UNCHANGED <<chain, seg, sigBad, blockBad, chain0, filtered, batch,
                   imported, result, mine, gossips>>

(* Any other relevancy error (a future slot): `break`, dropping this      *)
(* block and the rest of the segment.                                     *)
FilterBreak ==
    /\ spc = "filter"
    /\ FilterLinear
    /\ Relevancy(seg[i], chain) \notin Skipped \cup {"Ok"}
    /\ spc' = "batch"
    /\ UNCHANGED <<chain, seg, sigBad, blockBad, chain0, i, filtered, batch,
                   imported, result, mine, gossips>>

(* Mutant: the batch ends at, not before, the first later-epoch block.    *)
LastIndexPastEpoch(f) ==
    LET later == SelectInSeq(f, LAMBDA b : EpochOf(Slot[b]) > EpochOf(Slot[f[1]]))
    IN IF later = 0 THEN Len(f) ELSE later

(* The position of the first block of a later epoch than the first one,   *)
(* or the length: `last_index`.                                           *)
LastIndex(f) ==
    LET later == SelectInSeq(f, LAMBDA b : EpochOf(Slot[b]) > EpochOf(Slot[f[1]]))
    IN IF later = 0 THEN Len(f) ELSE later - 1

(* The `while let` head: split off the next epoch batch, or succeed.      *)
SplitBatch ==
    /\ spc = "batch"
    /\ IF filtered = <<>>
       THEN /\ spc' = "done"
            /\ result' = "Successful"
            /\ UNCHANGED <<filtered, batch>>
       ELSE /\ batch' = SubSeq(filtered, 1, LastIndex(filtered))
            /\ filtered' = SubSeq(filtered, LastIndex(filtered) + 1, Len(filtered))
            /\ spc' = "verify"
            /\ UNCHANGED result
    /\ UNCHANGED <<chain, seg, sigBad, blockBad, chain0, i, imported, mine,
                   gossips>>

(* signature_verify_chain_segment: one invalid signature fails the batch. *)
VerifyBatch ==
    /\ spc = "verify"
    /\ IF \E k \in 1..Len(batch) : batch[k] \in sigBad
       THEN Fail
       ELSE spc' = "import" /\ UNCHANGED result
    /\ UNCHANGED <<chain, seg, sigBad, blockBad, chain0, i, filtered, batch,
                   imported, mine, gossips>>

(* process_block on the next block of the batch; on error the call        *)
(* returns Failed with the count so far.                                  *)
ImportNext ==
    /\ spc = "import"
    /\ LET b == Head(batch) IN
       IF ProcessOk(b, chain, blockBad)
       THEN /\ chain' = chain \cup {b}
            /\ imported' = imported + 1
            /\ mine' = Append(mine, b)
            /\ batch' = Tail(batch)
            /\ spc' = IF Tail(batch) = <<>> THEN "batch" ELSE "import"
            /\ UNCHANGED result
       ELSE /\ Fail
            /\ UNCHANGED <<chain, imported, mine, batch>>
    /\ UNCHANGED <<seg, sigBad, blockBad, chain0, i, filtered, gossips>>

(* Another thread imports a block from gossip (process_block).            *)
GossipImport ==
    /\ gossips < MaxGossip
    /\ \E b \in Blocks :
          /\ GossipImportable(b)
          /\ chain' = chain \cup {b}
    /\ gossips' = gossips + 1
    /\ UNCHANGED <<seg, sigBad, blockBad, chain0, spc, i, filtered, batch,
                   imported, result, mine>>

Terminating ==
    /\ spc = "done"
    /\ UNCHANGED vars

Next ==
    \/ FilterReject \/ FilterKeep \/ FilterSkip \/ FilterBreak
    \/ SplitBatch \/ VerifyBatch \/ ImportNext
    \/ GossipImport
    \/ Terminating

Spec == Init /\ [][Next]_vars

-----------------------------------------------------------------------------
(* The segment links each block to the one before it with rising slots.   *)
Linear(s) ==
    \A k \in 1..Len(s) - 1 : Parent[s[k + 1]] = s[k] /\ Slot[s[k + 1]] > Slot[s[k]]

(* The segment up to its first block from the future.                     *)
BeforeFuture(s) ==
    LET f == SelectInSeq(s, LAMBDA b : Slot[b] > CurrentSlot)
    IN IF f = 0 THEN s ELSE SubSeq(s, 1, f - 1)

(* Reference for a call that no other import races with, stated from      *)
(* spec.md rather than from the loop: of the relevant blocks R, the call   *)
(* imports the longest prefix whose blocks each pass verification on top   *)
(* of what came before, provided no block of an epoch it reaches carries   *)
(* an invalid signature (signatures are checked per epoch batch).          *)
RefRelevant == SelectSeq(BeforeFuture(seg), LAMBDA b : Relevancy(b, chain0) = "Ok")

RefGood(k) ==
    LET R == RefRelevant
    IN ProcessOk(R[k], chain0 \cup ToSet(SubSeq(R, 1, k - 1)), blockBad)

RefSigsOk(m) ==
    LET R == RefRelevant
    IN \A j \in 1..Len(R) :
          EpochOf(Slot[R[j]]) <= EpochOf(Slot[R[m]]) => R[j] \notin sigBad

RefCount ==
    LET ok == {m \in 0..Len(RefRelevant) :
                 /\ \A k \in 1..m : RefGood(k)
                 /\ m > 0 => RefSigsOk(m)}
    IN CHOOSE m \in ok : \A n \in ok : n <= m

(* A call on a linear segment that no gossip import races with imports    *)
(* exactly the reference prefix, in order, and reports its length as      *)
(* imported_blocks (process_chain_segment's filter, batch split,          *)
(* signature check and import loop together).                             *)
SegmentMatchesReference ==
    spc = "done" /\ Linear(seg) /\ gossips = 0 =>
        /\ mine = SubSeq(RefRelevant, 1, RefCount)
        /\ imported = RefCount

(* A call that returns Successful leaves every block of the segment up to *)
(* its first future block in the chain, unless it is at a finalized slot, *)
(* even when gossip imports race with it (the relevancy filter reads the  *)
(* chain long before process_block runs).                                 *)
SegmentSuccessComplete ==
    result = "Successful" =>
        \A b \in ToSet(BeforeFuture(seg)) : Slot[b] > FinSlot => b \in chain

(* spec.md: linearity is validated structurally and a non-linear segment  *)
(* is rejected without importing anything.                                *)
NonLinearNothingImported ==
    spc = "done" /\ ~Linear(seg) => mine = <<>>

=============================================================================
