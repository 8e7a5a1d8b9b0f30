\* find_reorg_slot, block_root_at_slot, shuffling_is_compatible, with_committee_cache, block production and the weak subjectivity check against references
CONSTANTS
    G = G  A = A  B = B  C = C  D = D  E = E  F = F  K = K  H = H  J = J
    NoRoot = NoRoot
    Blocks <- MCBlocks
    Genesis = G
    Parent <- MCParent
    Slot <- MCSlot
    FinEpoch <- MCFinEpoch
    SlotsPerEpoch = 2
    HistLen = 3
    MaxClock = 7
    MinSeedLookahead = 1
    MaxEpoch = 3
    FcRoot = A
    Heads = {D, F}
SPECIFICATION Spec
INVARIANT ReorgSlotExact
INVARIANT BlockRootAtSlotCorrect
INVARIANT ShufflingCompatibleCorrect
INVARIANT CommitteeMatchesChain
INVARIANT CommitteeServed
INVARIANT ProducedOnHeadChain
INVARIANT WsCheckpointEnforced
INVARIANT StateRootAtSlotCorrect
