\* find_reorg_slot and block_root_at_slot against their references
CONSTANTS
    G = G  A = A  B = B  C = C  D = D  E = E  F = F  K = K  H = H  J = J
    NoRoot = NoRoot
    Blocks <- MCBlocks
    Genesis = G
    Parent <- MCParent
    Slot <- MCSlot
    FinEpoch <- MCFinEpoch
    SlotsPerEpoch = 2
    HistLen = 3
    MaxClock = 7
    MinSeedLookahead = 1
    MaxEpoch = 3
    FcRoot = A
    Heads = {D, F}
SPECIFICATION Spec
INVARIANT ReorgDepthFromAncestor
