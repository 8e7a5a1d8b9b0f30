\* process_chain_segment over chains with finalized slot 2, racing up to two gossip imports; F is on the wrong fork.
CONSTANTS
    G = G  A = A  B = B  C = C  D = D  F = F  H = H  X = X  Y = Y
    Blocks <- MCBlocks
    Parent <- MCParent
    Slot <- MCSlot
    Segments <- MCSegments
    InitChains <- MCChainsFinal
    SlotsPerEpoch = 2
    CurrentSlot = 4
    FinSlot = 2
    SigCandidates = {C, D}
    BadCandidates = {B, D}
    MaxGossip = 2
    WrongFork = {F}
SPECIFICATION Spec
INVARIANT SegmentMatchesReference SegmentSuccessComplete
