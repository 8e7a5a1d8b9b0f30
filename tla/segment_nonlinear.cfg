\* process_chain_segment: nonlinear
CONSTANTS
    G = G  A = A  B = B  C = C  D = D  F = F  H = H  X = X  Y = Y
    Blocks <- MCBlocks
    Parent <- MCParent
    Slot <- MCSlot
    Segments <- MCSegments
    InitChains <- MCChainsEarly
    SlotsPerEpoch = 2
    CurrentSlot = 4
    FinSlot = 0
    SigCandidates = {C, D}
    BadCandidates = {B, D}
    MaxGossip = 0
    WrongFork = {}
SPECIFICATION Spec
INVARIANT NonLinearNothingImported
