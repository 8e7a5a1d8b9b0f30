\* Two proposer preparations racing head swaps over a fork, with the clock running to slot 5.
CONSTANTS
    G = G  A = A  B = B  C = C  D = D
    NoBlock = NoBlock
    Blocks <- MCBlocks
    Genesis = G
    Parent <- MCParent
    Slot <- MCSlot
    SlotsPerEpoch = 2
    HistoricEpochs = 4
    Connected <- MCConnected
    Preparers = {p1, p2}
    MaxSlot = 5
    MaxStarts = 3
    MaxHeadChanges = 2
SPECIFICATION Spec
INVARIANT PreparedProposerCorrect
INVARIANT AbandonOnlyOnHeadChange
SYMMETRY PreparerSymmetry
