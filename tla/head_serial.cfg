\* One fork_choice runner; C and E finalize B; failed database writes reload fork choice; one crash or clean restart.
CONSTANTS
    G = G  A = A  B = B  C = C  D = D  E = E
    Blocks <- MCBlocksE
    Genesis = G
    Parent <- MCParent
    Slot <- MCSlot
    JustCp <- MCJustCp
    FinCp <- MCFinCp
    PayloadInvalid = {}
    SlotsPerEpoch = 2
    Importers = {i1}
    Runners = {r1}
    Preparers = {}
    NoThread = NoThread  NoBlock = NoBlock  NoParams = NoParams
    MaxImports = 4
    MaxRuns = 3
    MaxDbFails = 1
    Attesters = {}
    MaxAtts = 0
    MaxRestarts = 1
    ImportCanAbort = FALSE
    HeadLockCanTimeout = FALSE
SPECIFICATION Spec
PROPERTY HeadChainRefined
INVARIANT ForkChoiceBlocksStored
INVARIANT PersistedForkChoiceStored
