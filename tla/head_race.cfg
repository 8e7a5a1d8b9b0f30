\* Two fork_choice runners; C finalizes B.
CONSTANTS
    G = G  A = A  B = B  C = C  D = D  E = E
    Blocks <- MCBlocksE
    Genesis = G
    Parent <- MCParent
    Slot <- MCSlot
    JustCp <- MCJustCp
    FinCp <- MCFinCp
    PayloadInvalid = {}
    SlotsPerEpoch = 2
    Importers = {i1}
    Runners = {r1, r2}
    Preparers = {}
    NoThread = NoThread  NoBlock = NoBlock  NoParams = NoParams
    MaxImports = 4
    MaxRuns = 3
    MaxDbFails = 1
    Attesters = {}
    MaxAtts = 0
    MaxRestarts = 0
    ImportCanAbort = FALSE
    HeadLockCanTimeout = FALSE
SPECIFICATION Spec
PROPERTY HeadFinalizedMonotone
