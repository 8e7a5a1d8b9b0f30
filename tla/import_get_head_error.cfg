\* B is invalid and C justifies B, with one more fork_choice run: an import after the justified block is invalidated.
CONSTANTS
    G = G  A = A  B = B  C = C  D = D  E = E
    Blocks <- MCBlocks
    Genesis = G
    Parent <- MCParent
    Slot <- MCSlot
    JustCp <- MCJustCp
    FinCp <- MCFinCpNone
    PayloadInvalid = {B}
    SlotsPerEpoch = 2
    Importers = {i1}
    Runners = {r1}
    Preparers = {p1}
    NoThread = NoThread  NoBlock = NoBlock  NoParams = NoParams
    MaxImports = 4
    MaxRuns = 3
    MaxDbFails = 1
    Attesters = {}
    MaxAtts = 0
    MaxRestarts = 0
    ImportCanAbort = FALSE
    HeadLockCanTimeout = FALSE
SPECIFICATION Spec
INVARIANT ForkChoiceBlocksStored
