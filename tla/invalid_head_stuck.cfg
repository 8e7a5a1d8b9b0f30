\* As liveness: the head on C when C, the only block carrying the justification of B, is invalidated.
CONSTANTS
    G = G  A = A  B = B  C = C  D = D  E = E
    Blocks <- MCBlocks
    Genesis = G
    Parent <- MCParent
    Slot <- MCSlot
    JustCp <- MCJustCp
    FinCp <- MCFinCpNone
    PayloadInvalid = {B}
    SlotsPerEpoch = 2
    Importers = {i1}
    Runners = {r1}
    Preparers = {p1}
    NoThread = NoThread  NoBlock = NoBlock  NoParams = NoParams
    MaxImports = 3
    MaxRuns = 2
    MaxDbFails = 0
    Attesters = {}
    MaxAtts = 0
    MaxRestarts = 0
    ImportCanAbort = FALSE
    HeadLockCanTimeout = FALSE
SPECIFICATION FairSpec
PROPERTY InvalidHeadReplaced
