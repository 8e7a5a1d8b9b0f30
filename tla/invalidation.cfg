\* B is invalid and C justifies B: invalidation, the nested fork_choice and the justified-block check, under weak fairness of each started routine.
CONSTANTS
    G = G  A = A  B = B  C = C  D = D  E = E
    Blocks <- MCBlocks
    Genesis = G
    Parent <- MCParent
    Slot <- MCSlot
    JustCp <- MCJustCp
    FinCp <- MCFinCpNone
    PayloadInvalid = {B}
    SlotsPerEpoch = 2
    Importers = {i1}
    Runners = {r1}
    Preparers = {p1}
    NoThread = NoThread  NoBlock = NoBlock  NoParams = NoParams
    MaxImports = 3
    MaxRuns = 2
    MaxDbFails = 0
    Attesters = {}
    MaxAtts = 0
    MaxRestarts = 0
    ImportCanAbort = FALSE
    HeadLockCanTimeout = TRUE
SPECIFICATION FairSpec
PROPERTY RoutinesComplete
INVARIANT JustifiedInvalidShutdown
