\* One importer, one runner and one attester over the fork G <- A <- {B, D}; D invalid; one database write may fail.
CONSTANTS
    G = G  A = A  B = B  C = C  D = D  E = E
    Blocks <- MCBlocksFork
    Genesis = G
    Parent <- MCParent
    Slot <- MCSlot
    JustCp <- MCJustCp
    FinCp <- MCFinCpNone
    PayloadInvalid = {D}
    SlotsPerEpoch = 2
    Importers = {i1}
    Runners = {r1}
    Preparers = {}
    Attesters = {a1}
    NoThread = NoThread  NoBlock = NoBlock  NoParams = NoParams
    MaxImports = 3
    MaxRuns = 2
    MaxDbFails = 1
    MaxAtts = 2
    MaxRestarts = 0
    ImportCanAbort = TRUE
    HeadLockCanTimeout = FALSE
SPECIFICATION Spec
PROPERTY AttestationsFullyVerified
