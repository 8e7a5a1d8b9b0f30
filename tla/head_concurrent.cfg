\* Two fork_choice runners and one attester racing one importer over the fork G <- A <- {B, D};
\* D has an invalid payload; import may stop with an error after on_block; no failed writes; two imports (A, then B or D).
CONSTANTS
    G = G  A = A  B = B  C = C  D = D  E = E
    Blocks <- MCBlocksFork
    Genesis = G
    Parent <- MCParent
    Slot <- MCSlot
    JustCp <- MCJustCp
    FinCp <- MCFinCpNone
    PayloadInvalid = {D}
    SlotsPerEpoch = 2
    Importers = {i1}
    Runners = {r1, r2}
    Preparers = {}
    NoThread = NoThread  NoBlock = NoBlock  NoParams = NoParams
    MaxImports = 2
    MaxRuns = 2
    MaxDbFails = 0
    Attesters = {a1}
    MaxAtts = 1
    MaxRestarts = 0
    ImportCanAbort = TRUE
    HeadLockCanTimeout = TRUE
SPECIFICATION Spec
PROPERTY ElUpdatesOrdered
INVARIANT EngineToldOfHead
SYMMETRY RunnerSymmetry
