\* Nothing is left to do once every receipt is proven and every batch anchored.
CHECK_DEADLOCK FALSE
CONSTANTS
    r1 = r1 r2 = r2 b1 = b1 b2 = b2 p1 = p1 p2 = p2 e1 = e1 e2 = e2
    b3 = b3
    None = None
    Run = {r1, r2}
    Batch = {b1, b2}
    Proc = {p1, p2}
    Exec = {e1}
    Host <- OneHost
    Archiver = {p1}
    Signer = {p1, p2}
    MaxBatch = 2
    Prompt = TRUE
    MaxFinals = 1
    MaxFailures = 1
SYMMETRY Symmetry
SPECIFICATION Spec
INVARIANTS
    TypeOK
    StoredFits
    AnchorsAgree
PROPERTIES
    ProofStays
