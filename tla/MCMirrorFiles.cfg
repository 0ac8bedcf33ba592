CONSTANTS
    f1 = f1  f2 = f2
    Files = {f1, f2}
    Version <- VersionOf
    NoKey = NoKey  Cleared = Cleared  Idle = Idle
    Clients = {c1, c2}
SYMMETRY Interchangeable
SPECIFICATION MFSpec
INVARIANTS FilesCanBeDeleted LinksHaveEntry KnownHasLinks
