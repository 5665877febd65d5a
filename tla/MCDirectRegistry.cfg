SPECIFICATION Spec
CONSTANTS
    Sandboxes = {s1}
    Operations = {o1}
    Migrations = {m1, m2}
    NoOperation = NoOperation
    NoMigration = NoMigration
    MaxGeneration = 3
    MaxRevision = 8
SYMMETRY Symmetry
INVARIANTS TypeOK NoResurrection RetiredStaysOut RegistrationValid CrashLosesOnlyOwned
PROPERTY IdentityStable
