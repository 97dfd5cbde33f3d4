CONSTANTS
    u1 = u1
    u2 = u2
    Users = {u1, u2}
    NoSignature = NoSignature
    MaxKills = 2
SPECIFICATION Spec
INVARIANTS
    SchemaTypeOK
    NothingInvalidIsSigned
    MigrationIsComplete
SYMMETRY Symmetry
