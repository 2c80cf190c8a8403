SPECIFICATION Spec
CONSTANTS
    Resolvers = {r1, r2}
    Reviewers = {h1}
    Rebuilders = {b1}
    Entities = {e1}
    KnownCompanies = {c1}
    None = None
    Untouched = Untouched
    Versions <- MCVersions
    EntityOf <- MCEntityOf
    VersionCount = 2
SYMMETRY Alike
INVARIANTS TypeOK OneHead NoOrphanCompany MachineNeverOverrides
PROPERTIES StaleOnlyByAdoption ImplementsDecisionRegister
CHECK_DEADLOCK FALSE
