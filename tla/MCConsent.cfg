SPECIFICATION Spec
CONSTANTS
    Commands = {c1, c2}
    Grants <- MCGrants
    VerifierSets = {v1}
    None = None
    Short = Short
    MaxVersion = 3
    MaxEdits = 2
    EditsInWindow = FALSE
SYMMETRY Symmetry
INVARIANTS
    NoStaleConsent
    NamedVerifiersExist
    OneIdentity
PROPERTIES
    NoLostUpdate
    UserBytesKept
