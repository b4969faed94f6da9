SPECIFICATION Spec
CONSTANTS
    Instances = {i1, i2}
    Template = template
    Lines <- MCLines
    MinPages = 1
    MaxPages = 3
    MaxDraws = 6
SYMMETRY InstanceSymmetry
INVARIANTS
    TypeOK
    NoSharedEntropy
    ServesFullySetUp
    ImageIsPortable
    CloneFitsImage
CHECK_DEADLOCK FALSE
