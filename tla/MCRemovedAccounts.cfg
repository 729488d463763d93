SPECIFICATION Spec
CONSTANTS
    a1 = a1
    a2 = a2
    k1 = k1
    k2 = k2
    None = None
    Address <- MCAddress
    Key <- MCKey
    Info = {0, 1, 2}
    DefaultInfo = 0
    Value = {0, 1}
    Zero = 0
SYMMETRY Alike
INVARIANTS
    RootOfEveryBlock
