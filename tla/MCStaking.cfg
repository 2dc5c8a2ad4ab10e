SPECIFICATION Spec
CONSTANTS
    Validators = {v1, v2, v3, v4, v5, v6}
    Limits = {1, 3, 6}
    MaxPower = 4
SYMMETRY MCSymmetry
INVARIANTS HeapsOrdered  StrongestActive
