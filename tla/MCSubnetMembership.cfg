SPECIFICATION Spec
CONSTANTS
    Validators = {v1, v2}
    Modes = {"Collateral"}
    ActiveLimit = 1
    MinValidators = 1
    MinActivationCollateral = 1
    FederatedCalls <- MCCalls
    MaxStake = 2
    MaxFunds = 1
    MaxChanges = 3
    MajorityPercentage = 67
    MaxCheckpoints = 2
SYMMETRY MCSymmetry
CHECK_DEADLOCK FALSE
INVARIANT SignersAreActive
