SPECIFICATION ActorSpec
CONSTANTS
    Validators = {v1, v2}
    Modes = {"Collateral", "Federated", "Static"}
    ActiveLimit = 1
    MinValidators = 1
    MinActivationCollateral = 2
    FederatedCalls <- MCCalls
    MaxStake = 2
    MaxFunds = 1
    MaxChanges = 4
SYMMETRY MCSymmetry
CHECK_DEADLOCK FALSE
INVARIANTS
     StakeIsConfirmed LogReplays TotalIsConfirmedLater MembersHaveKeys
