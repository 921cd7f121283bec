CONSTANTS
    Chains = {ethereum, base}
    Accounts = {alice, bob}
    None = None
    Fallbacks = 1
    MaxFlows = 2
    MaxSignings = 2
    MaxSwitches = 2
SPECIFICATION Spec
CHECK_DEADLOCK FALSE
INVARIANT SwapsSignedWhereBuilt
