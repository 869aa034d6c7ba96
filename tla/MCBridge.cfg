SPECIFICATION BridgeSpec
CONSTANTS
    Messages = {1, 2}
    MaxLag = 2
    Hooks = {"igp", "alt"}
    HookDenom <- MCHookDenom
    MaxPrice = 1
    Denom = "tia"
    OwnerFunds <- MCOwnerFunds
    RelayerFunds <- MCRelayerFunds
    PageLimit = 1
INVARIANTS
    Backed
    RelayerPaysFees
PROPERTIES
    DispatchedDelivered
