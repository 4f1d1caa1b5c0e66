SPECIFICATION Spec
CONSTANTS
    Sessions = {e, s}
    Names = {"m", "n"}
    Requests <- MCRequests
    BadIds = {"bad id"}
    DefaultIds <- MCDefaultIds
    ActiveMaps <- MCActiveMaps
    Handlers = {eh, h}
    SUBSCRIPTION_BUFFER = 1
    MaxAdds = 2
    MaxActivations = 2
    Element = e
    ElementHandler = eh
    ElementName = "m"
    PadConfigs <- MCPadConfigs
INVARIANTS
    RegistriesAgree
    ConfigClaimed
    HeardIsMapped
    FixatedIsRegistered
CHECK_DEADLOCK FALSE
