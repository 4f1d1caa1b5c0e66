SPECIFICATION Spec
CONSTANTS
    LocalIps <- MCLocalIps
    MulticastIps <- MCMulticastIps
    Factories <- MCFactories
    SettingsSet <- MCSettingsSet
    PeerCaps <- MCPeerCaps
    ReceivedFiles <- MCReceivedFiles
    Patches <- MCPatches
    FlowIds <- MCFlowIds
INVARIANTS
    ChainFits
    RegisteredAgrees
    ActivationAccepted
    ReportedIsDone
