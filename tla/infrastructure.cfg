\* Two ids, five endpoints, two networks; latencies within one band and across bands.
SPECIFICATION Spec
CONSTANTS
    EndpointIds = {1, 2}
    Networks = {"devnet", "testnet"}
    EndpointSample <- MCEndpointSample
    DefaultEndpoints <- MCDefaultEndpoints
    ProviderConfigs <- MCProviderConfigs
    Latencies = {51, 90, 751, 2501}
    AnyNetwork = AnyNetwork
    Pending = Pending
    Unreachable = Unreachable
    None = None
INVARIANTS
    FastestIsSelected
    SilentOnlyAsFallback
PROPERTIES
    EveryValidationReports
