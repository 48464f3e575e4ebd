------------------------ MODULE MCRpcInfrastructure ------------------------
(* Model checking of RpcInfrastructure. *)
EXTENDS RpcInfrastructure

Endpoint(network, status, priority) ==
    [network |-> network, status |-> status, priority |-> priority]

MCEndpointSample ==
    {Endpoint("devnet", "active", 1), Endpoint("devnet", "active", 2),
     Endpoint("devnet", "degraded", 1), Endpoint("devnet", "disabled", 1),
     Endpoint("testnet", "active", 1)}

\* The public endpoint, and a provider's that comes before it by name.
MCDefaultEndpoints == [id \in {2} |-> Endpoint("devnet", "active", 2)]
MCProviderConfigs == [id \in {1} |-> Endpoint("devnet", "active", 1)]
=============================================================================
