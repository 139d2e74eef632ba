----------------------- MODULE MCElasticLoadBalancer -----------------------
(***************************************************************************)
(* Small instances of ElasticLoadBalancer for TLC.                         *)
(***************************************************************************)
EXTENDS ElasticLoadBalancer, TLC

\* A request for the listeners ls, everything else as usual.
ServiceOf(ls, nodes) ==
    [ports |-> ls, health |-> "TCP", supported |-> TRUE, nodes |-> nodes]

PortSets == {ls \in SUBSET Listener :
               \A l, m \in ls :
                 l.port = m.port \/ (l.nodePort = m.nodePort /\ l.nodePort # Unallocated)
                   => l = m}
Services == {ls \in PortSets : ls # {} /\ \A l \in ls : l.nodePort # Unallocated}
OfOnePort == {ls \in Services : Cardinality(ls) = 1}

\* Every load balancer NIFCLOUD can hold, up to health checks.
AnyLoadBalancer ==
    {c \in UNION {[ls -> {s \in Settings : s.health = "TCP"}] :
                    ls \in {ls \in SUBSET Listener : Cardinality(ls) <= MaxPorts}} :
       IsLoadBalancer(c) /\ \A l \in DOMAIN c : l.nodePort # Unallocated}
Nothing == {NoLoadBalancer}

\* Services with any ports and any Nodes; one that is not supported, one with a
\* Node that has no machine, one with ICMP health checks and some with ports
\* that were given no node port.
CallRequests ==
    {ServiceOf(ls, ns) : ls \in Services, ns \in SUBSET Instance}
      \union {ServiceOf(ls, Node) : ls \in OfOnePort}
      \union {[ServiceOf(ls, {}) EXCEPT !.supported = FALSE] : ls \in OfOnePort}
      \union {[ServiceOf(ls, Instance) EXCEPT !.health = "ICMP"] : ls \in OfOnePort}
      \union {ServiceOf(ls, Instance) : ls \in PortSets \ Services}

\* Services whose ports keep their node ports.
NodePortOf ==
    CHOOSE f \in [Port -> NodePort \ {Unallocated}] :
      \A p, q \in Port : f[p] = f[q] => p = q
Stable == {ls \in Services : \A l \in ls : l.nodePort = NodePortOf[l.port]}
AnyStable == CHOOSE ls \in Stable : Cardinality(ls) = 1

\* Every set of ports with every set of Nodes; ICMP health checks for one port
\* only, for listeners share the rule ICMP needs.
StableRequests == {ServiceOf(ls, ns) : ls \in Stable, ns \in SUBSET Instance \ {{}}}
RulesRequests ==
    StableRequests
      \union {[ServiceOf(AnyStable, ns) EXCEPT !.health = "ICMP"] : ns \in SUBSET Instance \ {{}}}

\* One Service with every set of Nodes; one whose only port gets another number
\* and keeps its node port.
NodeRequests == {ServiceOf(AnyStable, ns) : ns \in SUBSET Instance \ {{}}}
AnyNodePort == CHOOSE n \in NodePort : n # Unallocated
RenumberedRequests ==
    {ServiceOf({[port |-> p, nodePort |-> AnyNodePort]}, Instance) : p \in Port}

\* Every instance in a group of its own, named like it; all in one group.
OwnGroups == [i \in Instance |-> {i}]
SharedGroups == [i \in Instance |-> Group]

\* Nothing in the requests tells ports, node ports or instances apart.
Interchangeable ==
    Permutations(Port) \union Permutations(NodePort \ {Unallocated})
      \union Permutations(Instance)
=============================================================================
