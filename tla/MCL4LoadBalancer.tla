-------------------------- MODULE MCL4LoadBalancer --------------------------
(***************************************************************************)
(* Small instances of L4LoadBalancer for TLC.                              *)
(***************************************************************************)
EXTENDS L4LoadBalancer, TLC

\* A request for the ports ps, everything else as usual.
ServiceOf(ps, addresses, nodes) ==
    [ports |-> ps, ranges |-> addresses, health |-> DefaultHealth,
     supported |-> TRUE, nodes |-> nodes]

PortSets == {ps \in SUBSET ServicePort :
               /\ ps # {}
               /\ \A p, q \in ps :
                    p.port = q.port \/ (p.nodePort = q.nodePort /\ p.nodePort # Unset)
                       => p = q}
NodePortSets == {ps \in PortSets : \A p \in ps : p.nodePort # Unset}

\* Every load balancer NIFCLOUD can hold, up to health checks.
AnyLoadBalancer ==
    {c \in UNION {[ls -> {s \in Settings : s.health = DefaultHealth}] :
                    ls \in {ls \in SUBSET Listener : Cardinality(ls) <= MaxPorts}} :
       IsLoadBalancer(c)}

\* Every combination of listeners with Nodes that are there; too many ports or
\* none; a port without a node port; a Node without a machine; something the
\* provider does not support; no Node at all.
SequentialRequests ==
    LET one == {[port |-> p, nodePort |-> n] : p \in Port, n \in NodePort}
    IN  {ServiceOf(ps, Address, ns) : ps \in NodePortSets, ns \in SUBSET Instance}
          \union {ServiceOf({p}, {}, Node) : p \in one}
          \union {[ServiceOf({p}, {}, {}) EXCEPT !.supported = FALSE] : p \in one}
          \union {ServiceOf(ps, {}, Instance) :
                    ps \in (PortSets \ NodePortSets) \union {{}}}

\* Two versions of the Service that share a listener: one has another port too,
\* the other another Node.
OtherRequests ==
    LET l == CHOOSE q \in Listener : TRUE
        m == CHOOSE q \in Listener : q.port # l.port /\ q.nodePort # l.nodePort
        i == CHOOSE q \in Instance : TRUE
    IN  {ServiceOf({l, m}, {}, {i}), ServiceOf({l}, {}, Instance)}

\* The same Service with and without Nodes.
AnyPort == CHOOSE ps \in NodePortSets : Cardinality(ps) = 1
NodelessRequests == {ServiceOf(AnyPort, {}, ns) : ns \in SUBSET Instance}
Nothing == {NoLoadBalancer}

\* Nothing in the requests tells ports, node ports or instances apart.
Interchangeable ==
    Permutations(Port) \union Permutations(NodePort) \union Permutations(Instance)
=============================================================================
