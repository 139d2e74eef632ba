-------------------- MODULE MCElasticLoadBalancerWorkers --------------------
(***************************************************************************)
(* A small instance of ElasticLoadBalancerWorkers for TLC.                 *)
(***************************************************************************)
EXTENDS ElasticLoadBalancerWorkers

\* Versions of a Service with any of two ports that keep their node ports.
NodePortOf ==
    CHOOSE f \in [Port -> NodePort \ {Unallocated}] :
      \A p, q \in Port : f[p] = f[q] => p = q
Versions ==
    {[ports |-> {[port |-> p, nodePort |-> NodePortOf[p]] : p \in ps},
      health |-> "TCP", supported |-> TRUE, nodes |-> Node] :
       ps \in (SUBSET Port) \ {{}}}

NoLeftovers == {[l \in {} |-> {}]}
\* Rules have no influence on the listeners: the machine is in no group.
NoGroups == [i \in Instance |-> {}]
=============================================================================
