------------------------- MODULE MCServiceController -------------------------
(***************************************************************************)
(* A small instance of ServiceController for TLC.                          *)
(***************************************************************************)
EXTENDS ServiceController, TLC

\* One port, with one node port or another.
OnePort ==
    {{[port |-> p, nodePort |-> n]} : p \in Port, n \in NodePort \ {Unallocated}}

\* A Service is created with the L4 load balancer and one of the node ports, which
\* nothing tells apart.
FirstNodePort == CHOOSE n \in NodePort : n # Unallocated
SmallInit ==
    /\ Init
    /\ service.annotation = "lb"
    /\ \A l \in service.ports : l.nodePort = FirstNodePort
SmallSpec == SmallInit /\ [][Next]_vars /\ Fairness
=============================================================================
