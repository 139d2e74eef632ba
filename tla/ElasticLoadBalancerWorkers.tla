--------------------- MODULE ElasticLoadBalancerWorkers ---------------------
(***************************************************************************)
(* The elastic load balancer of one Service under the two callers it has:  *)
(* the service worker, which ensures and deletes it, and the node worker,  *)
(* which updates it when the Nodes change, maybe from another version of   *)
(* the Service.  Each is an ElasticLoadBalancer with local variables of    *)
(* its own; the load balancer, the rules and the outage are shared, and    *)
(* nothing keeps the requests of one out of a call of the other.           *)
(***************************************************************************)
EXTENDS Naturals, FiniteSets

CONSTANTS
    Port, NodePort, Unallocated, Instance, Node, Group, GroupsOf, TwoArm, MaxPorts,
    Requests, Leftovers     \* see ElasticLoadBalancer

VARIABLES
    elb, rules, outage,     \* see ElasticLoadBalancer
    servicePc, serviceRequest, serviceCurrent, serviceTodo, serviceAt, serviceGrants,
    nodePc, nodeRequest, nodeCurrent, nodeTodo, nodeAt, nodeGrants,
    opposed     \* workers in the way of whose call one for other ports got

\* The instances bring the lemmas about one caller with them.
ServiceWorker == INSTANCE ElasticLoadBalancerProofs
    WITH pc <- servicePc, request <- serviceRequest, current <- serviceCurrent,
         todo <- serviceTodo, at <- serviceAt, grants <- serviceGrants

NodeWorker == INSTANCE ElasticLoadBalancerProofs
    WITH pc <- nodePc, request <- nodeRequest, current <- nodeCurrent,
         todo <- nodeTodo, at <- nodeAt, grants <- nodeGrants

\* The same constants for both: what is assumed of them for one is enough.
ASSUME CallerAssumptions ==
    ServiceWorker!ConstantsAssumption /\ ServiceWorker!ServiceAssumption

serviceVars == <<servicePc, serviceRequest, serviceCurrent, serviceTodo, serviceAt, serviceGrants>>
nodeVars == <<nodePc, nodeRequest, nodeCurrent, nodeTodo, nodeAt, nodeGrants>>
vars == <<elb, rules, outage, serviceVars, nodeVars, opposed>>

Worker == {"service", "nodes"}

\* How the call of each worker goes, or went, and the listeners it wants.
statusOf == [w \in Worker |-> IF w = "service" THEN ServiceWorker!Status ELSE NodeWorker!Status]
wanted == [w \in Worker |-> IF w = "service" THEN ServiceWorker!Wanted ELSE NodeWorker!Wanted]

Init == ServiceWorker!Init /\ NodeWorker!Init /\ opposed = {}

-----------------------------------------------------------------------------
ServiceCall ==
    \/ \E r \in Requests : ServiceWorker!EnsureLoadBalancer(r)
    \/ ServiceWorker!EnsureLoadBalancerDeleted
NodeCall == \E r \in Requests : NodeWorker!UpdateLoadBalancer(r)

\* History: when worker w changes the listeners it gets in the way of the call
\* of the other one if that wants other listeners.
Opposes(w) ==
    opposed' = {v \in Worker :
                  /\ statusOf'[v] = "calling"
                  /\ v \in opposed \/ (DOMAIN elb' # DOMAIN elb /\ wanted[v] # wanted[w])}

ServiceStep == ServiceWorker!Step /\ UNCHANGED nodeVars /\ Opposes("service")
NodeStep == NodeWorker!Step /\ UNCHANGED serviceVars /\ Opposes("nodes")

Next ==
    \/ ServiceStep
    \/ NodeStep
    \/ (ServiceCall \/ ServiceWorker!Fault) /\ UNCHANGED nodeVars /\ Opposes("service")
    \/ (NodeCall \/ NodeWorker!Fault) /\ UNCHANGED serviceVars /\ Opposes("nodes")
    \/ ServiceWorker!OutageEnds /\ UNCHANGED <<nodeVars, opposed>>

Spec == Init /\ [][Next]_vars

\* A worker in a call keeps running: its goroutine is scheduled and every request
\* is answered or times out.
FairSpec == Spec /\ WF_vars(ServiceStep) /\ WF_vars(NodeStep)

-----------------------------------------------------------------------------
(* Properties.                                                             *)

\* Whatever the two workers do to each other, together they implement the
\* abstract specification of a load balancer: listeners are only added by one that
\* wants them and removed by one that does not, a call that nobody opposed leaves
\* what it wanted, and the load balancer does not vanish on the way.
Contract == INSTANCE LoadBalancerContract
              WITH Caller <- Worker, Part <- ServiceWorker!Listener, have <- DOMAIN elb,
                   status <- statusOf, want <- wanted
ImplementsContract == Contract!Spec

\* Every call returns: each loop works off a list made when it began, whatever
\* the other worker does to the load balancer meanwhile.
CallReturns == \A w \in Worker : statusOf[w] = "calling" ~> statusOf[w] # "calling"
=============================================================================
