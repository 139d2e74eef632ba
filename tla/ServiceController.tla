--------------------------- MODULE ServiceController ---------------------------
(***************************************************************************)
(* One Service and the calls the service controller makes for it: how the  *)
(* cloud provider dispatches them on the annotation of the Service, and    *)
(* what becomes of its load balancers while the Service, the Nodes and the *)
(* machines change.                                                        *)
(*                                                                         *)
(* Two workers of the controller call the provider at the same time and    *)
(* without a lock: the service worker brings the load balancer in line     *)
(* with the Service, one sync after the other; the node worker updates it  *)
(* when the Nodes change, from the Service as the service worker last saw  *)
(* it.  An L4 load balancer and an elastic one of the same name may exist  *)
(* side by side; what a call does to either is LoadBalancerContract.       *)
(***************************************************************************)
EXTENDS Naturals, FiniteSets

CONSTANTS
    Port,           \* port numbers a Service may expose
    NodePort,       \* the node ports they may have on the Nodes
    Unallocated,    \* the node port 0 of a port that was given none
    PortLists,      \* the lists of ports a Service may have
    MaxPorts,       \* how many listeners a load balancer can have
    Node,           \* names of Nodes, which are those of their machines
    Lasting,        \* the Nodes that are always there
    Itself,         \* the part of a listener that is there without targets
    MaxChanges      \* bounds what users and machines do

Listener == [port : Port, nodePort : NodePort]

ASSUME ItselfAssumption == Itself \notin Node
ASSUME PortsAssumption ==
    /\ MaxPorts \in Nat
    /\ PortLists \subseteq (SUBSET Listener) \ {{}}
    /\ \A ls \in PortLists : \A l, m \in ls : l.port = m.port => l = m
ASSUME LastingAssumption == Lasting \subseteq Node /\ Lasting # {}
ASSUME MaxChangesAssumption == MaxChanges \in Nat

-----------------------------------------------------------------------------
(* Data.                                                                   *)

Worker == {"service", "nodes"}
Kind == {"l4", "elb"}

\* The load balancer type annotation: "lb" (also if there is none), "elb", the
\* empty string or anything else.
Annotation == {"lb", "elb", "", "other"}

isElasticLoadBalancer(a) == a = "elb"
isL4LoadBalancer(a) == a \in {"lb", ""}

\* What validateLoadBalancerAnnotations lets pass, and the load balancer a call
\* is about.  Mutant: every Service has an L4 load balancer.
Valid(a) == a \in {"lb", "elb"}

KindOf(a) == IF isElasticLoadBalancer(a) THEN "elb"
             ELSE IF isL4LoadBalancer(a) THEN "l4" ELSE "unsupported"

\* wants: its type is LoadBalancer; finalizer: the controller's is there.
ServiceObject == [annotation : Annotation, ports : PortLists,
                  wants : BOOLEAN, deleting : BOOLEAN, finalizer : BOOLEAN]
NoService == [annotation |-> "", ports |-> {}, wants |-> FALSE,
              deleting |-> FALSE, finalizer |-> FALSE]
NeedsCleanup(s) == s.finalizer /\ (s.deleting \/ ~s.wants)
ToDelete(s) == ~s.wants \/ NeedsCleanup(s)

\* The parts of a load balancer, and those asked for a Service and Nodes.  An
\* elastic load balancer promises its listeners only.
Part == Listener \X (Node \union {Itself})
Asks(s, ns) ==
    s.ports \X ({Itself} \union IF KindOf(s.annotation) = "elb" THEN {} ELSE ns)

\* What NIFCLOUD can hold: no two listeners on one port, none without a node
\* port, no more than its limit.
Listeners(parts) == {p[1] : p \in parts}
Holdable(parts) ==
    /\ \A l \in Listeners(parts) : <<l, Itself>> \in parts /\ l.nodePort # Unallocated
    /\ \A l, m \in Listeners(parts) : l.port = m.port => l = m
    /\ Cardinality(Listeners(parts)) <= MaxPorts

\* A listener that is asked for cannot be made while those there are there, and
\* they are deleted only after it has been made.
Conflict(parts, want) == ~Holdable(parts \union want)

-----------------------------------------------------------------------------
VARIABLES
    service,    \* the Service in the API server
    nodes,      \* the Nodes there
    machines,   \* the Nodes' machines that exist
    have,       \* the parts NIFCLOUD holds of each kind of load balancer
    opposed,    \* for each kind, who met a call that wanted other parts
    met,        \* who met a call that did anything to the same load balancer
    outage,     \* while TRUE requests may fail, and the process may die
    changes,    \* how much users and machines have done
    queued,     \* the service worker's queue holds the Service
    nodeQueued, \* the node worker has been told that the Nodes changed
    cached,     \* the Service as the service worker last took it up
    synced,     \* the Nodes a worker last took up
    pc,         \* where each worker is
    status,     \* how its call of the provider goes, or went
    seen,       \* the Service and the Nodes it works for
    excused,    \* kinds of load balancers that may outlive the Service
    crossed     \* the last syncs of the two workers got in each other's way

cluster == <<service, nodes, machines, changes>>
queues == <<queued, nodeQueued, cached, synced>>
workers == <<pc, status, seen>>
history == <<excused, crossed>>
vars == <<cluster, have, opposed, met, outage, queues, workers, history>>

Deleting == {"delete", "purge"}
Calling == Deleting \union {"apply"}
Control == {"idle", "reap", "get", "unfinalize", "finalize", "ensure", "check", "reget"}
             \union Calling

Nowhere == [service |-> NoService, nodes |-> {}]

Init ==
    /\ service \in [annotation : {"lb", "elb"}, ports : PortLists,
                    wants : {TRUE}, deleting : {FALSE}, finalizer : {FALSE}]
    /\ machines = Node
    /\ nodes = Node
    /\ have = [k \in Kind |-> {}]
    /\ opposed = [k \in Kind |-> {}]
    /\ met = {}
    /\ outage = TRUE
    /\ changes = 0
    /\ queued = TRUE /\ nodeQueued = TRUE
    /\ cached = NoService
    /\ synced = {}
    /\ pc = [w \in Worker |-> "idle"]
    /\ status = [w \in Worker |-> "idle"]
    /\ seen = [w \in Worker |-> Nowhere]
    /\ excused = {}
    /\ crossed = FALSE

-----------------------------------------------------------------------------
(* Calls of the provider that change a load balancer.                      *)

KindSeen(w) == KindOf(seen[w].service.annotation)
In(w, k) == status[w] # "idle" /\ KindSeen(w) = k
Goal(w) == IF pc[w] \in Deleting THEN {} ELSE Asks(seen[w].service, seen[w].nodes)

Goto(w, label) == pc' = [pc EXCEPT ![w] = label]

\* A worker is done.
Rest(w) ==
    /\ Goto(w, "idle")
    /\ seen' = [seen EXCEPT ![w] = Nowhere]

\* A worker calls the provider.
Call(w, label) ==
    /\ Goto(w, label)
    /\ status' = [status EXCEPT ![w] = "calling"]
    /\ UNCHANGED <<seen, have, opposed, met>>

\* One step of the call, which does something.  Only a call that wants nothing, or
\* that is opposed, takes the last part away.
Others(w) == {v \in Worker \ {w} : status[v] = "calling" /\ KindSeen(v) = KindSeen(w)}
Work(w) ==
    /\ status[w] = "calling"
    /\ UNCHANGED <<workers, cluster, outage, queues, history>>
    /\ LET k == KindSeen(w) IN
       /\ \E add \in SUBSET (Goal(w) \ have[k]) :
            /\ Holdable(have[k] \union add)
            /\ \E drop \in SUBSET (have[k] \ Goal(w)) :
                 /\ add \union drop # {} /\ Holdable((have[k] \union add) \ drop)
                 /\ (have[k] \union add) \ drop # {} \/ Goal(w) = {} \/ w \in opposed[k]
                 /\ have' = [have EXCEPT ![k] = (@ \union add) \ drop]
       /\ opposed' = [opposed EXCEPT ![k] = @ \union {v \in Others(w) : Goal(v) # Goal(w)}]
       /\ met' = met \union Others(w)

\* The other worker is past the point where it would have noticed that the
\* load balancer is gone.
Overlapped(k) == pc["nodes"] \in {"ensure", "apply"} /\ KindSeen("nodes") = k

\* Both are at work on it, and for different things.
Crossing ==
    /\ pc["service"] \in {"ensure", "apply"}
    /\ pc["nodes"] \in {"check", "ensure", "apply"}
    /\ KindSeen("nodes") = KindSeen("service")
    /\ Goal("nodes") # Goal("service")

\* What the service worker made another call has taken away.
Undone == pc["service"] = "apply" /\ have[KindSeen("service")] = {}

Succeed(w) ==
    /\ status[w] = "calling"
    /\ have[KindSeen(w)] = Goal(w) \/ w \in opposed[KindSeen(w)]
    /\ status' = [status EXCEPT ![w] = "ok"]
    /\ opposed' = [opposed EXCEPT ![KindSeen(w)] = @ \ {w}]
    /\ met' = met \ {w}
    /\ UNCHANGED <<pc, seen, have, cluster, outage, queues>>
    /\ excused' = IF pc[w] \in Deleting
                       /\ (Overlapped(KindSeen(w)) \/ w \in opposed[KindSeen(w)])
                    THEN excused \union {KindSeen(w)} ELSE excused
    /\ crossed' = (crossed \/ Crossing \/ (w = "service" /\ Undone))

\* A call fails while NIFCLOUD does, or when another was at the same load balancer
\* meanwhile.  On its own it is refused, and so is every retry, because a listener
\* it asks for cannot be made (RefusedOnConflictOnly), or because an elastic load
\* balancer that has its listeners mistook their targets (RefusedForCause).
Refused(w) ==
    /\ pc[w] = "apply"
    /\ \/ Conflict(have[KindSeen(w)], Goal(w))
       \/ KindSeen(w) = "elb" /\ have["elb"] = Goal(w)
Fail(w) ==
    /\ status[w] = "calling"
    /\ outage \/ w \in met \/ Refused(w)
    /\ status' = [status EXCEPT ![w] = "error"]
    /\ opposed' = [opposed EXCEPT ![KindSeen(w)] = @ \ {w}]
    /\ met' = met \ {w}
    /\ UNCHANGED <<pc, seen, have, cluster, outage, queues, history>>
Return(w) == Fail(w) \/ Succeed(w)

\* The load balancer of each kind, seen from its callers: see CallsKeepContract.
statusOf(k) == [w \in Worker |-> IF In(w, k) THEN status[w] ELSE "idle"]
wanted(k) == [w \in Worker |-> IF In(w, k) /\ status[w] = "calling" THEN Goal(w) ELSE {}]

L4 == INSTANCE LoadBalancerContract
    WITH Caller <- Worker, have <- have["l4"], opposed <- opposed["l4"],
         status <- statusOf("l4"), want <- wanted("l4")
Elastic == INSTANCE LoadBalancerContract
    WITH Caller <- Worker, have <- have["elb"], opposed <- opposed["elb"],
         status <- statusOf("elb"), want <- wanted("elb")

-----------------------------------------------------------------------------
(* What a worker does with an error: the Service goes back to the queue of *)
(* the service worker; the node worker asks first whether the load         *)
(* balancer is there at all.                                               *)

Retry(w) ==
    /\ IF w = "service" \/ pc[w] = "reget"
         THEN Rest(w) /\ queued' = TRUE
         ELSE Goto(w, "reget") /\ UNCHANGED <<seen, queued>>
    /\ status' = [status EXCEPT ![w] = "idle"]
    /\ UNCHANGED <<have, opposed, met, nodeQueued, cached, synced>>

\* Any other request fails, or times out.
Fault(w) ==
    /\ outage
    /\ pc[w] \notin Calling \union {"idle"}
    /\ Retry(w)
    /\ UNCHANGED <<cluster, outage, history>>

-----------------------------------------------------------------------------
(* The provider: EnsureLoadBalancer, UpdateLoadBalancer, GetLoadBalancer.  *)

\* Is there a load balancer of the Service?
ExistsOrNot(s) == KindOf(s.annotation) \in Kind /\ have[KindOf(s.annotation)] # {}

\* The Nodes' machines are looked up and the annotations validated; then the
\* load balancer of the type in the annotation is ensured.
EnsureLoadBalancer(w) ==
    /\ pc[w] = "ensure"
    /\ IF seen[w].nodes \subseteq machines /\ Valid(seen[w].service.annotation)
         THEN Call(w, "apply") /\ UNCHANGED queues
         ELSE Retry(w)
    /\ UNCHANGED <<cluster, outage, history>>

\* An error unless the load balancer is there.  Mutant: it need not be.
UpdateUnchecked ==
    /\ pc["nodes"] = "check"
    /\ IF Valid(seen["nodes"].service.annotation)
         THEN Goto("nodes", "ensure") /\ UNCHANGED <<status, seen, have, opposed, met, queues>>
         ELSE Retry("nodes")
    /\ UNCHANGED <<cluster, outage, history>>
UpdateLoadBalancer ==
    /\ pc["nodes"] = "check"
    /\ IF Valid(seen["nodes"].service.annotation) /\ ExistsOrNot(seen["nodes"].service)
         THEN Goto("nodes", "ensure") /\ UNCHANGED <<status, seen, have, opposed, met, queues>>
         ELSE Retry("nodes")
    /\ UNCHANGED <<cluster, outage, history>>

\* It deletes the load balancer of the type in the annotation.  Mutant: the
\* annotations are validated as for the other calls.
DeletedIfValid(label) ==
    IF Valid(seen["service"].service.annotation)
      THEN Call("service", label) /\ UNCHANGED queues
      ELSE Retry("service")
EnsureLoadBalancerDeleted(label) ==
    IF KindSeen("service") \in Kind
      THEN Call("service", label) /\ UNCHANGED queues
      ELSE Retry("service")

-----------------------------------------------------------------------------
(* The service worker.                                                     *)

\* Take the Service up: delete its load balancer, or add the finalizer and
\* ensure it; a Service that is gone is looked up in the cache.
Sync ==
    /\ pc["service"] = "idle" /\ queued
    /\ queued' = FALSE
    /\ \/ /\ service # NoService
          /\ cached' = service
          /\ Goto("service", IF ToDelete(service) THEN "get" ELSE "finalize")
          /\ seen' = [seen EXCEPT !["service"].service = service]
       \/ /\ service = NoService
          /\ IF cached.wants
               THEN /\ Goto("service", "reap")
                    /\ seen' = [seen EXCEPT !["service"].service = cached]
                    /\ UNCHANGED cached
               ELSE cached' = NoService /\ UNCHANGED <<pc, seen>>
    /\ UNCHANGED <<cluster, have, opposed, met, outage, nodeQueued, synced, status, history>>

\* The Service has vanished; what the cache holds of it is deleted.
Reap ==
    /\ pc["service"] = "reap"
    /\ EnsureLoadBalancerDeleted("purge")
    /\ UNCHANGED <<cluster, outage, history>>

\* GetLoadBalancer, and EnsureLoadBalancerDeleted if there is one.
Get ==
    /\ pc["service"] = "get"
    /\ IF ExistsOrNot(seen["service"].service)
         THEN EnsureLoadBalancerDeleted("delete") /\ UNCHANGED excused
         ELSE /\ Goto("service", "unfinalize")
              /\ excused' = excused \union {k \in Kind : k = KindSeen("service") /\ Overlapped(k)}
              /\ UNCHANGED <<status, seen, have, opposed, met, queues>>
    /\ UNCHANGED <<cluster, outage, crossed>>

\* Without its finalizer, a Service that is being deleted is gone.  A Service
\* whose load balancer has been deleted is forgotten, unless its status cannot be
\* written.
Unfinalize ==
    /\ pc["service"] = "unfinalize"
    /\ Rest("service")
    /\ service' = IF ~seen["service"].service.finalizer \/ service = NoService THEN service
                  ELSE IF service.deleting THEN NoService
                  ELSE [service EXCEPT !.finalizer = FALSE]
    /\ \/ cached' = NoService /\ queued' = (queued \/ service' # service)
       \/ outage /\ queued' = TRUE /\ UNCHANGED cached
    /\ UNCHANGED <<nodes, machines, changes, have, opposed, met, outage, nodeQueued, synced,
                   status, history>>

\* The finalizer cannot be added to a Service that is being deleted or is gone.
\* Mutant: it is added to one that is gone.
FinalizeBlindly ==
    /\ pc["service"] = "finalize"
    /\ service' = [service EXCEPT !.finalizer = TRUE]
    /\ Goto("service", "ensure")
    /\ seen' = [seen EXCEPT !["service"].nodes = nodes]
    /\ synced' = nodes
    /\ crossed' = FALSE
    /\ UNCHANGED <<queued, nodeQueued, cached, status, have, opposed, met, nodes, machines, changes,
                   outage, excused>>
Finalize ==
    /\ pc["service"] = "finalize"
    /\ IF service = NoService \/ (service.deleting /\ ~service.finalizer)
         THEN Retry("service") /\ UNCHANGED <<service, crossed>>
         ELSE /\ service' = [service EXCEPT !.finalizer = TRUE]
              /\ Goto("service", "ensure")
              /\ seen' = [seen EXCEPT !["service"].nodes = nodes]
              /\ synced' = nodes
              /\ crossed' = FALSE
              /\ UNCHANGED <<queued, nodeQueued, cached, status, have, opposed, met>>
    /\ UNCHANGED <<nodes, machines, changes, outage, excused>>

-----------------------------------------------------------------------------
(* The node worker.                                                        *)

NodeSync ==
    /\ pc["nodes"] = "idle" /\ nodeQueued
    /\ nodeQueued' = FALSE
    /\ IF cached.wants /\ nodes # synced
         THEN /\ Goto("nodes", "check")
              /\ seen' = [seen EXCEPT !["nodes"] = [service |-> cached, nodes |-> nodes]]
              /\ synced' = nodes
         ELSE UNCHANGED <<pc, seen, synced>>
    /\ UNCHANGED <<cluster, have, opposed, met, outage, queued, cached, status, history>>

\* The update failed: the Service is synced again if there is a load balancer.
Reget ==
    /\ pc["nodes"] = "reget"
    /\ IF ExistsOrNot(seen["nodes"].service)
         THEN Retry("nodes") /\ UNCHANGED crossed
         ELSE /\ Rest("nodes")
              /\ crossed' = (crossed \/ pc["service"] \in {"ensure", "apply"})
              /\ UNCHANGED <<status, have, opposed, met, queues>>
    /\ UNCHANGED <<cluster, outage, excused>>

-----------------------------------------------------------------------------
\* A worker has the outcome of its call; the service worker writes the status.
Answer(w) ==
    /\ \/ /\ status[w] = "error" \/ (status[w] = "ok" /\ outage /\ w = "service")
          /\ Retry(w)
       \/ /\ status[w] = "ok"
          /\ IF pc[w] = "delete" THEN Goto(w, "unfinalize") /\ UNCHANGED seen
             ELSE Rest(w)
          /\ cached' = IF pc[w] = "purge" THEN NoService ELSE cached
          /\ status' = [status EXCEPT ![w] = "idle"]
          /\ UNCHANGED <<have, opposed, met, queued, nodeQueued, synced>>
    /\ UNCHANGED <<cluster, outage, history>>

\* The process dies, with the calls it is in, and starts again: every Service
\* that wants a load balancer or needs cleaning up is queued.
Restart ==
    /\ outage
    /\ pc' = [w \in Worker |-> "idle"]
    /\ status' = [w \in Worker |-> "idle"]
    /\ seen' = [w \in Worker |-> Nowhere]
    /\ opposed' = [k \in Kind |-> {}]
    /\ met' = {}
    /\ cached' = NoService /\ synced' = {}
    /\ queued' = (service.wants \/ NeedsCleanup(service))
    /\ nodeQueued' = TRUE
    /\ crossed' = FALSE
    /\ UNCHANGED <<cluster, have, outage, excused>>

OutageEnds ==
    /\ outage
    /\ outage' = FALSE
    /\ UNCHANGED <<cluster, have, opposed, met, queues, workers, history>>

-----------------------------------------------------------------------------
(* The users and the machines.                                             *)

Changing ==
    /\ changes < MaxChanges
    /\ changes' = changes + 1
    /\ UNCHANGED <<have, opposed, met, outage, workers, crossed>>

\* The annotation, the ports or the type of the Service change.  Its node ports
\* are free while its type needs none, and may be others when it does again.
SamePorts(ls, ms) == {l.port : l \in ls} = {m.port : m \in ms}
ChangeService ==
    /\ Changing
    /\ service # NoService
    /\ \/ \E a \in Annotation : service' = [service EXCEPT !.annotation = a]
       \/ \E ls \in PortLists : service' = [service EXCEPT !.ports = ls]
       \/ service.wants /\ service' = [service EXCEPT !.wants = FALSE]
       \/ /\ ~service.wants
          /\ \E ls \in {ls \in PortLists : SamePorts(ls, service.ports)} :
               service' = [service EXCEPT !.wants = TRUE, !.ports = ls]
    /\ service' # service
    /\ excused' = IF KindOf(service'.annotation) = KindOf(service.annotation) THEN excused
                  ELSE excused \union ({KindOf(service.annotation)} \intersect Kind)
    /\ queued' = (queued \/ service.wants \/ service'.wants \/ NeedsCleanup(service'))
    /\ UNCHANGED <<nodes, machines, nodeQueued, cached, synced>>

DeleteService ==
    /\ Changing
    /\ service # NoService /\ ~service.deleting
    /\ service' = IF service.finalizer THEN [service EXCEPT !.deleting = TRUE]
                  ELSE NoService
    /\ queued' = TRUE
    /\ UNCHANGED <<nodes, machines, nodeQueued, cached, synced, excused>>

\* Nodes come and go with their machines.
ScaleNodes ==
    /\ Changing
    /\ \E ns \in SUBSET machines : nodes' = ns \union Lasting \union (nodes \ machines)
    /\ nodes' # nodes
    /\ nodeQueued' = TRUE
    /\ UNCHANGED <<service, machines, queued, cached, synced, excused>>

\* A machine is deleted while its Node is there ...
LoseMachine(n) ==
    /\ Changing
    /\ n \in (nodes \intersect machines) \ Lasting
    /\ machines' = machines \ {n}
    /\ UNCHANGED <<service, nodes, queues, excused>>

\* ... which the node lifecycle controller deletes then: see NodeLifecycle.
DeleteNode(n) ==
    /\ n \in nodes \ machines
    /\ nodes' = nodes \ {n}
    /\ nodeQueued' = TRUE
    /\ UNCHANGED <<service, machines, changes, have, opposed, met, outage, queued, cached, synced,
                   workers, history>>

-----------------------------------------------------------------------------
ServiceWorker == Sync \/ Reap \/ Get \/ Unfinalize \/ Finalize
NodeWorker == NodeSync \/ UpdateLoadBalancer \/ Reget
CallOf(w) == EnsureLoadBalancer(w) \/ Work(w) \/ Answer(w)

Next ==
    \/ ServiceWorker \/ NodeWorker
    \/ \E w \in Worker : CallOf(w) \/ Return(w) \/ Fault(w)
    \/ Restart \/ OutageEnds
    \/ ChangeService \/ DeleteService \/ ScaleNodes
    \/ \E n \in Node : LoseMachine(n) \/ DeleteNode(n)

Spec == Init /\ [][Next]_vars

\* The workers keep working, every call returns (CallReturns, for both types),
\* NIFCLOUD recovers in the end, and a Node without a machine is deleted in the
\* end.
Fairness ==
    /\ WF_vars(ServiceWorker \/ CallOf("service"))
    /\ WF_vars(NodeWorker \/ CallOf("nodes"))
    /\ \A w \in Worker : WF_status(Return(w))
    /\ WF_outage(OutageEnds)
    /\ \A n \in Node \ Lasting : WF_nodes(DeleteNode(n))

FairSpec == Spec /\ Fairness

-----------------------------------------------------------------------------
(* Properties.                                                             *)

TypeOK ==
    /\ service \in ServiceObject \union {NoService}
    /\ Lasting \subseteq nodes \intersect machines /\ nodes \subseteq Node
    /\ machines \subseteq Node
    /\ have \in [Kind -> SUBSET Part]
    /\ opposed \in [Kind -> SUBSET Worker] /\ met \subseteq Worker
    /\ outage \in BOOLEAN /\ queued \in BOOLEAN /\ nodeQueued \in BOOLEAN
    /\ crossed \in BOOLEAN
    /\ changes \in 0..MaxChanges
    /\ cached \in ServiceObject \union {NoService}
    /\ synced \subseteq Node
    /\ pc \in [Worker -> Control]
    /\ status \in [Worker -> {"idle", "calling", "ok", "error"}]
    /\ seen \in [Worker -> [service : ServiceObject \union {NoService}, nodes : SUBSET Node]]
    /\ excused \subseteq Kind

\* A load balancer never outlives its Service, nor loses the finalizer that makes
\* the Service wait for it -- but for two kinds: the one of a type the Service
\* had before, and the one an update put back that had found it just before it
\* was deleted.
Guarded ==
    \A k \in Kind \ excused : have[k] # {} =>
      service.finalizer /\ KindOf(service.annotation) = k

\* What a call does to a load balancer, and how it ends, is what the contract allows,
\* which the load balancers of both kinds have been shown to implement.
KeepsContract(w) ==
    \/ KindSeen(w) = "l4" /\ /\ Work(w) => L4!Work(w)
                             /\ Succeed(w) => L4!Succeed(w)
                             /\ Fail(w) => L4!Fail(w)
    \/ KindSeen(w) = "elb" /\ /\ Work(w) => Elastic!Work(w)
                              /\ Succeed(w) => Elastic!Succeed(w)
                              /\ Fail(w) => Elastic!Fail(w)
    \/ status[w] # "calling"
CallsKeepContract == [][\A w \in Worker : KeepsContract(w)]_vars

\* When nothing changes any more a Service that is being deleted goes away, and
\* the load balancer of a Service that wants one becomes, for good, what its ports
\* and the Nodes ask for -- unless it is in conflict with what is there, or the
\* last syncs of the two workers crossed.
Served == have[KindOf(service.annotation)] = Asks(service, nodes)
InConflict == Conflict(have[KindOf(service.annotation)], Asks(service, nodes))
Settled ==
    /\ ~service.deleting
    /\ service.wants /\ Valid(service.annotation) => Served \/ InConflict \/ crossed
EventuallySettled == <>[]Settled
=============================================================================
