----------------------- MODULE ServiceControllerProofs -----------------------
(***************************************************************************)
(* Theorems of ServiceController, for any ports and Nodes and any number   *)
(* of changes.                                                             *)
(***************************************************************************)
EXTENDS ServiceController, TLAPS

(***************************************************************************)
(* The inductive invariant of Guarded.  A call that may create a load      *)
(* balancer is made for a Service that has the finalizer, and for its      *)
(* type; while the service worker deletes the load balancer of the Service *)
(* there is no other, and none can be created.                             *)
(***************************************************************************)
ControlOK ==
    /\ pc["service"] \in Control \ {"check", "reget"}
    /\ pc["nodes"] \in {"idle", "check", "reget", "ensure", "apply"}
    /\ \A w \in Worker : status[w] # "idle" <=> pc[w] \in Calling
    /\ \A w \in Worker : pc[w] \in Calling => KindSeen(w) \in Kind

CreatingGuarded ==
    \A w \in Worker : pc[w] \in {"ensure", "apply"} =>
      \A k \in Kind \ excused : k = KindSeen(w) =>
        service.finalizer /\ KindOf(service.annotation) = k

SeenOfService ==
    pc["service"] # "idle" /\ service # NoService =>
      \A k \in Kind \ excused :
        k = KindSeen("service") => KindOf(service.annotation) = k

NoneCreated(k) == have[k] = {} /\ ~Overlapped(k)
Deleted ==
    pc["service"] = "unfinalize" \/ (pc["service"] = "delete" /\ status["service"] = "ok")
NoOther ==
    pc["service"] \in {"get", "delete", "unfinalize"} =>
      \A k \in Kind \ excused :
        k # KindSeen("service") \/ Deleted => NoneCreated(k)

-----------------------------------------------------------------------------
(* Types.                                                                  *)

Seen == [service : ServiceObject \union {NoService}, nodes : SUBSET Node]

LEMMA NowhereType ==
  Nowhere \in Seen
BY DEF Nowhere, Seen

LEMMA RestType ==
  ASSUME TypeOK, NEW w \in Worker, Rest(w)
  PROVE  /\ seen' \in [Worker -> Seen]
         /\ \A v \in Worker \ {w} : seen'[v] = seen[v]
         /\ pc' = [pc EXCEPT ![w] = "idle"]
BY NowhereType DEF TypeOK, Rest, Goto, Seen

LEMMA RetryType ==
  ASSUME TypeOK, ControlOK, NEW w \in Worker, Retry(w), pc[w] # "idle"
  PROVE  /\ seen' \in [Worker -> Seen]
         /\ pc' \in [Worker -> Control]
         /\ queued' \in BOOLEAN
         /\ status' \in [Worker -> {"idle", "calling", "ok", "error"}]
         /\ UNCHANGED <<have, opposed, met, nodeQueued, cached, synced>>
         /\ ControlOK'
<1>1. CASE w = "service" \/ pc[w] = "reget"
  <2>1. Rest(w) /\ queued' = TRUE
    BY <1>1 DEF Retry
  <2>2. /\ pc' = [pc EXCEPT ![w] = "idle"] /\ seen' \in [Worker -> Seen]
        /\ \A v \in Worker \ {w} : seen'[v] = seen[v]
    BY <2>1, RestType
  <2>3. \A v \in Worker \ {w} : KindSeen(v)' = KindSeen(v)
    BY <2>2 DEF KindSeen
  <2>4. status' = [status EXCEPT ![w] = "idle"]
    BY DEF Retry
  <2> QED
    BY <2>1, <2>2, <2>3, <2>4 DEF Retry, TypeOK, ControlOK, Worker, Control, Calling, Deleting
<1>2. CASE w = "nodes" /\ pc[w] # "reget"
  BY <1>2 DEF Retry, Goto, TypeOK, ControlOK, KindSeen, Worker, Control, Calling, Deleting, Seen
<1> QED
  BY <1>1, <1>2 DEF Worker

LEMMA CallType ==
  ASSUME TypeOK, ControlOK, NEW w \in Worker, NEW label, Call(w, label), KindSeen(w) \in Kind,
         label = "apply" \/ (w = "service" /\ label \in Deleting)
  PROVE  /\ pc' \in [Worker -> Control]
         /\ status' \in [Worker -> {"idle", "calling", "ok", "error"}]
         /\ UNCHANGED <<seen, have, opposed, met>>
         /\ ControlOK'
BY DEF Call, Goto, TypeOK, ControlOK, KindSeen, Worker, Control, Calling, Deleting
-----------------------------------------------------------------------------
Shape == TypeOK /\ ControlOK

LEMMA GetShape ==
  ASSUME Shape, Get
  PROVE  Shape'
<1>1. CASE ExistsOrNot(seen["service"].service) /\ KindSeen("service") \in Kind
  <2>1. Call("service", "delete") /\ UNCHANGED <<queues, cluster, outage, excused, crossed>>
    BY <1>1 DEF Get, EnsureLoadBalancerDeleted
  <2> QED
    BY <1>1, <2>1, CallType DEF Shape, TypeOK, queues, cluster, Seen, Worker, Deleting
<1>2. CASE ExistsOrNot(seen["service"].service) /\ KindSeen("service") \notin Kind
  <2>1. Retry("service") /\ UNCHANGED <<cluster, outage, excused, crossed>> /\ pc["service"] = "get"
    BY <1>2 DEF Get, EnsureLoadBalancerDeleted
  <2> QED
    BY <2>1, RetryType DEF Shape, TypeOK, cluster, Seen, Worker
<1>3. CASE ~ExistsOrNot(seen["service"].service)
  <2>1. /\ pc' = [pc EXCEPT !["service"] = "unfinalize"]
        /\ UNCHANGED <<status, seen, have, opposed, met, queues, cluster, outage, crossed>>
        /\ excused' \subseteq Kind
    BY <1>3 DEF Get, Goto, Shape, TypeOK
  <2> QED
    BY <2>1 DEF Get, Shape, TypeOK, ControlOK, KindSeen, cluster, queues, Seen, Worker, Control, Calling,
                Deleting
<1> QED
  BY <1>1, <1>2, <1>3

LEMMA ReapShape ==
  ASSUME Shape, Reap
  PROVE  Shape'
<1>1. CASE KindSeen("service") \in Kind
  <2>1. Call("service", "purge") /\ UNCHANGED <<queues, cluster, outage, history>>
    BY <1>1 DEF Reap, EnsureLoadBalancerDeleted
  <2> QED
    BY <1>1, <2>1, CallType DEF Shape, TypeOK, queues, cluster, history, Seen, Worker, Deleting
<1>2. CASE KindSeen("service") \notin Kind
  <2>1. Retry("service") /\ UNCHANGED <<cluster, outage, history>> /\ pc["service"] = "reap"
    BY <1>2 DEF Reap, EnsureLoadBalancerDeleted
  <2> QED
    BY <2>1, RetryType DEF Shape, TypeOK, cluster, history, Seen, Worker
<1> QED
  BY <1>1, <1>2

LEMMA SyncShape ==
  ASSUME Shape, Sync
  PROVE  Shape'
<1>1. UNCHANGED <<cluster, have, opposed, met, outage, nodeQueued, synced, status, history>>
  BY DEF Sync
<1>2. queued' \in BOOLEAN
  BY DEF Sync
<1>3. PICK label \in {"get", "finalize", "reap", "idle"} : pc' = [pc EXCEPT !["service"] = label]
  <2>1. pc["service"] = "idle" => pc = [pc EXCEPT !["service"] = "idle"]
    BY DEF Shape, TypeOK
  <2> QED
    BY <2>1 DEF Sync, Goto
<1>4. cached' \in ServiceObject \union {NoService}
  BY DEF Sync, Shape, TypeOK
<1>5. seen' \in [Worker -> Seen]
  <2>1. \A s \in ServiceObject \union {NoService} :
          [seen EXCEPT !["service"].service = s] \in [Worker -> Seen]
    BY DEF Shape, TypeOK, Seen, Worker
  <2> QED
    BY <2>1 DEF Sync, Shape, TypeOK, Seen
<1>6. pc["service"] = "idle" /\ seen'["nodes"] = seen["nodes"]
  BY DEF Sync, Shape, TypeOK, Worker
<1> QED
  BY <1>1, <1>2, <1>3, <1>4, <1>5, <1>6
     DEF Shape, TypeOK, ControlOK, KindSeen, cluster, history, Seen, Worker, Control, Calling, Deleting

LEMMA FinalizeShape ==
  ASSUME Shape, Finalize
  PROVE  Shape'
<1>1. CASE Retry("service") /\ UNCHANGED <<service, crossed>>
  <2> QED
    BY <1>1, RetryType DEF Finalize, Shape, TypeOK, Seen, Worker
<1>2. CASE /\ service # NoService
           /\ service' = [service EXCEPT !.finalizer = TRUE]
           /\ Goto("service", "ensure")
           /\ seen' = [seen EXCEPT !["service"].nodes = nodes]
           /\ synced' = nodes
           /\ crossed' = FALSE
           /\ UNCHANGED <<queued, nodeQueued, cached, status, have, opposed, met>>
  <2>1. service' \in ServiceObject
    BY <1>2 DEF Shape, TypeOK, ServiceObject
  <2>2. seen' \in [Worker -> Seen]
    BY <1>2 DEF Shape, TypeOK, Seen, Worker
  <2>3. pc' = [pc EXCEPT !["service"] = "ensure"]
    BY <1>2 DEF Goto
  <2> QED
    BY <1>2, <2>1, <2>2, <2>3
       DEF Finalize, Shape, TypeOK, ControlOK, KindSeen, Seen, Worker, Control, Calling, Deleting
<1> QED
  BY <1>1, <1>2 DEF Finalize

LEMMA UnfinalizeShape ==
  ASSUME Shape, Unfinalize
  PROVE  Shape'
<1>1. /\ seen' \in [Worker -> Seen]
      /\ seen'["nodes"] = seen["nodes"]
      /\ pc' = [pc EXCEPT !["service"] = "idle"]
  BY RestType DEF Unfinalize, Shape, Worker
<1>2. service' \in ServiceObject \union {NoService}
  <2>1. service # NoService => [service EXCEPT !.finalizer = FALSE] \in ServiceObject
    BY DEF Shape, TypeOK, ServiceObject
  <2> QED
    BY <2>1 DEF Unfinalize, Shape, TypeOK
<1>3. cached' \in ServiceObject \union {NoService} /\ queued' \in BOOLEAN
  BY DEF Unfinalize, Shape, TypeOK
<1> QED
  BY <1>1, <1>2, <1>3
     DEF Unfinalize, Shape, TypeOK, ControlOK, KindSeen, history, Seen, Worker, Control, Calling, Deleting

LEMMA NodeSyncShape ==
  ASSUME Shape, NodeSync
  PROVE  Shape'
<1>1. seen' \in [Worker -> Seen] /\ synced' \subseteq Node
  BY DEF NodeSync, Shape, TypeOK, Seen, Worker
<1>2. pc' \in [Worker -> Control] /\ ControlOK'
  BY DEF NodeSync, Goto, Shape, TypeOK, ControlOK, KindSeen, Worker, Control, Calling, Deleting
<1> QED
  BY <1>1, <1>2 DEF NodeSync, Shape, TypeOK, cluster, history, Seen

LEMMA UpdateShape ==
  ASSUME Shape, UpdateLoadBalancer
  PROVE  Shape'
<1>1. CASE Goto("nodes", "ensure") /\ UNCHANGED <<status, seen, have, opposed, met, queues>>
  <2>1. pc' \in [Worker -> Control] /\ ControlOK'
    BY <1>1 DEF UpdateLoadBalancer, Goto, Shape, TypeOK, ControlOK, KindSeen, Worker, Control, Calling,
                Deleting
  <2> QED
    BY <1>1, <2>1 DEF UpdateLoadBalancer, Shape, TypeOK, cluster, queues, history
<1>2. CASE Retry("nodes")
  BY <1>2, RetryType DEF UpdateLoadBalancer, Shape, TypeOK, cluster, history, Seen, Worker
<1> QED
  BY <1>1, <1>2 DEF UpdateLoadBalancer

LEMMA RegetShape ==
  ASSUME Shape, Reget
  PROVE  Shape'
<1>1. CASE Retry("nodes") /\ UNCHANGED crossed
  BY <1>1, RetryType DEF Reget, Shape, TypeOK, cluster, Seen, Worker
<1>2. CASE /\ Rest("nodes") /\ crossed' \in BOOLEAN
           /\ UNCHANGED <<status, have, opposed, met, queues>>
  <2>1. /\ seen' \in [Worker -> Seen]
        /\ seen'["service"] = seen["service"]
        /\ pc' = [pc EXCEPT !["nodes"] = "idle"]
    BY <1>2, RestType DEF Shape, Worker
  <2> QED
    BY <1>2, <2>1 DEF Reget, Shape, TypeOK, ControlOK, KindSeen, cluster, queues, Seen, Worker, Control,
                      Calling, Deleting
<1>3. crossed' \in BOOLEAN
  BY DEF Reget, Shape, TypeOK
<1> QED
  BY <1>1, <1>2, <1>3 DEF Reget
LEMMA EnsureShape ==
  ASSUME Shape, NEW w \in Worker, EnsureLoadBalancer(w)
  PROVE  Shape'
<1>1. CASE /\ Call(w, "apply") /\ UNCHANGED queues
           /\ Valid(seen[w].service.annotation)
  <2>1. KindSeen(w) \in Kind
    BY <1>1 DEF Valid, KindSeen, KindOf, isElasticLoadBalancer, Kind, isL4LoadBalancer
  <2> QED
    BY <1>1, <2>1, CallType DEF EnsureLoadBalancer, Shape, TypeOK, cluster, queues, history, Seen
<1>2. CASE Retry(w)
  BY <1>2, RetryType DEF EnsureLoadBalancer, Shape, TypeOK, cluster, history, Seen
<1> QED
  BY <1>1, <1>2 DEF EnsureLoadBalancer

LEMMA WantedType ==
  ASSUME Shape, NEW w \in Worker
  PROVE  Goal(w) \subseteq Part
<1>1. seen[w].service.ports \subseteq Listener /\ seen[w].nodes \subseteq Node
  <2>1. \A s \in ServiceObject : s.ports \subseteq Listener
    BY PortsAssumption DEF ServiceObject
  <2>2. NoService.ports \subseteq Listener
    BY DEF NoService
  <2>3. seen[w].service \in ServiceObject \/ seen[w].service = NoService
    BY DEF Shape, TypeOK
  <2>4. seen[w].service.ports \subseteq Listener
    BY <2>1, <2>2, <2>3
  <2> QED
    BY <2>4 DEF Shape, TypeOK
<1> QED
  BY <1>1 DEF Goal, Asks, Part

LEMMA WorkShape ==
  ASSUME Shape, NEW w \in Worker, Work(w)
  PROVE  Shape'
<1> DEFINE k == KindSeen(w)
<1>1. UNCHANGED <<workers, cluster, outage, queues, history>>
  BY DEF Work
<1>2. PICK add \in SUBSET (Goal(w) \ have[k]), drop \in SUBSET (have[k] \ Goal(w)) :
        have' = [have EXCEPT ![k] = (@ \union add) \ drop]
  BY DEF Work
<1>3. /\ opposed' = [opposed EXCEPT ![k] = @ \union {v \in Others(w) : Goal(v) # Goal(w)}]
      /\ met' = met \union Others(w)
      /\ Others(w) \subseteq Worker
  BY DEF Work, Others
<1>4. have' \in [Kind -> SUBSET Part] /\ opposed' \in [Kind -> SUBSET Worker] /\ met' \subseteq Worker
  <2>1. k \in Kind => have[k] \subseteq Part /\ opposed[k] \subseteq Worker
    BY DEF Shape, TypeOK
  <2>2. Goal(w) \subseteq Part
    BY WantedType
  <2>3. k \in Kind => (have[k] \union add) \ drop \in SUBSET Part
    BY <2>1, <2>2
  <2> QED
    BY <1>2, <1>3, <2>1, <2>3 DEF Shape, TypeOK
<1> QED
  BY <1>1, <1>4 DEF Shape, TypeOK, ControlOK, KindSeen, workers, cluster, queues, history, Seen

LEMMA SucceedShape ==
  ASSUME Shape, NEW w \in Worker, Succeed(w)
  PROVE  Shape'
<1>1. /\ status[w] = "calling"
      /\ status' = [status EXCEPT ![w] = "ok"]
      /\ UNCHANGED <<pc, seen, have, cluster, outage, queues>>
  BY DEF Succeed
<1>2. opposed' \in [Kind -> SUBSET Worker] /\ met' \subseteq Worker
  BY DEF Succeed, Shape, TypeOK
<1>3. crossed' \in BOOLEAN
  BY DEF Succeed, Shape, TypeOK
<1>4. excused' \subseteq Kind
  <2>1. KindSeen(w) \in Kind
    BY <1>1 DEF Shape, ControlOK
  <2> QED
    BY <2>1 DEF Succeed, Shape, TypeOK
<1> QED
  BY <1>1, <1>2, <1>3, <1>4 DEF Shape, TypeOK, ControlOK, KindSeen, cluster, queues, Seen, Worker
LEMMA FailShape ==
  ASSUME Shape, NEW w \in Worker, Fail(w)
  PROVE  Shape'
<1>1. /\ status[w] = "calling"
      /\ status' = [status EXCEPT ![w] = "error"]
      /\ UNCHANGED <<pc, seen, have, cluster, outage, queues, history>>
      /\ opposed' \in [Kind -> SUBSET Worker] /\ met' \subseteq Worker
  BY DEF Fail, Shape, TypeOK
<1> QED
  BY <1>1 DEF Shape, TypeOK, ControlOK, KindSeen, cluster, queues, history, Seen, Worker

LEMMA FaultShape ==
  ASSUME Shape, NEW w \in Worker, Fault(w)
  PROVE  Shape'
BY RetryType DEF Fault, Shape, TypeOK, cluster, history, Seen

LEMMA AnswerShape ==
  ASSUME Shape, NEW w \in Worker, Answer(w)
  PROVE  Shape'
<1>1. status[w] # "idle" /\ pc[w] \in Calling /\ UNCHANGED <<cluster, outage, history>>
  BY DEF Answer, Shape, ControlOK
<1>2. CASE Retry(w)
  BY <1>1, <1>2, RetryType DEF Shape, TypeOK, cluster, history, Seen, Calling, Deleting
<1>3. CASE /\ IF pc[w] = "delete" THEN Goto(w, "unfinalize") /\ UNCHANGED seen ELSE Rest(w)
           /\ cached' = IF pc[w] = "purge" THEN NoService ELSE cached
           /\ status' = [status EXCEPT ![w] = "idle"]
           /\ UNCHANGED <<have, opposed, met, queued, nodeQueued, synced>>
  <2>1. /\ seen' \in [Worker -> Seen]
        /\ \A v \in Worker \ {w} : seen'[v] = seen[v]
    BY <1>3, RestType DEF Shape, TypeOK, Seen
  <2>2. \/ pc' = [pc EXCEPT ![w] = "idle"]
        \/ pc' = [pc EXCEPT ![w] = "unfinalize"] /\ w = "service"
    BY <1>3, RestType DEF Goto, Shape, ControlOK, Worker
  <2>3. \A v \in Worker \ {w} : KindSeen(v)' = KindSeen(v)
    BY <2>1 DEF KindSeen
  <2>4. pc' \in [Worker -> Control] /\ ControlOK'
    BY <1>3, <2>2, <2>3 DEF Shape, TypeOK, ControlOK, Worker, Control, Calling, Deleting
  <2>5. cached' \in ServiceObject \union {NoService}
    BY <1>3 DEF Shape, TypeOK
  <2> QED
    BY <1>1, <1>3, <2>1, <2>4, <2>5 DEF Shape, TypeOK, cluster, history, Seen
<1> QED
  BY <1>2, <1>3 DEF Answer

LEMMA RestartShape ==
  ASSUME Shape, Restart
  PROVE  Shape'
<1>1. seen' \in [Worker -> Seen]
  BY NowhereType DEF Restart
<1>2. queued' \in BOOLEAN
  <2>1. service.wants \in BOOLEAN /\ NeedsCleanup(service) \in BOOLEAN
    <3>1. CASE service \in ServiceObject
      BY <3>1 DEF NeedsCleanup, ServiceObject
    <3>2. CASE service = NoService
      BY <3>2 DEF NeedsCleanup, NoService
    <3> QED
      BY <3>1, <3>2 DEF Shape, TypeOK
  <2> QED
    BY <2>1 DEF Restart
<1> QED
  BY <1>1, <1>2 DEF Restart, Shape, TypeOK, ControlOK, cluster, Seen, Worker, Control, Calling,
                    Deleting

LEMMA ClusterShape ==
  ASSUME Shape,
         OutageEnds \/ ChangeService \/ DeleteService \/ ScaleNodes
           \/ \E n \in Node : LoseMachine(n) \/ DeleteNode(n)
  PROVE  Shape'
<1>1. CASE OutageEnds
  BY <1>1 DEF OutageEnds, Shape, TypeOK, ControlOK, KindSeen, cluster, queues, workers, history
<1>2. CASE ChangeService
  <2>1. service \in ServiceObject
    BY <1>2 DEF ChangeService, Shape, TypeOK
  <2>2. service' \in ServiceObject
    BY <1>2, <2>1 DEF ChangeService, ServiceObject
  <2>3. excused' \subseteq Kind
    BY <1>2 DEF ChangeService, Shape, TypeOK
  <2>4. queued' \in BOOLEAN
    <3>1. service.wants \in BOOLEAN /\ service'.wants \in BOOLEAN
            /\ NeedsCleanup(service') \in BOOLEAN /\ queued \in BOOLEAN
      BY <2>1, <2>2 DEF ServiceObject, NeedsCleanup, Shape, TypeOK
    <3> QED
      BY <1>2, <3>1 DEF ChangeService
  <2>5. changes' \in 0..MaxChanges
    <3>1. Changing
      BY <1>2 DEF ChangeService
    <3> QED
      BY <3>1, MaxChangesAssumption DEF Changing, Shape, TypeOK
  <2> QED
    BY <1>2, <2>2, <2>3, <2>4, <2>5
       DEF ChangeService, Changing, Shape, TypeOK, ControlOK, KindSeen, workers
<1>3. CASE DeleteService
  <2>1. service \in ServiceObject
    BY <1>3 DEF DeleteService, Shape, TypeOK
  <2>2. service' \in ServiceObject \union {NoService}
    BY <1>3, <2>1 DEF DeleteService, ServiceObject
  <2>3. changes' \in 0..MaxChanges
    BY <1>3, MaxChangesAssumption DEF DeleteService, Changing, Shape, TypeOK
  <2> QED
    BY <1>3, <2>2, <2>3
       DEF DeleteService, Changing, Shape, TypeOK, ControlOK, KindSeen, workers
<1>4. CASE ScaleNodes
  <2>1. Lasting \subseteq nodes' \intersect machines /\ nodes' \subseteq Node
    BY <1>4, LastingAssumption DEF ScaleNodes, Shape, TypeOK
  <2>2. changes' \in 0..MaxChanges
    BY <1>4, MaxChangesAssumption DEF ScaleNodes, Changing, Shape, TypeOK
  <2> QED
    BY <1>4, <2>1, <2>2 DEF ScaleNodes, Changing, Shape, TypeOK, ControlOK, KindSeen, workers
<1>5. ASSUME NEW n \in Node, LoseMachine(n) PROVE Shape'
  <2>1. changes' \in 0..MaxChanges
    BY <1>5, MaxChangesAssumption DEF LoseMachine, Changing, Shape, TypeOK
  <2> QED
    BY <1>5, <2>1 DEF LoseMachine, Changing, Shape, TypeOK, ControlOK, KindSeen, workers, queues
<1>6. ASSUME NEW n \in Node, DeleteNode(n) PROVE Shape'
  <2>1. Lasting \subseteq nodes' \intersect machines /\ nodes' \subseteq Node
    BY <1>6 DEF DeleteNode, Shape, TypeOK
  <2> QED
    BY <1>6, <2>1 DEF DeleteNode, Shape, TypeOK, ControlOK, KindSeen, workers, history
<1> QED
  BY <1>1, <1>2, <1>3, <1>4, <1>5, <1>6
LEMMA ShapeInductive ==
  ASSUME Shape, [Next]_vars
  PROVE  Shape'
<1>1. CASE Next
  <2>1. CASE ServiceWorker \/ NodeWorker
    BY <2>1, SyncShape, ReapShape, GetShape, UnfinalizeShape, FinalizeShape, NodeSyncShape,
       UpdateShape, RegetShape
       DEF ServiceWorker, NodeWorker
  <2>2. CASE \E w \in Worker : CallOf(w) \/ Return(w) \/ Fault(w)
    BY <2>2, EnsureShape, WorkShape, AnswerShape, SucceedShape, FailShape, FaultShape
       DEF CallOf, Return
  <2> QED
    BY <1>1, <2>1, <2>2, RestartShape, ClusterShape DEF Next
<1>2. CASE UNCHANGED vars
  BY <1>2 DEF vars, cluster, queues, workers, history, Shape, TypeOK, ControlOK, KindSeen
<1> QED
  BY <1>1, <1>2

LEMMA InitShape ==
  ASSUME Init
  PROVE  Shape
<1>1. service \in ServiceObject
  BY DEF Init, ServiceObject, Annotation
<1>2. changes \in 0..MaxChanges
  BY MaxChangesAssumption DEF Init
<1>3. seen \in [Worker -> Seen]
  BY NowhereType DEF Init
<1>4. Lasting \subseteq nodes \intersect machines /\ nodes \subseteq Node
  BY LastingAssumption DEF Init
<1> QED
  BY <1>1, <1>2, <1>3, <1>4 DEF Init, Shape, TypeOK, ControlOK, Seen, Worker, Control, Calling, Deleting

\* The Service, its load balancers, the Nodes and what the workers hold of them
\* are always well-formed.
THEOREM TypeCorrect == Spec => []TypeOK
<1>1. Shape => TypeOK
  BY DEF Shape
<1> QED
  BY <1>1, InitShape, ShapeInductive, PTL DEF Spec

-----------------------------------------------------------------------------
(* Steps that touch neither the Service nor its load balancers, nor bring  *)
(* a worker closer to either.                                              *)

Owned == Guarded /\ CreatingGuarded /\ SeenOfService /\ NoOther

AtDeletion == pc["service"] \in {"get", "delete", "unfinalize"}
AtCreation(w) == pc[w] \in {"ensure", "apply"}
Apart ==
    /\ UNCHANGED <<service, have>>
    /\ excused \subseteq excused'
    /\ \A w \in Worker : AtCreation(w)' => AtCreation(w) /\ KindSeen(w)' = KindSeen(w)
    /\ pc'["service"] # "idle" =>
         pc["service"] # "idle" /\ KindSeen("service")' = KindSeen("service")
    /\ AtDeletion' => AtDeletion /\ (Deleted' => Deleted)

LEMMA ApartOwned ==
  ASSUME Owned, Apart
  PROVE  Owned'
<1>1. Guarded'
  BY DEF Owned, Guarded, Apart
<1>2. CreatingGuarded'
  BY DEF Owned, CreatingGuarded, Apart, AtCreation
<1>3. SeenOfService'
  BY DEF Owned, SeenOfService, Apart
<1>4. NoOther'
  <2> SUFFICES ASSUME AtDeletion', NEW k \in Kind \ excused',
                      k # KindSeen("service")' \/ Deleted'
               PROVE  NoneCreated(k)'
    BY DEF NoOther, AtDeletion
  <2>1. NoneCreated(k)
    <3>1. AtDeletion /\ (Deleted' => Deleted) /\ KindSeen("service")' = KindSeen("service")
      BY DEF Apart, AtDeletion
    <3> QED
      BY <3>1 DEF Owned, NoOther, AtDeletion, Apart
  <2> QED
    BY <2>1 DEF NoneCreated, Overlapped, Apart, AtCreation, Worker
<1> QED
  BY <1>1, <1>2, <1>3, <1>4 DEF Owned

LEMMA RetryApart ==
  ASSUME Shape, NEW w \in Worker, Retry(w), UNCHANGED service, excused \subseteq excused'
  PROVE  Apart
<1>1. CASE w = "service" \/ pc[w] = "reget"
  <2>1. Rest(w)
    BY <1>1 DEF Retry
  <2>2. /\ pc' = [pc EXCEPT ![w] = "idle"]
        /\ \A v \in Worker \ {w} : seen'[v] = seen[v]
    BY <2>1, RestType DEF Shape
  <2>3. \A v \in Worker \ {w} : KindSeen(v)' = KindSeen(v)
    BY <2>2 DEF KindSeen
  <2>4. status' = [status EXCEPT ![w] = "idle"] /\ have' = have
    BY DEF Retry
  <2> QED
    BY <2>2, <2>3, <2>4 DEF Apart, AtCreation, AtDeletion, Deleted, Worker, Shape, TypeOK
<1>2. CASE w = "nodes" /\ pc[w] # "reget"
  <2>1. /\ pc' = [pc EXCEPT ![w] = "reget"] /\ UNCHANGED <<seen, have>>
        /\ status' = [status EXCEPT ![w] = "idle"]
    BY <1>2 DEF Retry, Goto
  <2>2. \A v \in Worker : KindSeen(v)' = KindSeen(v)
    BY <2>1 DEF KindSeen
  <2> QED
    BY <1>2, <2>1, <2>2 DEF Apart, AtCreation, AtDeletion, Deleted, Worker, Shape, TypeOK
<1> QED
  BY <1>1, <1>2 DEF Worker
\* Nothing but requests, Nodes or machines changed.
LEMMA StillApart ==
  ASSUME UNCHANGED <<service, have, excused, pc, seen>>, UNCHANGED status
  PROVE  Apart
BY DEF Apart, AtCreation, AtDeletion, Deleted, KindSeen

LEMMA CallApart ==
  ASSUME Shape, NEW w \in Worker, NEW label, Call(w, label),
         UNCHANGED <<service, excused>>,
         \/ label = "apply" /\ pc[w] = "ensure"
         \/ w = "service" /\ label \in Deleting /\ pc[w] \in {"get", "reap"}
              /\ (label = "delete" => pc[w] = "get")
  PROVE  Apart
<1>1. /\ pc' = [pc EXCEPT ![w] = label] /\ status' = [status EXCEPT ![w] = "calling"]
      /\ UNCHANGED <<seen, have>>
  BY DEF Call, Goto
<1>2. \A v \in Worker : KindSeen(v)' = KindSeen(v)
  BY <1>1 DEF KindSeen
<1> QED
  BY <1>1, <1>2 DEF Apart, AtCreation, AtDeletion, Deleted, Deleting, Worker, Shape, TypeOK

LEMMA RestartApart ==
  ASSUME Shape, Restart
  PROVE  Apart
BY DEF Restart, Apart, AtCreation, AtDeletion, Deleted, cluster, Worker

LEMMA NodeSyncApart ==
  ASSUME Shape, NodeSync
  PROVE  Apart
<1>1. UNCHANGED <<service, have, excused, status>>
  BY DEF NodeSync, cluster, history
<1>2. \/ pc' = [pc EXCEPT !["nodes"] = "check"] /\ seen'["service"] = seen["service"]
      \/ UNCHANGED <<pc, seen>>
  BY DEF NodeSync, Goto, Shape, TypeOK, Worker
<1> QED
  BY <1>1, <1>2 DEF Apart, AtCreation, AtDeletion, Deleted, KindSeen, Worker, Shape, TypeOK

LEMMA AnswerApart ==
  ASSUME Shape, NEW w \in Worker, Answer(w)
  PROVE  Apart
<1>1. UNCHANGED <<service, excused>> /\ pc[w] \in Calling
  BY DEF Answer, cluster, history, Shape, ControlOK
<1>2. CASE Retry(w)
  BY <1>1, <1>2, RetryApart
<1>3. CASE /\ status[w] = "ok"
           /\ IF pc[w] = "delete" THEN Goto(w, "unfinalize") /\ UNCHANGED seen ELSE Rest(w)
           /\ status' = [status EXCEPT ![w] = "idle"]
           /\ UNCHANGED have
  <2>1. /\ \A v \in Worker \ {w} : seen'[v] = seen[v]
        /\ \/ pc' = [pc EXCEPT ![w] = "idle"]
           \/ /\ pc[w] = "delete" /\ w = "service" /\ UNCHANGED seen
              /\ pc' = [pc EXCEPT ![w] = "unfinalize"]
    BY <1>3, RestType DEF Goto, Shape, ControlOK, Worker
  <2>2. \A v \in Worker \ {w} : KindSeen(v)' = KindSeen(v)
    BY <2>1 DEF KindSeen
  <2>3. seen' = seen => KindSeen(w)' = KindSeen(w)
    BY DEF KindSeen
  <2> QED
    BY <1>1, <1>3, <2>1, <2>2, <2>3
       DEF Apart, AtCreation, AtDeletion, Deleted, Worker, Shape, TypeOK
<1> QED
  BY <1>2, <1>3 DEF Answer

-----------------------------------------------------------------------------
(* The steps that touch the Service or its load balancers.                 *)

LEMMA SyncOwned ==
  ASSUME Shape, Owned, Sync
  PROVE  Owned'
<1>1. UNCHANGED <<service, have, excused, status>> /\ pc["service"] = "idle"
  BY DEF Sync, cluster, history
<1>2. seen'["nodes"] = seen["nodes"]
  BY DEF Sync, Shape, TypeOK, Worker
<1>3. \/ /\ service # NoService
         /\ pc' = [pc EXCEPT !["service"] = IF ToDelete(service) THEN "get" ELSE "finalize"]
         /\ seen' = [seen EXCEPT !["service"].service = service]
      \/ /\ service = NoService
         /\ pc' = [pc EXCEPT !["service"] = "reap"] \/ pc' = pc
  BY DEF Sync, Goto
<1>4. service # NoService => KindSeen("service")' = KindOf(service.annotation)
  BY <1>3 DEF KindSeen, Shape, TypeOK, Worker
<1>5. KindSeen("nodes")' = KindSeen("nodes")
  BY <1>2 DEF KindSeen
<1>6. Guarded'
  BY <1>1 DEF Owned, Guarded
<1>7. CreatingGuarded'
  BY <1>1, <1>3, <1>5 DEF Owned, CreatingGuarded, Worker, Shape, TypeOK
<1>8. SeenOfService'
  BY <1>1, <1>3, <1>4 DEF SeenOfService
<1>9. NoOther'
  <2> SUFFICES ASSUME AtDeletion', NEW k \in Kind \ excused', k # KindSeen("service")' \/ Deleted'
               PROVE  NoneCreated(k)'
    BY DEF NoOther, AtDeletion
  <2>1. service # NoService /\ pc'["service"] = "get"
    BY <1>1, <1>3 DEF AtDeletion, Shape, TypeOK, Worker
  <2>2. k # KindOf(service.annotation)
    BY <1>4, <2>1 DEF Deleted
  <2>3. have[k] = {}
    BY <1>1, <2>2 DEF Owned, Guarded
  <2>4. ~Overlapped(k)
    BY <1>1, <2>2 DEF Owned, CreatingGuarded, Overlapped, Worker
  <2>5. pc'["nodes"] = pc["nodes"]
    BY <1>3 DEF Shape, TypeOK, Worker
  <2> QED
    BY <1>1, <1>5, <2>3, <2>4, <2>5 DEF NoneCreated, Overlapped
<1> QED
  BY <1>6, <1>7, <1>8, <1>9 DEF Owned

LEMMA GetOwned ==
  ASSUME Shape, Owned, Get
  PROVE  Owned'
<1>1. UNCHANGED service /\ pc["service"] = "get"
  BY DEF Get, cluster
<1>2. CASE ExistsOrNot(seen["service"].service)
  <2>1. UNCHANGED excused /\ (Call("service", "delete") \/ Retry("service"))
    BY <1>2 DEF Get, EnsureLoadBalancerDeleted
  <2>2. Apart
    BY <1>1, <2>1, CallApart, RetryApart DEF Deleting, Worker
  <2> QED
    BY <2>2, ApartOwned
<1>3. CASE ~ExistsOrNot(seen["service"].service)
  <2>1. /\ pc' = [pc EXCEPT !["service"] = "unfinalize"]
        /\ excused' = excused \union {k \in Kind : k = KindSeen("service") /\ Overlapped(k)}
        /\ UNCHANGED <<status, seen, have>>
    BY <1>3 DEF Get, Goto
  <2>2. \A v \in Worker : KindSeen(v)' = KindSeen(v)
    BY <2>1 DEF KindSeen
  <2>3. Guarded'
    BY <1>1, <2>1 DEF Owned, Guarded
  <2>4. CreatingGuarded'
    BY <1>1, <2>1, <2>2 DEF Owned, CreatingGuarded, Worker, Shape, TypeOK
  <2>5. SeenOfService'
    BY <1>1, <2>1, <2>2 DEF Owned, SeenOfService, Worker
  <2>6. NoOther'
    <3> SUFFICES ASSUME NEW k \in Kind \ excused' PROVE NoneCreated(k)'
      BY DEF NoOther
    <3>1. NoneCreated(k)
      <4>1. CASE k = KindSeen("service")
        BY <1>3, <2>1, <4>1 DEF ExistsOrNot, KindSeen, NoneCreated
      <4>2. CASE k # KindSeen("service")
        BY <1>1, <2>1, <4>2 DEF Owned, NoOther
      <4> QED
        BY <4>1, <4>2
    <3> QED
      BY <2>1, <2>2, <3>1 DEF NoneCreated, Overlapped, Worker, Shape, TypeOK
  <2> QED
    BY <2>3, <2>4, <2>5, <2>6 DEF Owned
<1> QED
  BY <1>2, <1>3

LEMMA UnfinalizeOwned ==
  ASSUME Shape, Owned, Unfinalize
  PROVE  Owned'
<1>1. /\ pc["service"] = "unfinalize" /\ pc' = [pc EXCEPT !["service"] = "idle"]
      /\ seen'["nodes"] = seen["nodes"] /\ UNCHANGED <<have, status, excused>>
  BY RestType DEF Unfinalize, Shape, Worker, history
<1>2. KindSeen("nodes")' = KindSeen("nodes")
  BY <1>1 DEF KindSeen
<1>3. \A k \in Kind \ excused : NoneCreated(k)
  BY <1>1 DEF Owned, NoOther, Deleted
<1>4. Guarded'
  BY <1>1, <1>3 DEF Guarded, NoneCreated
<1>5. CreatingGuarded'
  BY <1>1, <1>2, <1>3 DEF CreatingGuarded, NoneCreated, Overlapped, Worker, Shape, TypeOK
<1>6. SeenOfService' /\ NoOther'
  BY <1>1 DEF SeenOfService, NoOther, Worker, Shape, TypeOK
<1> QED
  BY <1>4, <1>5, <1>6 DEF Owned

LEMMA FinalizeOwned ==
  ASSUME Shape, Owned, Finalize
  PROVE  Owned'
<1>1. CASE Retry("service") /\ UNCHANGED service
  <2>1. Apart
    BY <1>1, RetryApart DEF Finalize, Worker
  <2> QED
    BY <2>1, ApartOwned
<1>2. CASE /\ service # NoService
           /\ service' = [service EXCEPT !.finalizer = TRUE]
           /\ Goto("service", "ensure")
           /\ seen' = [seen EXCEPT !["service"].nodes = nodes]
           /\ UNCHANGED have
  <2>1. /\ service' \in ServiceObject /\ service'.finalizer
        /\ service'.annotation = service.annotation
    BY <1>2 DEF Shape, TypeOK, ServiceObject
  <2>2. /\ pc' = [pc EXCEPT !["service"] = "ensure"] /\ pc["service"] = "finalize"
        /\ UNCHANGED excused
    BY <1>2 DEF Finalize, Goto
  <2>3. \A v \in Worker : KindSeen(v)' = KindSeen(v)
    BY <1>2 DEF KindSeen, Worker, Shape, TypeOK
  <2>4. Guarded'
    BY <1>2, <2>1, <2>2 DEF Owned, Guarded
  <2>5. \A k \in Kind \ excused : k = KindSeen("service") => KindOf(service.annotation) = k
    BY <1>2, <2>2 DEF Owned, SeenOfService
  <2>6. CreatingGuarded'
    BY <2>1, <2>2, <2>3, <2>5 DEF Owned, CreatingGuarded, Worker, Shape, TypeOK
  <2>7. SeenOfService'
    BY <2>1, <2>2, <2>3, <2>5 DEF SeenOfService, Worker
  <2>8. NoOther'
    BY <2>2 DEF NoOther, Worker, Shape, TypeOK
  <2> QED
    BY <2>4, <2>6, <2>7, <2>8 DEF Owned
<1> QED
  BY <1>1, <1>2 DEF Finalize
LEMMA UpdateOwned ==
  ASSUME Shape, Owned, UpdateLoadBalancer
  PROVE  Owned'
<1>1. UNCHANGED <<service, excused>> /\ pc["nodes"] = "check"
  BY DEF UpdateLoadBalancer, cluster, history
<1>2. CASE Retry("nodes")
  <2>1. Apart
    BY <1>1, <1>2, RetryApart DEF Worker
  <2> QED
    BY <2>1, ApartOwned
<1>3. CASE /\ ExistsOrNot(seen["nodes"].service)
           /\ Goto("nodes", "ensure") /\ UNCHANGED <<status, seen, have>>
  <2>1. pc' = [pc EXCEPT !["nodes"] = "ensure"]
    BY <1>3 DEF Goto
  <2>2. \A v \in Worker : KindSeen(v)' = KindSeen(v)
    BY <1>3 DEF KindSeen
  <2>3. have[KindSeen("nodes")] # {}
    BY <1>3 DEF ExistsOrNot, KindSeen
  <2>4. Guarded'
    BY <1>1, <1>3 DEF Owned, Guarded
  <2>5. CreatingGuarded'
    BY <1>1, <2>1, <2>2, <2>3 DEF Owned, Guarded, CreatingGuarded, Worker, Shape, TypeOK
  <2>6. SeenOfService'
    BY <1>1, <2>1, <2>2 DEF Owned, SeenOfService, Worker, Shape, TypeOK
  <2>7. NoOther'
    <3> SUFFICES ASSUME AtDeletion', NEW k \in Kind \ excused', k # KindSeen("service")' \/ Deleted'
                 PROVE  NoneCreated(k)'
      BY DEF NoOther, AtDeletion
    <3>1. NoneCreated(k)
      BY <1>1, <1>3, <2>1, <2>2 DEF AtDeletion, Deleted, Owned, NoOther, Worker, Shape, TypeOK
    <3>2. k # KindSeen("nodes")
      BY <2>3, <3>1 DEF NoneCreated
    <3> QED
      BY <1>3, <2>2, <3>1, <3>2 DEF NoneCreated, Overlapped, Worker
  <2> QED
    BY <2>4, <2>5, <2>6, <2>7 DEF Owned
<1> QED
  BY <1>2, <1>3 DEF UpdateLoadBalancer

LEMMA WorkOwned ==
  ASSUME Shape, Owned, NEW w \in Worker, Work(w)
  PROVE  Owned'
<1> DEFINE k == KindSeen(w)
<1>1. /\ status[w] = "calling" /\ k \in Kind /\ pc[w] \in Calling
      /\ UNCHANGED <<pc, status, seen, service, excused>>
  BY DEF Work, workers, cluster, history, Shape, ControlOK
<1>2. \A v \in Worker : KindSeen(v)' = KindSeen(v)
  BY <1>1 DEF KindSeen
<1>3. \A j \in Kind \ {k} : have'[j] = have[j]
  BY DEF Work, Shape, TypeOK
<1>4. have'[k] \subseteq have[k] \union Goal(w)
  BY <1>1 DEF Work, Shape, TypeOK
<1>5. pc[w] \in Deleting => have'[k] \subseteq have[k]
  BY <1>4 DEF Goal
<1>6. Guarded'
  <2> SUFFICES ASSUME NEW j \in Kind \ excused, have'[j] # {}
               PROVE  service.finalizer /\ KindOf(service.annotation) = j
    BY <1>1 DEF Guarded
  <2>1. CASE have[j] # {}
    BY <2>1 DEF Owned, Guarded
  <2>2. CASE have[j] = {}
    <3>1. j = k
      BY <1>3, <2>2
    <3>2. pc[w] = "apply"
      BY <1>1, <1>5, <2>2, <3>1 DEF Calling
    <3> QED
      BY <3>1, <3>2 DEF Owned, CreatingGuarded
  <2> QED
    BY <2>1, <2>2
<1>7. CreatingGuarded'
  BY <1>1, <1>2 DEF Owned, CreatingGuarded
<1>8. SeenOfService'
  BY <1>1, <1>2 DEF Owned, SeenOfService, Worker
<1>9. NoOther'
  <2> SUFFICES ASSUME AtDeletion, NEW j \in Kind \ excused, j # KindSeen("service") \/ Deleted
               PROVE  NoneCreated(j)'
    BY <1>1, <1>2 DEF NoOther, AtDeletion, Deleted, Worker
  <2>1. NoneCreated(j)
    BY DEF Owned, NoOther, AtDeletion
  <2>2. ~Overlapped(j)'
    BY <1>1, <1>2, <2>1 DEF NoneCreated, Overlapped, Worker
  <2>3. have'[j] = {}
    <3>1. CASE j # k
      BY <1>3, <2>1, <3>1 DEF NoneCreated
    <3>2. CASE j = k
      <4>1. w = "service"
        <5>1. w = "nodes" => pc[w] = "apply"
          BY <1>1 DEF Calling, Deleting, Shape, ControlOK
        <5> QED
          BY <2>1, <3>2, <5>1 DEF NoneCreated, Overlapped, Worker
      <4>2. pc[w] \in Deleting
        BY <1>1, <4>1 DEF AtDeletion, Calling, Deleting
      <4> QED
        BY <1>5, <2>1, <3>2, <4>2 DEF NoneCreated
    <3> QED
      BY <3>1, <3>2
  <2> QED
    BY <2>2, <2>3 DEF NoneCreated
<1> QED
  BY <1>6, <1>7, <1>8, <1>9 DEF Owned

LEMMA SucceedOwned ==
  ASSUME Shape, Owned, NEW w \in Worker, Succeed(w)
  PROVE  Owned'
<1> DEFINE k == KindSeen(w)
<1>1. /\ status[w] = "calling" /\ k \in Kind /\ pc[w] \in Calling
      /\ status' = [status EXCEPT ![w] = "ok"]
      /\ UNCHANGED <<pc, seen, have, service>>
  BY DEF Succeed, cluster, Shape, ControlOK
<1>2. /\ excused \subseteq excused'
      /\ pc[w] \in Deleting /\ (Overlapped(k) \/ w \in opposed[k]) => k \in excused'
  BY DEF Succeed
<1>3. \A v \in Worker : KindSeen(v)' = KindSeen(v)
  BY <1>1 DEF KindSeen
<1>4. CASE w = "service" /\ pc[w] = "delete"
  <2>1. Guarded' /\ CreatingGuarded' /\ SeenOfService'
    BY <1>1, <1>2, <1>3 DEF Owned, Guarded, CreatingGuarded, SeenOfService, Worker
  <2>2. NoOther'
    <3> SUFFICES ASSUME NEW j \in Kind \ excused' PROVE NoneCreated(j)'
      BY DEF NoOther
    <3>1. NoneCreated(j)
      <4>1. CASE j # k
        BY <1>2, <1>4, <4>1 DEF Owned, NoOther
      <4>2. CASE j = k
        <5>1. ~Overlapped(k) /\ w \notin opposed[k]
          BY <1>2, <1>4, <4>2 DEF Deleting
        <5>2. Goal(w) = {}
          BY <1>4 DEF Goal, Deleting
        <5>3. have[k] = Goal(w)
          BY <5>1 DEF Succeed
        <5> QED
          BY <4>2, <5>1, <5>2, <5>3 DEF NoneCreated
      <4> QED
        BY <4>1, <4>2
    <3> QED
      BY <1>1, <1>3, <3>1 DEF NoneCreated, Overlapped, Worker
  <2> QED
    BY <2>1, <2>2 DEF Owned
<1>5. CASE ~(w = "service" /\ pc[w] = "delete")
  <2>1. Apart
    BY <1>1, <1>2, <1>3, <1>5 DEF Apart, AtCreation, AtDeletion, Deleted, Worker, Shape, TypeOK
  <2> QED
    BY <2>1, ApartOwned
<1> QED
  BY <1>4, <1>5

LEMMA ChangeServiceOwned ==
  ASSUME Shape, Owned, ChangeService \/ DeleteService
  PROVE  Owned'
<1>1. UNCHANGED <<have, pc, status, seen>> /\ service \in ServiceObject
  BY DEF ChangeService, DeleteService, Changing, workers, Shape, TypeOK
<1>2. \A v \in Worker : KindSeen(v)' = KindSeen(v)
  BY <1>1 DEF KindSeen
<1>3. /\ excused \subseteq excused'
      /\ \A k \in Kind \ excused' : service.finalizer /\ KindOf(service.annotation) = k =>
           service'.finalizer /\ KindOf(service'.annotation) = k
      /\ \A k \in Kind \ excused' : service' # NoService /\ KindOf(service.annotation) = k =>
           KindOf(service'.annotation) = k
  <2>1. CASE ChangeService
    <3>1. service'.finalizer = service.finalizer
      BY <1>1, <2>1 DEF ChangeService, ServiceObject
    <3>2. /\ excused \subseteq excused'
          /\ \/ KindOf(service'.annotation) = KindOf(service.annotation)
             \/ KindOf(service.annotation) \notin Kind \ excused'
      BY <2>1 DEF ChangeService
    <3> QED
      BY <3>1, <3>2
  <2>2. CASE DeleteService
    BY <1>1, <2>2 DEF DeleteService, ServiceObject
  <2> QED
    BY <2>1, <2>2
<1>4. service # NoService
  BY DEF ChangeService, DeleteService
<1>5. Guarded'
  BY <1>1, <1>3 DEF Owned, Guarded
<1>6. CreatingGuarded'
  BY <1>1, <1>2, <1>3 DEF Owned, CreatingGuarded
<1>7. SeenOfService'
  BY <1>1, <1>2, <1>3, <1>4 DEF Owned, SeenOfService, Worker
<1>8. NoOther'
  <2>1. AtDeletion' = AtDeletion /\ Deleted' = Deleted
    BY <1>1 DEF AtDeletion, Deleted
  <2> SUFFICES ASSUME AtDeletion, NEW k \in Kind \ excused', k # KindSeen("service") \/ Deleted
               PROVE  NoneCreated(k)'
    BY <1>2, <2>1 DEF NoOther, AtDeletion, Worker
  <2>2. NoneCreated(k)
    BY <1>3 DEF Owned, NoOther, AtDeletion
  <2> QED
    BY <1>1, <1>2, <2>2 DEF NoneCreated, Overlapped, Worker
<1> QED
  BY <1>5, <1>6, <1>7, <1>8 DEF Owned

-----------------------------------------------------------------------------
LEMMA OwnedInductive ==
  ASSUME Shape, Owned, [Next]_vars
  PROVE  Owned'
<1>1. CASE ServiceWorker
  <2>1. ASSUME Reap PROVE Apart
    <3>1. UNCHANGED <<service, excused>> /\ pc["service"] = "reap"
            /\ (Call("service", "purge") \/ Retry("service"))
      BY <2>1 DEF Reap, EnsureLoadBalancerDeleted, cluster, history
    <3> QED
      BY <3>1, CallApart, RetryApart DEF Worker, Deleting
  <2> QED
    BY <1>1, <2>1, ApartOwned, SyncOwned, GetOwned, UnfinalizeOwned, FinalizeOwned DEF ServiceWorker
<1>2. CASE NodeWorker
  <2>1. ASSUME Reget PROVE Apart
    <3>1. UNCHANGED <<service, excused>> /\ pc["nodes"] = "reget"
      BY <2>1 DEF Reget, cluster
    <3>2. CASE Retry("nodes")
      BY <3>1, <3>2, RetryApart DEF Worker
    <3>3. CASE Rest("nodes") /\ UNCHANGED <<status, have>>
      <4>1. /\ pc' = [pc EXCEPT !["nodes"] = "idle"]
            /\ seen'["service"] = seen["service"]
        BY <3>3, RestType DEF Shape, Worker
      <4>2. KindSeen("service")' = KindSeen("service")
        BY <4>1 DEF KindSeen
      <4> QED
        BY <3>1, <3>3, <4>1, <4>2
           DEF Apart, AtCreation, AtDeletion, Deleted, Worker, Shape, TypeOK
    <3> QED
      BY <2>1, <3>2, <3>3 DEF Reget
  <2> QED
    BY <1>2, <2>1, ApartOwned, NodeSyncApart, UpdateOwned DEF NodeWorker
<1>3. ASSUME NEW w \in Worker, CallOf(w) \/ Return(w) \/ Fault(w)
      PROVE  Owned'
  <2>1. ASSUME EnsureLoadBalancer(w) PROVE Apart
    <3>1. UNCHANGED <<service, excused>> /\ pc[w] = "ensure"
            /\ (Call(w, "apply") \/ Retry(w))
      BY <2>1 DEF EnsureLoadBalancer, cluster, history
    <3> QED
      BY <3>1, CallApart, RetryApart
  <2>2. ASSUME Fault(w) PROVE Apart
    <3>1. UNCHANGED <<service, excused>> /\ Retry(w)
      BY <2>2 DEF Fault, cluster, history
    <3> QED
      BY <3>1, RetryApart
  <2>3. ASSUME Fail(w) PROVE Apart
    <3>1. UNCHANGED <<service, have, excused, pc, seen>> /\ status' = [status EXCEPT ![w] = "error"]
      BY <2>3 DEF Fail, cluster, history
    <3> QED
      BY <3>1 DEF Apart, AtCreation, AtDeletion, Deleted, KindSeen, Worker, Shape, TypeOK
  <2> QED
    BY <1>3, <2>1, <2>2, <2>3, ApartOwned, AnswerApart, WorkOwned, SucceedOwned
       DEF CallOf, Return
<1>4. CASE OutageEnds \/ ScaleNodes \/ \E n \in Node : LoseMachine(n) \/ DeleteNode(n)
  <2>1. UNCHANGED <<service, have, excused, pc, seen, status>>
    BY <1>4 DEF OutageEnds, ScaleNodes, LoseMachine, DeleteNode, Changing, cluster, workers, history
  <2> QED
    BY <2>1, StillApart, ApartOwned
<1>5. CASE UNCHANGED vars
  BY <1>5, StillApart, ApartOwned DEF vars, cluster, workers, history
<1> QED
  BY <1>1, <1>2, <1>3, <1>4, <1>5, RestartApart, ApartOwned, ChangeServiceOwned DEF Next

THEOREM Invariant == Spec => [](Shape /\ Owned)
<1>1. Init => Owned
  BY DEF Init, Owned, Guarded, CreatingGuarded, SeenOfService, NoOther, Worker
<1>2. Init => Shape
  BY InitShape
<1>3. Shape /\ Owned /\ [Next]_vars => (Shape /\ Owned)'
  BY ShapeInductive, OwnedInductive
<1> QED
  BY <1>1, <1>2, <1>3, PTL DEF Spec

\* A load balancer never outlives its Service or the Service's finalizer, but for
\* those of a former type and those an update put back.
THEOREM LoadBalancersGuarded == Spec => []Guarded
<1>1. Shape /\ Owned => Guarded
  BY DEF Owned
<1> QED
  BY <1>1, Invariant, PTL

-----------------------------------------------------------------------------
(* Calls and the contract of load balancers.                               *)

LEMMA CallOfKind ==
  ASSUME Shape, NEW w \in Worker, status[w] = "calling"
  PROVE  /\ KindSeen(w) \in Kind
         /\ statusOf(KindSeen(w))[w] = "calling" /\ wanted(KindSeen(w))[w] = Goal(w)
BY DEF Shape, ControlOK, statusOf, wanted, In, KindSeen, Goal

LEMMA OutcomeMapped ==
  ASSUME Shape, NEW w \in Worker, NEW outcome \in {"ok", "error"}, status[w] = "calling",
         status' = [status EXCEPT ![w] = outcome],
         opposed' = [opposed EXCEPT ![KindSeen(w)] = @ \ {w}],
         UNCHANGED <<pc, seen, have>>,
         NEW k \in Kind, k = KindSeen(w)
  PROVE  /\ statusOf(k)' = [statusOf(k) EXCEPT ![w] = outcome]
         /\ wanted(k)' = [wanted(k) EXCEPT ![w] = {}]
         /\ opposed'[k] = opposed[k] \ {w} /\ have'[k] = have[k]
<1>1. /\ status'[w] = outcome /\ outcome \notin {"idle", "calling"}
      /\ \A v \in Worker \ {w} : status'[v] = status[v]
  BY DEF Shape, TypeOK
<1>2. statusOf(k)' = [statusOf(k) EXCEPT ![w] = outcome]
  BY <1>1 DEF statusOf, wanted, In, KindSeen, Goal
<1>3. wanted(k)' = [wanted(k) EXCEPT ![w] = {}]
  BY <1>1 DEF wanted, In, KindSeen, Goal
<1> QED
  BY <1>2, <1>3 DEF Shape, TypeOK

LEMMA WorkMapped ==
  ASSUME Shape, NEW w \in Worker, Work(w), NEW k \in Kind, k = KindSeen(w)
  PROVE  /\ have'[k] \subseteq have[k] \union wanted(k)[w]
         /\ have[k] \intersect wanted(k)[w] \subseteq have'[k]
         /\ w \notin opposed[k] /\ wanted(k)[w] # {} => have'[k] # {}
         /\ opposed'[k] = opposed[k] \union
              {v \in {c \in Worker : statusOf(k)[c] = "calling"} : wanted(k)[v] # wanted(k)[w]}
         /\ statusOf(k)' = statusOf(k) /\ wanted(k)' = wanted(k)
<1>1. UNCHANGED <<pc, seen, status>> /\ status[w] = "calling"
  BY DEF Work, workers
<1>2. PICK add \in SUBSET (Goal(w) \ have[k]), drop \in SUBSET (have[k] \ Goal(w)) :
        /\ (have[k] \union add) \ drop # {} \/ Goal(w) = {} \/ w \in opposed[k]
        /\ have' = [have EXCEPT ![k] = (@ \union add) \ drop]
  BY DEF Work
<1>3. have'[k] = (have[k] \union add) \ drop
  BY <1>2 DEF Shape, TypeOK
<1>4. wanted(k)[w] = Goal(w)
  BY <1>1, CallOfKind
<1>5. {v \in Others(w) : Goal(v) # Goal(w)}
        = {v \in {c \in Worker : statusOf(k)[c] = "calling"} : wanted(k)[v] # wanted(k)[w]}
  BY <1>1, <1>4 DEF Others, wanted, statusOf, In, KindSeen, Goal
<1>6. opposed'[k] = opposed[k] \union {v \in Others(w) : Goal(v) # Goal(w)}
  BY DEF Work, Shape, TypeOK
<1>7. statusOf(k)' = statusOf(k) /\ wanted(k)' = wanted(k)
  BY <1>1 DEF statusOf, wanted, In, Goal, KindSeen
<1> QED
  BY <1>2, <1>3, <1>4, <1>5, <1>6, <1>7

LEMMA CallKeepsContract ==
  ASSUME Shape, NEW w \in Worker
  PROVE  KeepsContract(w)
<1> SUFFICES ASSUME status[w] = "calling" PROVE KeepsContract(w)
  BY DEF KeepsContract
<1>1. KindSeen(w) \in Kind
  BY CallOfKind
<1>2. ASSUME Work(w)
      PROVE  /\ KindSeen(w) = "l4" => L4!Work(w)
             /\ KindSeen(w) = "elb" => Elastic!Work(w)
  <2>1. CASE KindSeen(w) = "l4"
    BY <1>2, <2>1, CallOfKind, WorkMapped DEF L4!Work, L4!Calling, Kind
  <2>2. CASE KindSeen(w) = "elb"
    BY <1>2, <2>2, CallOfKind, WorkMapped DEF Elastic!Work, Elastic!Calling, Kind
  <2> QED
    BY <2>1, <2>2
<1>3. ASSUME Succeed(w)
      PROVE  /\ KindSeen(w) = "l4" => L4!Succeed(w)
             /\ KindSeen(w) = "elb" => Elastic!Succeed(w)
  <2>1. /\ status' = [status EXCEPT ![w] = "ok"]
        /\ opposed' = [opposed EXCEPT ![KindSeen(w)] = @ \ {w}]
        /\ UNCHANGED <<pc, seen, have>>
        /\ have[KindSeen(w)] = Goal(w) \/ w \in opposed[KindSeen(w)]
    BY <1>3 DEF Succeed
  <2>2. CASE KindSeen(w) = "l4"
    <3>1. L4!End(w, "ok")
      BY <2>1, <2>2, OutcomeMapped DEF L4!End, Kind
    <3>2. w \in L4!Calling /\ wanted("l4")[w] = Goal(w)
      BY <2>2, CallOfKind DEF L4!Calling
    <3> QED
      BY <2>1, <2>2, <3>1, <3>2 DEF L4!Succeed
  <2>3. CASE KindSeen(w) = "elb"
    <3>1. Elastic!End(w, "ok")
      BY <2>1, <2>3, OutcomeMapped DEF Elastic!End, Kind
    <3>2. w \in Elastic!Calling /\ wanted("elb")[w] = Goal(w)
      BY <2>3, CallOfKind DEF Elastic!Calling
    <3> QED
      BY <2>1, <2>3, <3>1, <3>2 DEF Elastic!Succeed
  <2> QED
    BY <2>2, <2>3
<1>4. ASSUME Fail(w)
      PROVE  /\ KindSeen(w) = "l4" => L4!Fail(w)
             /\ KindSeen(w) = "elb" => Elastic!Fail(w)
  <2>1. /\ status' = [status EXCEPT ![w] = "error"]
        /\ opposed' = [opposed EXCEPT ![KindSeen(w)] = @ \ {w}]
        /\ UNCHANGED <<pc, seen, have>>
    BY <1>4 DEF Fail
  <2>2. CASE KindSeen(w) = "l4"
    BY <2>1, <2>2, OutcomeMapped DEF L4!Fail, L4!End, Kind
  <2>3. CASE KindSeen(w) = "elb"
    BY <2>1, <2>3, OutcomeMapped DEF Elastic!Fail, Elastic!End, Kind
  <2> QED
    BY <2>2, <2>3
<1> QED
  BY <1>1, <1>2, <1>3, <1>4 DEF KeepsContract, Kind

\* Whatever a call does to a load balancer, and whatever it returns, the contract
\* of that load balancer allows.
THEOREM ContractKept == Spec => CallsKeepContract
<1>1. Shape /\ [Next]_vars => [\A w \in Worker : KeepsContract(w)]_vars
  BY CallKeepsContract
<1> QED
  BY <1>1, Invariant, PTL DEF Spec, CallsKeepContract
=============================================================================
