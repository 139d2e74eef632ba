--------------------------- MODULE L4LoadBalancer ---------------------------
(***************************************************************************)
(* The L4 load balancer of one Service: the calls EnsureLoadBalancer,      *)
(* UpdateLoadBalancer and EnsureLoadBalancerDeleted of the cloud provider, *)
(* executed by a set of callers (the workers of the service controller)    *)
(* against the NIFCLOUD API.                                               *)
(*                                                                         *)
(* Every action is one API request together with the local control flow up *)
(* to the next request, because requests are where calls interleave, fail  *)
(* and lose their answers.  The load balancer held by NIFCLOUD is the      *)
(* function lb: its domain is the set of listeners, and a load balancer    *)
(* exists as long as it has a listener, since NIFCLOUD creates it with its *)
(* first port and removes it with its last one.                            *)
(***************************************************************************)
EXTENDS Naturals, FiniteSets, Functions

CONSTANTS
    Worker,         \* callers of the cloud provider
    Port,           \* ports of the Service, hence of the load balancer
    NodePort,       \* node ports, the instance ports of the listeners
    Instance,       \* the virtual machines that exist in the account
    Node,           \* names of Nodes; one outside Instance has no machine
    Address,        \* source ranges other than "everyone"
    HealthCheck,    \* health check settings
    DefaultHealth,  \* the health check of a listener nobody configured
    Unset,          \* the port number 0 of a listener nobody filled in
    MaxPorts,       \* maxPortCountPerLoadBalancer
    Requests,       \* what callers may ask for
    Leftovers       \* load balancers earlier runs of the program left behind

-----------------------------------------------------------------------------
(* Data.                                                                   *)

Listener == [port : Port, nodePort : NodePort]
UnsetListener == [port |-> Unset, nodePort |-> Unset]

\* What NIFCLOUD keeps for a listener.  No filter means everyone is let in.
Settings == [targets : SUBSET Instance,
             filters : SUBSET Address,
             health  : HealthCheck]
NewSettings == [targets |-> {}, filters |-> {}, health |-> DefaultHealth]

\* The load balancers NIFCLOUD can hold: one listener per port.
IsLoadBalancer(c) ==
    /\ DOMAIN c \subseteq Listener
    /\ c \in [DOMAIN c -> Settings]
    /\ \A l, m \in DOMAIN c : l.port = m.port => l = m
NoLoadBalancer == [l \in {} |-> NewSettings]

\* A Service and the Nodes that come with it.  A port whose nodePort is
\* Unset is one the cluster allocated no node port for.  supported is FALSE
\* when LoadBalancerIP, an annotation, a protocol or a source range is one
\* the provider refuses.
ServicePort == [port : Port, nodePort : NodePort \union {Unset}]
Request == [ports     : SUBSET ServicePort,
            ranges    : SUBSET Address,
            health    : HealthCheck,
            supported : BOOLEAN,
            nodes     : SUBSET Node]
NoRequest == [ports |-> {}, ranges |-> {}, health |-> DefaultHealth,
              supported |-> FALSE, nodes |-> {}]

\* Mutant: node ports are not looked at.
AnyListeners(r) == {[port |-> p.port, nodePort |-> p.nodePort] : p \in r.ports}

\* The listeners, targets and settings a request asks for.
Listeners(r) ==
    {IF p.nodePort = Unset THEN UnsetListener
     ELSE [port |-> p.port, nodePort |-> p.nodePort] : p \in r.ports}
Targets(r) == IF r.nodes = {} THEN Instance ELSE r.nodes \intersect Instance
Filters(r) == r.ranges

\* What has to be done to settings s to make them what r asks for.  Mutants:
\* nothing, or everything, is registered or deregistered.
ToRegisterNone(r, s) == {}
ToRegisterAll(r, s) == Targets(r)
ToRegister(r, s) == Targets(r) \ s.targets
ToDeregisterNone(r, s) == {}
ToDeregisterAll(r, s) == s.targets
ToDeregister(r, s) == s.targets \ Targets(r)
ToAuthorize(r, s) == Filters(r) \ s.filters
ToRevoke(r, s) == s.filters \ Filters(r)

\* An API that is asked for no instance in particular describes them all; one
\* that is asked for an unknown instance answers with an error.
AllFound(r) == r.nodes \subseteq Instance

\* The parts of a load balancer: its listeners, their targets and filters; the
\* parts it has, and those a request asks for.
Part ==
    (Listener \union {UnsetListener})
      \X (({"listener"} \X {Unset}) \union ({"target"} \X Instance)
             \union ({"filter"} \X Address))
Parts(c) ==
    UNION {{l} \X (({"listener"} \X {Unset}) \union ({"target"} \X c[l].targets)
                     \union ({"filter"} \X c[l].filters)) : l \in DOMAIN c}
Asks(r) ==
    Listeners(r) \X (({"listener"} \X {Unset}) \union ({"target"} \X Targets(r))
                       \union ({"filter"} \X Filters(r)))

ASSUME ConstantsAssumption ==
    /\ Unset \notin Port \union NodePort
    /\ MaxPorts \in Nat
    /\ DefaultHealth \in HealthCheck
    /\ Requests \subseteq Request
    /\ \A c \in Leftovers : IsLoadBalancer(c)

\* A Service lists its ports, and the API the listeners of a load balancer.
ASSUME ListsAssumption ==
    /\ \A r \in Requests : IsFiniteSet(r.ports)
    /\ \A c \in Leftovers : IsFiniteSet(DOMAIN c)

\* The account has machines: the cluster runs on them.
ASSUME InstanceAssumption == Instance # {}

\* The API server accepts a Service only when its ports differ, and its node
\* ports too.
ASSUME ServiceAssumption ==
    \A r \in Requests : \A p, q \in r.ports :
        p.port = q.port \/ (p.nodePort = q.nodePort /\ p.nodePort # Unset) => p = q

-----------------------------------------------------------------------------
VARIABLES
    lb,         \* what NIFCLOUD holds: listener |-> settings
    outage,     \* while TRUE requests may fail, time out or lose their answer
    pc,         \* where each caller is
    request,    \* the Service and Nodes each caller was called with
    current,    \* the load balancer as the caller last described it
    todo,       \* listeners left in the loop the caller is in
    at,         \* the listener the caller is working on
    opposed     \* callers in the way of whose call another kind of call got

cloud == <<lb, outage>>
locals == <<request, current, todo, at>>
vars == <<lb, outage, pc, request, current, todo, at, opposed>>

Idle == {"idle", "done", "deleted", "failed"}
Provisioning == {"create", "health", "register", "filter"}
Reconciling == {"reconcile", "enroll", "withdraw", "refilter"}
Ensuring == {"lookup", "describe", "delete", "redescribe", "return"}
                \union Provisioning \union Reconciling
Deleting == {"find", "remove", "confirm"}
Control == Idle \union {"check"} \union Ensuring \union Deleting

Init ==
    /\ lb \in Leftovers
    /\ outage = TRUE
    /\ pc = [w \in Worker |-> "idle"]
    /\ request = [w \in Worker |-> NoRequest]
    /\ current = [w \in Worker |-> NoLoadBalancer]
    /\ todo = [w \in Worker |-> {}]
    /\ at = [w \in Worker |-> UnsetListener]
    /\ opposed = {}

-----------------------------------------------------------------------------
(* The NIFCLOUD API: when it accepts a request, and what it does then.  A  *)
(* request it does not accept is answered with an error and has no effect. *)

Exists == DOMAIN lb # {}
PortFree(l) == \A m \in DOMAIN lb : m.port # l.port

\* The first listener comes with the load balancer, the others are added.
CanCreate(l) == ~Exists /\ l # UnsetListener
CanRegisterPort(l) ==
    /\ Exists
    /\ PortFree(l)
    /\ Cardinality(DOMAIN lb) < MaxPorts
    /\ l # UnsetListener
CanRegister(l, is) == l \in DOMAIN lb /\ is \intersect lb[l].targets = {}
CanDeregister(l, is) == l \in DOMAIN lb /\ is \subseteq lb[l].targets
CanSetFilter(l, add, drop) ==
    /\ l \in DOMAIN lb
    /\ add \intersect lb[l].filters = {}
    /\ drop \subseteq lb[l].filters

AddListener(l) ==
    lb' = [m \in DOMAIN lb \union {l} |-> IF m = l THEN NewSettings ELSE lb[m]]
\* Mutant: the ports are left out of the request.
RemoveAll(l) == lb' = NoLoadBalancer
RemoveListener(l) == lb' = Restrict(lb, DOMAIN lb \ {l})
SetHealth(l, h) == lb' = [lb EXCEPT ![l].health = h]
AddTargets(l, is) == lb' = [lb EXCEPT ![l].targets = @ \union is]
RemoveTargets(l, is) == lb' = [lb EXCEPT ![l].targets = @ \ is]
ChangeFilters(l, add, drop) ==
    lb' = [lb EXCEPT ![l].filters = (@ \union add) \ drop]

-----------------------------------------------------------------------------
(* Control flow of a caller.                                               *)

Goto(w, label) == pc' = [pc EXCEPT ![w] = label]

\* A call begins; it returns, and its local variables are gone; it returns an
\* error.
Accept(w, r, label) ==
    /\ Goto(w, label)
    /\ request' = [request EXCEPT ![w] = r]
    /\ UNCHANGED <<lb, current, todo, at>>
Leave(w, label) ==
    /\ Goto(w, label)
    /\ request' = [request EXCEPT ![w] = NoRequest]
    /\ current' = [current EXCEPT ![w] = NoLoadBalancer]
    /\ todo' = [todo EXCEPT ![w] = {}]
    /\ at' = [at EXCEPT ![w] = UnsetListener]
Fail(w) == Leave(w, "failed") /\ UNCHANGED lb

Wanted(w) == Listeners(request[w])
\* Mutant: what was found is deleted, wanted or not.
UnwantedOrNot(w) == DOMAIN current[w]
Unwanted(w) == DOMAIN current[w] \ Wanted(w)
Fresh(w) == DOMAIN current[w] = {}

\* Where the create loop, the delete loop and the reconcile loop lead when
\* the listeners ls are left in them.
NextCreate(w, ls) == IF ls # {} THEN "create"
                     ELSE IF Fresh(w) THEN "return"
                     ELSE IF Unwanted(w) # {} THEN "delete" ELSE "redescribe"
NextDelete(ls) == IF ls # {} THEN "delete" ELSE "redescribe"
NextReconcile(ls) == IF ls # {} THEN "reconcile" ELSE "return"

\* The requests the reconcile loop makes for a listener whose settings were
\* described as s, given that those before it have been made.
FromFilter(r, s, ls) ==
    IF ToAuthorize(r, s) \union ToRevoke(r, s) # {} THEN "refilter"
    ELSE NextReconcile(ls)
FromWithdraw(r, s, ls) ==
    IF ToDeregister(r, s) # {} THEN "withdraw" ELSE FromFilter(r, s, ls)
\* Mutant: withdraw first.
FromEnrollLast(r, s, ls) ==
    IF ToDeregister(r, s) # {} THEN "withdraw"
    ELSE IF ToRegister(r, s) # {} THEN "enroll" ELSE FromFilter(r, s, ls)
FromEnroll(r, s, ls) ==
    IF ToRegister(r, s) # {} THEN "enroll" ELSE FromWithdraw(r, s, ls)

-----------------------------------------------------------------------------
(* EnsureLoadBalancer.                                                     *)

EnsureLoadBalancer(w, r) ==
    /\ pc[w] \in Idle
    /\ IF Cardinality(r.ports) \in 1..MaxPorts
         THEN Accept(w, r, "lookup")
         ELSE Fail(w)
    /\ UNCHANGED outage

\* Look the Nodes' instances up, validate, compute the desired load balancer.
DescribeInstances(w) ==
    /\ pc[w] = "lookup"
    /\ IF AllFound(request[w]) /\ request[w].supported
         THEN Goto(w, "describe") /\ UNCHANGED <<lb, locals>>
         ELSE Fail(w)
    /\ UNCHANGED outage

\* Describe the load balancer and decide what to create and what to delete.
DescribeLoadBalancers(w) ==
    /\ pc[w] = "describe"
    /\ current' = [current EXCEPT ![w] = lb]
    /\ LET missing  == Wanted(w) \ DOMAIN lb
           unwanted == DOMAIN lb \ Wanted(w)
       IN \/ /\ missing # {}
             /\ Goto(w, "create")
             /\ todo' = [todo EXCEPT ![w] = missing]
          \/ /\ missing = {} /\ unwanted # {}
             /\ Goto(w, "delete")
             /\ todo' = [todo EXCEPT ![w] = unwanted]
          \/ /\ missing = {} /\ unwanted = {}
             /\ Goto(w, "reconcile")
             /\ todo' = [todo EXCEPT ![w] = DOMAIN lb]
    /\ UNCHANGED <<cloud, request, at>>

\* CreateLoadBalancer for the first listener of a load balancer that was not
\* found, RegisterPortWithLoadBalancer for any other.
CreateListener(w) ==
    /\ pc[w] = "create"
    /\ \E l \in todo[w] :
         IF IF Fresh(w) /\ todo[w] = Wanted(w) THEN CanCreate(l) ELSE CanRegisterPort(l)
           THEN /\ AddListener(l)
                /\ Goto(w, "health")
                /\ todo' = [todo EXCEPT ![w] = @ \ {l}]
                /\ at' = [at EXCEPT ![w] = l]
                /\ UNCHANGED <<request, current>>
           ELSE Fail(w)
    /\ UNCHANGED outage

ConfigureHealthCheck(w) ==
    /\ pc[w] = "health"
    /\ IF at[w] \in DOMAIN lb
         THEN /\ SetHealth(at[w], request[w].health)
              /\ Goto(w, "register")
              /\ UNCHANGED locals
         ELSE Fail(w)
    /\ UNCHANGED outage

RegisterAll(w) ==
    /\ pc[w] = "register"
    /\ IF CanRegister(at[w], Targets(request[w]))
         THEN /\ AddTargets(at[w], Targets(request[w]))
              /\ Goto(w, "filter")
              /\ UNCHANGED locals
         ELSE Fail(w)
    /\ UNCHANGED outage

\* The last request for a new listener; then the next listener, or the delete
\* loop, or the end of the create branch.
SetAllFilters(w) ==
    /\ pc[w] = "filter"
    /\ IF CanSetFilter(at[w], Filters(request[w]), {})
         THEN /\ ChangeFilters(at[w], Filters(request[w]), {})
              /\ Goto(w, NextCreate(w, todo[w]))
              /\ todo' = [todo EXCEPT ![w] =
                            IF todo[w] = {} /\ ~Fresh(w) THEN Unwanted(w) ELSE @]
              /\ at' = [at EXCEPT ![w] = UnsetListener]
              /\ UNCHANGED <<request, current>>
         ELSE Fail(w)
    /\ UNCHANGED outage

DeleteListener(w) ==
    /\ pc[w] = "delete"
    /\ \E l \in todo[w] :
         IF l \in DOMAIN lb
           THEN /\ RemoveListener(l)
                /\ Goto(w, NextDelete(todo[w] \ {l}))
                /\ todo' = [todo EXCEPT ![w] = @ \ {l}]
                /\ UNCHANGED <<request, current, at>>
           ELSE Fail(w)
    /\ UNCHANGED outage

\* The listeners changed: describe again.  Not found is an error this time.
Redescribe(w) ==
    /\ pc[w] = "redescribe"
    /\ IF Exists
         THEN /\ current' = [current EXCEPT ![w] = lb]
              /\ Goto(w, "reconcile")
              /\ todo' = [todo EXCEPT ![w] = DOMAIN lb]
              /\ UNCHANGED <<lb, request, at>>
         ELSE Fail(w)
    /\ UNCHANGED outage

\* Take the next listener of the reconcile loop.  One that is not wanted ends
\* the call with an error.
ReconcileListener(w) ==
    /\ pc[w] = "reconcile"
    /\ \E l \in todo[w] :
         IF l \in Wanted(w)
           THEN LET ls == todo[w] \ {l} IN
                /\ Goto(w, FromEnroll(request[w], current[w][l], ls))
                /\ todo' = [todo EXCEPT ![w] = ls]
                /\ at' = [at EXCEPT ![w] = l]
                /\ UNCHANGED <<lb, request, current>>
           ELSE Fail(w)
    /\ UNCHANGED outage

\* RegisterInstancesWithLoadBalancer with what the description lacked.
RegisterInstances(w) ==
    /\ pc[w] = "enroll"
    /\ LET described == current[w][at[w]]
           new == ToRegister(request[w], described)
       IN IF CanRegister(at[w], new)
            THEN /\ AddTargets(at[w], new)
                 /\ Goto(w, FromWithdraw(request[w], described, todo[w]))
                 /\ UNCHANGED locals
            ELSE Fail(w)
    /\ UNCHANGED outage

\* DeregisterInstancesFromLoadBalancer with what it had in excess.
DeregisterInstances(w) ==
    /\ pc[w] = "withdraw"
    /\ LET described == current[w][at[w]]
           old == ToDeregister(request[w], described)
       IN IF CanDeregister(at[w], old)
            THEN /\ RemoveTargets(at[w], old)
                 /\ Goto(w, FromFilter(request[w], described, todo[w]))
                 /\ UNCHANGED locals
            ELSE Fail(w)
    /\ UNCHANGED outage

\* SetFilterForLoadBalancer with the differences both ways, in one request.
SetFilter(w) ==
    /\ pc[w] = "refilter"
    /\ LET described == current[w][at[w]]
           add  == ToAuthorize(request[w], described)
           drop == ToRevoke(request[w], described)
       IN IF CanSetFilter(at[w], add, drop)
            THEN /\ ChangeFilters(at[w], add, drop)
                 /\ Goto(w, NextReconcile(todo[w]))
                 /\ UNCHANGED locals
            ELSE Fail(w)
    /\ UNCHANGED outage

\* The status is returned.
Return(w) ==
    /\ pc[w] = "return"
    /\ Leave(w, "done")
    /\ UNCHANGED cloud

-----------------------------------------------------------------------------
(* UpdateLoadBalancer: an error unless the load balancer exists, then      *)
(* EnsureLoadBalancer, which describes it afresh.                          *)

UpdateLoadBalancer(w, r) ==
    /\ pc[w] \in Idle
    /\ IF r.supported THEN Accept(w, r, "check") ELSE Fail(w)
    /\ UNCHANGED outage

CheckExists(w) ==
    /\ pc[w] = "check"
    /\ IF Exists /\ Cardinality(request[w].ports) \in 1..MaxPorts
         THEN Goto(w, "lookup") /\ UNCHANGED <<lb, locals>>
         ELSE Fail(w)
    /\ UNCHANGED outage

-----------------------------------------------------------------------------
(* EnsureLoadBalancerDeleted.                                              *)

EnsureLoadBalancerDeleted(w) ==
    /\ pc[w] \in Idle
    /\ Accept(w, NoRequest, "find")
    /\ UNCHANGED outage

\* All listeners found are to be deleted.
FindListeners(w) ==
    /\ pc[w] = "find"
    /\ Goto(w, IF Exists THEN "remove" ELSE "confirm")
    /\ todo' = [todo EXCEPT ![w] = DOMAIN lb]
    /\ UNCHANGED <<cloud, request, current, at>>

\* Mutants: a listener that is gone already is taken for the whole load balancer
\* being gone; deleting it is tried until it succeeds.
DeleteFoundOrGone(w) ==
    /\ pc[w] = "remove"
    /\ \E l \in todo[w] :
         IF l \in DOMAIN lb
           THEN /\ RemoveListener(l)
                /\ Goto(w, IF todo[w] = {l} THEN "confirm" ELSE "remove")
                /\ todo' = [todo EXCEPT ![w] = @ \ {l}]
                /\ UNCHANGED <<request, current, at>>
           ELSE Goto(w, "confirm") /\ UNCHANGED <<lb, locals>>
    /\ UNCHANGED outage
DeleteFoundPatiently(w) ==
    /\ pc[w] = "remove"
    /\ \E l \in todo[w] :
         IF l \in DOMAIN lb
           THEN /\ RemoveListener(l)
                /\ Goto(w, IF todo[w] = {l} THEN "confirm" ELSE "remove")
                /\ todo' = [todo EXCEPT ![w] = @ \ {l}]
                /\ UNCHANGED <<request, current, at>>
           ELSE UNCHANGED <<lb, pc, locals>>
    /\ UNCHANGED outage
DeleteFound(w) ==
    /\ pc[w] = "remove"
    /\ \E l \in todo[w] :
         IF l \in DOMAIN lb
           THEN /\ RemoveListener(l)
                /\ Goto(w, IF todo[w] = {l} THEN "confirm" ELSE "remove")
                /\ todo' = [todo EXCEPT ![w] = @ \ {l}]
                /\ UNCHANGED <<request, current, at>>
           ELSE Fail(w)
    /\ UNCHANGED outage

Confirm(w) ==
    /\ pc[w] = "confirm"
    /\ Leave(w, "deleted")
    /\ UNCHANGED cloud

-----------------------------------------------------------------------------
(* What goes wrong around a caller.                                        *)

\* A request fails, times out, its context is cancelled, or the process
\* dies; taken right after a step it is a request that did take effect and
\* whose answer was lost.  The code keeps nothing across calls.
Fault(w) ==
    /\ outage
    /\ pc[w] \notin Idle
    /\ Fail(w)
    /\ UNCHANGED outage

OutageEnds ==
    /\ outage
    /\ outage' = FALSE
    /\ UNCHANGED <<lb, pc, locals>>

-----------------------------------------------------------------------------
Call(w) ==
    \/ \E r \in Requests : EnsureLoadBalancer(w, r) \/ UpdateLoadBalancer(w, r)
    \/ EnsureLoadBalancerDeleted(w)

Step(w) ==
    \/ DescribeInstances(w) \/ DescribeLoadBalancers(w)
    \/ CreateListener(w) \/ ConfigureHealthCheck(w)
    \/ RegisterAll(w) \/ SetAllFilters(w)
    \/ DeleteListener(w) \/ Redescribe(w) \/ ReconcileListener(w)
    \/ RegisterInstances(w) \/ DeregisterInstances(w) \/ SetFilter(w)
    \/ Return(w)
    \/ CheckExists(w)
    \/ FindListeners(w) \/ DeleteFound(w) \/ Confirm(w)

\* History: when caller w changes the load balancer it gets in the way of the
\* calls that ask for something else: those of workers that see another version
\* of the Service, or other Nodes, or delete it.
Opposes(w) ==
    opposed' = {v \in Worker :
                  /\ pc'[v] \notin Idle
                  /\ v \in opposed \/ (/\ Parts(lb') # Parts(lb)
                                       /\ Asks(request[v]) # Asks(request[w]))}

Next ==
    \/ \E w \in Worker : (Call(w) \/ Step(w) \/ Fault(w)) /\ Opposes(w)
    \/ OutageEnds /\ UNCHANGED opposed

Spec == Init /\ [][Next]_vars

\* A caller that is running keeps running: its goroutine is scheduled and
\* every request is answered or times out.
FairSpec == Spec /\ \A w \in Worker : WF_vars(Step(w) /\ Opposes(w))

-----------------------------------------------------------------------------
(* Properties.                                                             *)

WellTyped ==
    /\ IsLoadBalancer(lb)
    /\ outage \in BOOLEAN
    /\ pc \in [Worker -> Control]
    /\ request \in [Worker -> Requests \union {NoRequest}]
    /\ current = [w \in Worker |-> current[w]]
    /\ \A w \in Worker : IsLoadBalancer(current[w])
    /\ todo \in [Worker -> SUBSET (Listener \union {UnsetListener})]
    /\ at \in [Worker -> Listener \union {UnsetListener}]
TypeOK == WellTyped /\ opposed \subseteq {w \in Worker : pc[w] \notin Idle}

\* What NIFCLOUD holds is what the request asks for, health checks aside.
Matches(c, r) ==
    /\ DOMAIN c = Listeners(r)
    /\ \A l \in DOMAIN c : c[l].targets = Targets(r) /\ c[l].filters = Filters(r)

\* When EnsureLoadBalancer or UpdateLoadBalancer is about to return without an
\* error, the load balancer has the listeners, targets and filters of the
\* Service, whatever failed calls before, or callers that agree, left.
Converged ==
    \A w \in Worker \ opposed : pc[w] = "return" => Matches(lb, request[w])

\* When EnsureLoadBalancerDeleted is about to return without an error nothing
\* is left of the load balancer.
NothingLeft == \A w \in Worker \ opposed : pc[w] = "confirm" => ~Exists

\* An Ensure or an Update never removes the last listener: the load balancer
\* keeps existing, hence its address, even when every port is replaced.
Moves(w) == pc'[w] # pc[w] \/ todo'[w] # todo[w]
KeepsExisting ==
    \A w \in Worker \ opposed : pc[w] \in Ensuring /\ Moves(w) => (Exists => Exists')
NeverVanishes == [][KeepsExisting]_vars

\* A listener that has targets has some at every step of an Ensure or an Update
\* that replaces them: new ones are registered before old ones leave.
KeepsTargets ==
    \A w \in Worker \ opposed : Moves(w) =>
      \A l \in DOMAIN lb \intersect DOMAIN lb' :
        lb[l].targets # {} => lb'[l].targets # {}
TargetsNeverEmptied == [][KeepsTargets]_vars

\* While an Ensure or an Update runs, nobody takes away, even for a while, a
\* listener, a target or a filter that is there and that it asks for: not it,
\* nor a caller that agrees, however old the description that one works from.
KeepsWanted ==
    \A w \in Worker \ opposed' : pc[w] \in Ensuring =>
      \A l \in DOMAIN lb \intersect Wanted(w) :
        /\ l \in DOMAIN lb'
        /\ lb[l].targets \intersect Targets(request[w]) \subseteq lb'[l].targets
        /\ lb[l].filters \intersect Filters(request[w]) \subseteq lb'[l].filters
NoDisruption == [][KeepsWanted]_vars

\* Once the load balancer matches the request it stays that way to the end of
\* the call: what is left to do, and what callers that agree do from older
\* descriptions, undoes nothing.
KeepsMatching ==
    \A w \in Worker \ opposed' :
      pc[w] \in Ensuring /\ Matches(lb, request[w]) => Matches(lb', request[w])
StaysMatched == [][KeepsMatching]_vars

\* The calls implement the abstract specification of a load balancer.
Status(w) == CASE pc[w] = "idle" -> "idle"
               [] pc[w] \in {"done", "deleted"} -> "ok"
               [] pc[w] = "failed" -> "error"
               [] OTHER -> "calling"
Contract == INSTANCE LoadBalancerContract
              WITH Caller <- Worker, have <- Parts(lb),
                   status <- [w \in Worker |-> Status(w)],
                   want <- [w \in Worker |-> Asks(request[w])]
ImplementsContract == Contract!Spec

\* Every call returns: each loop works off a list made when it began, whatever
\* the others do to the load balancer meanwhile.
CallReturns == \A w \in Worker : pc[w] \notin Idle ~> pc[w] \in Idle

\* When NIFCLOUD answers every request, an Ensure or an Update of a single caller
\* that has found its instances fails only on a conflict between the ports it
\* asks for and the ones that are there: every other request it makes is one
\* NIFCLOUD accepts, whatever load balancer earlier calls and failures left.
Answered(w) == ~outage /\ pc[w] \in Ensuring \ {"lookup"}
Conflict(w) ==
    \/ \E l \in DOMAIN lb, m \in Wanted(w) : l.port = m.port /\ l # m
    \/ Cardinality(DOMAIN lb \union Wanted(w)) > MaxPorts
    \/ UnsetListener \in Wanted(w)
RefusedOnConflictOnly ==
    [][\A w \in Worker : Answered(w) /\ ~Conflict(w) => pc'[w] # "failed"]_vars

-----------------------------------------------------------------------------
(* What the repository says of the program and the code does not do.       *)

\* UpdateLoadBalancer updates the hosts under the load balancer: its targets
\* are Nodes it was called with.
TargetsAreNodes ==
    \A w \in Worker : pc[w] = "return" =>
      \A l \in DOMAIN lb : lb[l].targets \subseteq request[w].nodes

-----------------------------------------------------------------------------
(* The inductive invariant behind Converged and NothingLeft: what a caller *)
(* may rely on while only callers that agree with it change anything.      *)

\* Settings t are at least as close to what r asks for as settings s.
Closer(s, t, r) ==
    /\ s.targets \intersect Targets(r) \subseteq t.targets
    /\ t.targets \subseteq s.targets \union Targets(r)
    /\ s.filters \intersect Filters(r) \subseteq t.filters
    /\ t.filters \subseteq s.filters \union Filters(r)

\* What a step of a caller working for r may do to the load balancer: it only
\* brings it closer to r.
Progress(r) ==
    /\ DOMAIN lb' \subseteq DOMAIN lb \union Listeners(r)
    /\ \A l \in DOMAIN lb \intersect Listeners(r) :
         l \in DOMAIN lb' /\ Closer(lb[l], lb'[l], r)
    /\ \A l \in DOMAIN lb' \ DOMAIN lb :
         lb'[l].targets \subseteq Targets(r) /\ lb'[l].filters \subseteq Filters(r)
    /\ \A l \in DOMAIN lb \intersect DOMAIN lb' : l \notin Listeners(r) =>
         lb'[l].targets = lb[l].targets /\ lb'[l].filters = lb[l].filters

\* Listener l is exactly as r asks.
Settled(l, r) ==
    l \in DOMAIN lb /\ lb[l].targets = Targets(r) /\ lb[l].filters = Filters(r)

\* The load balancer is at least as close to the request as it was described.
DescriptionLags(w) ==
    /\ DOMAIN lb \subseteq DOMAIN current[w] \union Wanted(w)
    /\ \A l \in DOMAIN current[w] \intersect Wanted(w) :
         l \in DOMAIN lb /\ Closer(current[w][l], lb[l], request[w])

\* What DescribeInstances lets pass.
Proper(r) == r # NoRequest /\ r.ports # {} /\ AllFound(r)

KindInv(w) ==
    /\ pc[w] \in Deleting => request[w] = NoRequest
    /\ pc[w] \in {"check", "lookup"} => request[w] # NoRequest
    /\ pc[w] = "lookup" => request[w].ports # {}
    /\ pc[w] \in Ensuring \ {"lookup"} => Proper(request[w])

\* The listeners a caller works on are those it wants, those it deletes are
\* not, even when others got in its way.
LocalInv(w) ==
    /\ KindInv(w)
    /\ pc[w] \in Provisioning => todo[w] \subseteq Wanted(w)
    /\ pc[w] \in (Provisioning \union Reconciling) \ {"create", "reconcile"} =>
         at[w] \in Wanted(w)
    /\ pc[w] = "delete" => todo[w] \intersect Wanted(w) = {}

ProvisioningInv(w) == pc[w] \in Provisioning =>
    /\ DescriptionLags(w)
    /\ todo[w] \subseteq Wanted(w)
    /\ Wanted(w) \ todo[w] \subseteq DOMAIN lb
    /\ pc[w] # "create" =>
         /\ at[w] \in Wanted(w) \ todo[w]
         /\ lb[at[w]].targets \subseteq Targets(request[w])
         /\ lb[at[w]].filters \subseteq Filters(request[w])
    /\ pc[w] = "filter" => Targets(request[w]) \subseteq lb[at[w]].targets
    /\ Fresh(w) =>
         \A l \in Wanted(w) \ todo[w] :
           (pc[w] # "create" /\ l = at[w]) \/ Settled(l, request[w])

DeleteInv(w) == pc[w] \in {"delete", "redescribe"} =>
    /\ Wanted(w) \subseteq DOMAIN lb
    /\ todo[w] \intersect Wanted(w) = {}

ReconcileInv(w) == pc[w] \in Reconciling =>
    /\ DescriptionLags(w)
    /\ Wanted(w) \subseteq DOMAIN current[w]
    /\ todo[w] \subseteq DOMAIN current[w]
    /\ \A l \in DOMAIN current[w] \ todo[w] :
         /\ l \in Wanted(w)
         /\ (pc[w] # "reconcile" /\ l = at[w]) \/ Settled(l, request[w])
    /\ pc[w] # "reconcile" => at[w] \in DOMAIN current[w] \ todo[w]
    /\ pc[w] = "withdraw" => Targets(request[w]) \subseteq lb[at[w]].targets
    /\ pc[w] = "refilter" => lb[at[w]].targets = Targets(request[w])

ReturnInv(w) == pc[w] = "return" => Matches(lb, request[w])

DeletingInv(w) ==
    /\ pc[w] = "remove" => DOMAIN lb \subseteq todo[w]
    /\ pc[w] = "confirm" => DOMAIN lb = {}

CallerInv(w) ==
    /\ KindInv(w) /\ ProvisioningInv(w) /\ DeleteInv(w)
    /\ ReconcileInv(w) /\ ReturnInv(w) /\ DeletingInv(w)

\* Every caller works for its request; and the view of the load balancer, the
\* work done and the work left of a caller nobody opposed fit the load balancer.
CallersInv == \A w \in Worker : LocalInv(w) /\ (w \notin opposed => CallerInv(w))
=============================================================================
