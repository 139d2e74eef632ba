------------------------ MODULE ElasticLoadBalancer ------------------------
(***************************************************************************)
(* The elastic load balancer of one Service: the calls EnsureLoadBalancer, *)
(* UpdateLoadBalancer and EnsureLoadBalancerDeleted of the cloud provider, *)
(* executed by one caller against the NIFCLOUD API.                        *)
(*                                                                         *)
(* Unlike an L4 load balancer it reaches its targets through the security  *)
(* groups they are in, so a call also opens and closes rules there.  Such  *)
(* a rule names a source (the address of the load balancer) and what it    *)
(* lets in (a node port, or ICMP); nothing ties it to a listener.          *)
(*                                                                         *)
(* Every action is one API request with the local control flow up to the   *)
(* next.  Waiting for a change to be applied is part of the request that   *)
(* made it: a wait that gives up is a fault right after the step.          *)
(***************************************************************************)
EXTENDS Naturals, FiniteSets, Functions

CONSTANTS
    Port,           \* ports of the Service, hence of the load balancer
    NodePort,       \* node ports, the instance ports of the listeners
    Unallocated,    \* the node port 0 of a port that was given none
    Instance,       \* the virtual machines that exist in the account
    Node,           \* names of Nodes; one outside Instance has no machine
    Group,          \* security groups
    GroupsOf,       \* the security groups each instance is in
    TwoArm,         \* does the load balancer have two network interfaces?
    MaxPorts,       \* maxPortCountPerLoadBalancer
    Requests,       \* what the caller may ask for
    Leftovers       \* load balancers earlier runs of the program left behind

-----------------------------------------------------------------------------
(* Data.                                                                   *)

Listener == [port : Port, nodePort : NodePort]
NoListener == [port |-> Unallocated, nodePort |-> Unallocated]

HealthProtocol == {"TCP", "ICMP"}
Settings == [targets : SUBSET Instance, health : HealthProtocol]
NewSettings == [targets |-> {}, health |-> "TCP"]

\* The load balancers NIFCLOUD can hold: one listener per port.
IsLoadBalancer(c) ==
    /\ DOMAIN c \subseteq Listener
    /\ c \in [DOMAIN c -> Settings]
    /\ \A l, m \in DOMAIN c : l.port = m.port => l = m
NoLoadBalancer == [l \in {} |-> NewSettings]

\* A Service and the Nodes that come with it.  supported is FALSE when
\* LoadBalancerIP, an annotation or a protocol is one the provider refuses.
Request == [ports : SUBSET Listener, health : HealthProtocol,
            supported : BOOLEAN, nodes : SUBSET Node]
NoRequest == [ports |-> {}, health |-> "TCP", supported |-> FALSE, nodes |-> {}]

\* The listeners and targets a request asks for.  No Nodes means every
\* instance, for the API describes them all when asked for none.
Listeners(r) == r.ports
Targets(r) == IF r.nodes = {} THEN Instance ELSE r.nodes \intersect Instance
AllFound(r) == r.nodes \subseteq Instance

\* What has to be done to settings s to make them what r asks for.  Mutants:
\* everything is registered, nothing is deregistered.
ToRegisterAll(r, s) == Targets(r)
ToRegister(r, s) == Targets(r) \ s.targets
ToDeregisterNone(r, s) == {}
ToDeregister(r, s) == s.targets \ Targets(r)

\* What a rule lets in: a node port, or ICMP.
Ping == "icmp"
Rule == NodePort \union {Ping}

\* The rules the code opens and closes for listener l with health checks of
\* protocol h.  With two interfaces and ICMP it leaves the node port out.
RulesOf(l, h) == (IF h = "ICMP" THEN {Ping} ELSE {})
                   \union (IF TwoArm /\ h = "ICMP" THEN {} ELSE {l.nodePort})

\* The groups of instances, and the rules of a listener in each of them.
\* Mutants: the groups are not looked through for the instances; a rule is
\* opened for the instance, not for its groups.
AllGroups(is) == Group
Groups(is) == UNION {GroupsOf[i] : i \in is}
GrantsToInstances(is, l, h) == is \X RulesOf(l, h)
Grants(is, l, h) == Groups(is) \X RulesOf(l, h)

\* The rules without which the listeners of c do not reach their targets.
Needed(c) ==
    UNION {(UNION {GroupsOf[i] : i \in c[l].targets})
             \X ({l.nodePort} \union IF c[l].health = "ICMP" THEN {Ping} ELSE {}) :
           l \in DOMAIN c}

ASSUME ConstantsAssumption ==
    /\ Unallocated \in NodePort
    /\ Unallocated \notin Port
    /\ GroupsOf \in [Instance -> SUBSET Group]
    /\ TwoArm \in BOOLEAN
    /\ MaxPorts \in Nat
    /\ Requests \subseteq Request
    /\ \A c \in Leftovers : IsLoadBalancer(c) /\ IsFiniteSet(DOMAIN c)

\* A Service lists its ports, and the API server accepts it only when they
\* differ, and its node ports too.
ASSUME ServiceAssumption ==
    \A r \in Requests :
        /\ IsFiniteSet(r.ports)
        /\ \A p, q \in r.ports :
             p.port = q.port \/ (p.nodePort = q.nodePort /\ p.nodePort # Unallocated)
               => p = q

-----------------------------------------------------------------------------
VARIABLES
    elb,        \* what NIFCLOUD holds: listener |-> settings
    rules,      \* rules that let the load balancer in: <<group, rule>>
    outage,     \* while TRUE requests may fail, time out or lose their answer
    pc,         \* where the caller is
    request,    \* the Service and Nodes it was called with
    current,    \* the load balancer as it last described it
    todo,       \* listeners left in the loop it is in
    at,         \* the listener it is working on
    grants      \* rules left to open or close for that listener

cloud == <<elb, rules, outage>>
locals == <<request, current, todo, at, grants>>
vars == <<elb, rules, outage, pc, request, current, todo, at, grants>>

Idle == {"idle", "done", "deleted", "failed"}
Opening == {"allow", "admit"}
Closing == {"deny", "evict", "expel"}
Provisioning == {"create", "health", "register", "locate", "allow"}
Reconciling == {"reconcile", "enroll", "admit", "withdraw", "evict"}
Ensuring == {"lookup", "describe", "delete", "deny", "redescribe", "return"}
                \union Provisioning \union Reconciling
Deleting == {"find", "remove", "expel", "confirm"}
Control == Idle \union {"check"} \union Ensuring \union Deleting

Init ==
    /\ elb \in Leftovers
    /\ rules = Needed(elb)
    /\ outage \in BOOLEAN
    /\ pc = "idle"
    /\ request = NoRequest
    /\ current = NoLoadBalancer
    /\ todo = {}
    /\ at = NoListener
    /\ grants = {}

-----------------------------------------------------------------------------
(* The NIFCLOUD API: when it accepts a request, and what it does then.  A  *)
(* request it does not accept is answered with an error and has no effect. *)

Exists == DOMAIN elb # {}

CanCreate(l) == ~Exists /\ l.nodePort # Unallocated
CanRegisterPort(l) ==
    /\ Exists
    /\ \A m \in DOMAIN elb : m.port # l.port
    /\ Cardinality(DOMAIN elb) < MaxPorts
    /\ l.nodePort # Unallocated
CanRegister(l, is) == l \in DOMAIN elb /\ is \intersect elb[l].targets = {}
CanDeregister(l, is) == l \in DOMAIN elb /\ is \subseteq elb[l].targets

AddListener(l) ==
    elb' = [m \in DOMAIN elb \union {l} |-> IF m = l THEN NewSettings ELSE elb[m]]
\* Mutant: the ports are left out of the request.
RemoveAll(l) == elb' = NoLoadBalancer
RemoveListener(l) == elb' = Restrict(elb, DOMAIN elb \ {l})
SetHealth(l, h) == elb' = [elb EXCEPT ![l].health = h]
AddTargets(l, is) == elb' = [elb EXCEPT ![l].targets = @ \union is]
RemoveTargets(l, is) == elb' = [elb EXCEPT ![l].targets = @ \ is]

\* What the client makes of the answer to a description: every listener gets
\* the targets of the one NIFCLOUD lists first.
Described(first) ==
    [l \in DOMAIN elb |-> [elb[l] EXCEPT !.targets = elb[first].targets]]
Descriptions ==
    IF Exists THEN {Described(first) : first \in DOMAIN elb} ELSE {NoLoadBalancer}

-----------------------------------------------------------------------------
(* Control flow of the caller.                                             *)

\* A call begins; it returns, and its local variables are gone; it returns an
\* error.
Accept(r, label) ==
    /\ pc' = label
    /\ request' = r
    /\ UNCHANGED <<elb, rules, current, todo, at, grants>>
Leave(label) ==
    /\ pc' = label
    /\ request' = NoRequest
    /\ current' = NoLoadBalancer
    /\ todo' = {}
    /\ at' = NoListener
    /\ grants' = {}
Fail == Leave("failed") /\ UNCHANGED <<elb, rules>>

Wanted == Listeners(request)
Unwanted == DOMAIN current \ Wanted
Fresh == DOMAIN current = {}

\* Where the create loop, the delete loop and the reconcile loop lead when
\* the listeners ls are left in them.  Mutant: the create branch ends with its
\* first listener.
NextCreateFirst(ls) == IF Fresh THEN "return"
                       ELSE IF ls # {} THEN "create"
                       ELSE IF Unwanted # {} THEN "delete" ELSE "redescribe"
NextCreate(ls) == IF ls # {} THEN "create"
                  ELSE IF Fresh THEN "return"
                  ELSE IF Unwanted # {} THEN "delete" ELSE "redescribe"
NextDelete(ls) == IF ls # {} THEN "delete" ELSE "redescribe"
NextReconcile(ls) == IF ls # {} THEN "reconcile" ELSE "return"
NextRemove(ls) == IF ls # {} THEN "remove" ELSE "confirm"

\* The requests the reconcile loop makes for a listener whose settings were
\* described as s.  Mutant: withdraw first.
FromWithdraw(s, ls) ==
    IF ToDeregister(request, s) # {} THEN "withdraw" ELSE NextReconcile(ls)
FromEnrollLast(s, ls) ==
    IF ToDeregister(request, s) # {} THEN "withdraw"
    ELSE IF ToRegister(request, s) # {} THEN "enroll" ELSE NextReconcile(ls)
FromEnroll(s, ls) ==
    IF ToRegister(request, s) # {} THEN "enroll" ELSE FromWithdraw(s, ls)

-----------------------------------------------------------------------------
(* EnsureLoadBalancer.                                                     *)

EnsureLoadBalancer(r) ==
    /\ pc \in Idle
    /\ IF Cardinality(r.ports) \in 1..MaxPorts THEN Accept(r, "lookup") ELSE Fail
    /\ UNCHANGED outage

\* Look the Nodes' instances up, validate, compute the desired load balancer.
DescribeInstances ==
    /\ pc = "lookup"
    /\ IF AllFound(request) /\ request.supported
         THEN pc' = "describe" /\ UNCHANGED <<elb, rules, locals>>
         ELSE Fail
    /\ UNCHANGED outage

\* Describe the load balancer and decide what to create and what to delete.
DescribeLoadBalancers ==
    /\ pc = "describe"
    /\ current' \in Descriptions
    /\ LET missing  == Wanted \ DOMAIN elb
           unwanted == DOMAIN elb \ Wanted
       IN \/ missing # {} /\ pc' = "create" /\ todo' = missing
          \/ missing = {} /\ unwanted # {} /\ pc' = "delete" /\ todo' = unwanted
          \/ missing = {} /\ unwanted = {} /\ pc' = "reconcile" /\ todo' = DOMAIN elb
    /\ UNCHANGED <<cloud, request, at, grants>>

\* CreateElasticLoadBalancer for the first listener of a load balancer that
\* was not found, RegisterPortWithElasticLoadBalancer for any other.  Mutant:
\* CreateElasticLoadBalancer for all of them.
CreateListenerAnew ==
    /\ pc = "create"
    /\ \E l \in todo :
         IF IF Fresh THEN CanCreate(l) ELSE CanRegisterPort(l)
           THEN /\ AddListener(l)
                /\ pc' = "health"
                /\ todo' = todo \ {l}
                /\ at' = l
                /\ UNCHANGED <<rules, request, current, grants>>
           ELSE Fail
    /\ UNCHANGED outage
CreateListener ==
    /\ pc = "create"
    /\ \E l \in todo :
         IF IF Fresh /\ todo = Wanted THEN CanCreate(l) ELSE CanRegisterPort(l)
           THEN /\ AddListener(l)
                /\ pc' = "health"
                /\ todo' = todo \ {l}
                /\ at' = l
                /\ UNCHANGED <<rules, request, current, grants>>
           ELSE Fail
    /\ UNCHANGED outage

ConfigureHealthCheck ==
    /\ pc = "health"
    /\ IF at \in DOMAIN elb
         THEN /\ SetHealth(at, request.health)
              /\ pc' = "register"
              /\ UNCHANGED <<rules, locals>>
         ELSE Fail
    /\ UNCHANGED outage

\* The last request for a new listener; the address of a load balancer just
\* created has to be described before rules can name it.
RegisterAll ==
    /\ pc = "register"
    /\ IF CanRegister(at, Targets(request))
         THEN /\ AddTargets(at, Targets(request))
              /\ pc' = IF Fresh /\ Wanted \ todo = {at} THEN "locate" ELSE "allow"
              /\ grants' = Grants(Targets(request), at, request.health)
              /\ UNCHANGED <<rules, request, current, todo, at>>
         ELSE Fail
    /\ UNCHANGED outage

Locate ==
    /\ pc = "locate"
    /\ IF Exists THEN pc' = "allow" /\ UNCHANGED <<elb, rules, locals>> ELSE Fail
    /\ UNCHANGED outage

\* The delete loop: each listener, then its rules in the groups of the targets
\* it was described with.  Mutant: one that is gone already is asked for again.
DeleteListenerAgain ==
    /\ pc = "delete"
    /\ \E l \in todo :
         IF l \in DOMAIN elb
           THEN /\ RemoveListener(l)
                /\ pc' = "deny"
                /\ todo' = todo \ {l}
                /\ at' = l
                /\ grants' = Grants(current[l].targets, l, current[l].health)
                /\ UNCHANGED <<rules, request, current>>
           ELSE UNCHANGED <<elb, rules, pc, locals>>
    /\ UNCHANGED outage
DeleteListener ==
    /\ pc = "delete"
    /\ \E l \in todo :
         IF l \in DOMAIN elb
           THEN /\ RemoveListener(l)
                /\ pc' = "deny"
                /\ todo' = todo \ {l}
                /\ at' = l
                /\ grants' = Grants(current[l].targets, l, current[l].health)
                /\ UNCHANGED <<rules, request, current>>
           ELSE Fail
    /\ UNCHANGED outage

\* The listeners changed: describe again.  Not found is an error this time.
Redescribe ==
    /\ pc = "redescribe"
    /\ IF Exists
         THEN /\ current' \in Descriptions
              /\ pc' = "reconcile"
              /\ todo' = DOMAIN elb
              /\ UNCHANGED <<elb, rules, request, at, grants>>
         ELSE Fail
    /\ UNCHANGED outage

\* Take the next listener of the reconcile loop.  One that is not wanted ends
\* the call with an error.
ReconcileListener ==
    /\ pc = "reconcile"
    /\ \E l \in todo :
         IF l \in Wanted
           THEN /\ pc' = FromEnroll(current[l], todo \ {l})
                /\ todo' = todo \ {l}
                /\ at' = l
                /\ UNCHANGED <<elb, rules, request, current, grants>>
           ELSE Fail
    /\ UNCHANGED outage

\* RegisterInstancesWithElasticLoadBalancer with what the description lacked.
RegisterInstances ==
    /\ pc = "enroll"
    /\ LET new == ToRegister(request, current[at])
       IN IF CanRegister(at, new)
            THEN /\ AddTargets(at, new)
                 /\ pc' = "admit"
                 /\ grants' = Grants(new, at, current[at].health)
                 /\ UNCHANGED <<rules, request, current, todo, at>>
            ELSE Fail
    /\ UNCHANGED outage

\* DeregisterInstancesFromElasticLoadBalancer with what it had in excess.
DeregisterInstances ==
    /\ pc = "withdraw"
    /\ LET old == ToDeregister(request, current[at])
       IN IF CanDeregister(at, old)
            THEN /\ RemoveTargets(at, old)
                 /\ pc' = "evict"
                 /\ grants' = Grants(old, at, current[at].health)
                 /\ UNCHANGED <<rules, request, current, todo, at>>
            ELSE Fail
    /\ UNCHANGED outage

\* The status is returned.
Return ==
    /\ pc = "return"
    /\ Leave("done")
    /\ UNCHANGED cloud

-----------------------------------------------------------------------------
(* Rules in the security groups, opened and closed one by one.             *)

\* AuthorizeSecurityGroupIngress; a duplicate is not an error.
\* Mutant: the first rule opened is taken for all of them.
AuthorizeIngressOnce ==
    /\ pc \in Opening
    /\ \E g \in grants :
         /\ rules' = rules \union {g}
         /\ grants' = {}
    /\ UNCHANGED <<elb, outage, pc, request, current, todo, at>>
AuthorizeIngress ==
    /\ pc \in Opening
    /\ \E g \in grants :
         /\ rules' = rules \union {g}
         /\ grants' = grants \ {g}
    /\ UNCHANGED <<elb, outage, pc, request, current, todo, at>>

\* RevokeSecurityGroupIngress; a rule that is not there is not an error.
\* Mutant: the first rule revoked is taken for all of them.
RevokeIngressOnce ==
    /\ pc \in Closing
    /\ \E g \in grants :
         /\ rules' = rules \ {g}
         /\ grants' = {}
    /\ UNCHANGED <<elb, outage, pc, request, current, todo, at>>
RevokeIngress ==
    /\ pc \in Closing
    /\ \E g \in grants :
         /\ rules' = rules \ {g}
         /\ grants' = grants \ {g}
    /\ UNCHANGED <<elb, outage, pc, request, current, todo, at>>

\* All rules of a listener are done: go on with the loop they belong to.
RulesDone ==
    /\ pc \in Opening \union Closing
    /\ grants = {}
    /\ pc' = CASE pc = "allow" -> NextCreate(todo)
               [] pc = "deny"  -> NextDelete(todo)
               [] pc = "admit" -> FromWithdraw(current[at], todo)
               [] pc = "evict" -> NextReconcile(todo)
               [] pc = "expel" -> NextRemove(todo)
    /\ todo' = IF pc' = "delete" /\ pc = "allow" THEN Unwanted ELSE todo
    /\ UNCHANGED <<cloud, request, current, at, grants>>

-----------------------------------------------------------------------------
(* UpdateLoadBalancer: an error unless the load balancer exists, then      *)
(* EnsureLoadBalancer, which describes it afresh.                          *)

UpdateLoadBalancer(r) ==
    /\ pc \in Idle
    /\ IF r.supported THEN Accept(r, "check") ELSE Fail
    /\ UNCHANGED outage

CheckExists ==
    /\ pc = "check"
    /\ IF Exists /\ Cardinality(request.ports) \in 1..MaxPorts
         THEN pc' = "lookup" /\ UNCHANGED <<elb, rules, locals>>
         ELSE Fail
    /\ UNCHANGED outage

-----------------------------------------------------------------------------
(* EnsureLoadBalancerDeleted.                                              *)

EnsureLoadBalancerDeleted ==
    /\ pc \in Idle
    /\ Accept(NoRequest, "find")
    /\ UNCHANGED outage

\* Mutant: only the first of the listeners found is deleted.
FindFirst ==
    /\ pc = "find"
    /\ current' \in Descriptions
    /\ IF Exists
         THEN \E l \in DOMAIN elb : pc' = "remove" /\ todo' = {l}
         ELSE pc' = "confirm" /\ UNCHANGED todo
    /\ UNCHANGED <<cloud, request, at, grants>>
FindListeners ==
    /\ pc = "find"
    /\ current' \in Descriptions
    /\ pc' = NextRemove(DOMAIN elb)
    /\ todo' = DOMAIN elb
    /\ UNCHANGED <<cloud, request, at, grants>>

DeleteFound ==
    /\ pc = "remove"
    /\ \E l \in todo :
         IF l \in DOMAIN elb
           THEN /\ RemoveListener(l)
                /\ pc' = "expel"
                /\ todo' = todo \ {l}
                /\ at' = l
                /\ grants' = Grants(current[l].targets, l, current[l].health)
                /\ UNCHANGED <<rules, request, current>>
           ELSE Fail
    /\ UNCHANGED outage

Confirm ==
    /\ pc = "confirm"
    /\ Leave("deleted")
    /\ UNCHANGED cloud

-----------------------------------------------------------------------------
(* What goes wrong around the caller.                                      *)

\* A request fails, a wait or a request times out, the context is cancelled,
\* or the process dies.  The code keeps nothing across calls.
Fault ==
    /\ outage
    /\ pc \notin Idle
    /\ Fail
    /\ UNCHANGED outage

OutageEnds ==
    /\ outage
    /\ outage' = FALSE
    /\ UNCHANGED <<elb, rules, pc, locals>>

-----------------------------------------------------------------------------
Call ==
    \/ \E r \in Requests : EnsureLoadBalancer(r) \/ UpdateLoadBalancer(r)
    \/ EnsureLoadBalancerDeleted

Step ==
    \/ DescribeInstances \/ DescribeLoadBalancers
    \/ CreateListener \/ ConfigureHealthCheck \/ RegisterAll \/ Locate
    \/ DeleteListener \/ Redescribe \/ ReconcileListener
    \/ RegisterInstances \/ DeregisterInstances \/ Return
    \/ AuthorizeIngress \/ RevokeIngress \/ RulesDone
    \/ CheckExists
    \/ FindListeners \/ DeleteFound \/ Confirm

Next == Call \/ Step \/ Fault \/ OutageEnds

Spec == Init /\ [][Next]_vars

\* NIFCLOUD answers every request, and the process keeps running.
ReliableSpec == Init /\ ~outage /\ [][Next]_vars

\* ... and the ports and the Nodes of the Service do not change at once.
Steady ==
    pc \in Idle /\ pc' \in {"lookup", "check"} =>
      \/ Listeners(request') = DOMAIN elb
      \/ \A l \in DOMAIN elb : elb[l].targets = Targets(request')
SteadySpec == Init /\ ~outage /\ [][Next /\ Steady]_vars

-----------------------------------------------------------------------------
(* Properties.                                                             *)

TypeOK ==
    /\ IsLoadBalancer(elb)
    /\ rules \subseteq Group \X Rule
    /\ outage \in BOOLEAN
    /\ pc \in Control
    /\ request \in Requests \union {NoRequest}
    /\ IsLoadBalancer(current)
    /\ todo \subseteq Listener
    /\ at \in Listener \union {NoListener}
    /\ grants \subseteq Group \X Rule

\* When EnsureLoadBalancer or UpdateLoadBalancer is about to return without an
\* error, the load balancer has the listeners of the Service, whatever failed
\* calls before left.
ListenersConverged == pc = "return" => DOMAIN elb = Wanted

\* ... and each listener has exactly the targets that were asked for.
TargetsConverged ==
    pc = "return" => \A l \in DOMAIN elb : elb[l].targets = Targets(request)

\* What is true of the targets: see Described.  Holds whatever load balancer,
\* with however many ports, a call for a Service of one port finds.
OnePort == Cardinality(Wanted) = 1
OnePortConverged == OnePort => TargetsConverged

\* When EnsureLoadBalancerDeleted is about to return without an error nothing
\* is left of the load balancer.
NothingLeft == pc = "confirm" => ~Exists

\* The calls implement the abstract specification of a load balancer whose parts
\* are its listeners; what becomes of their targets, see TargetsConverged.
Status == CASE pc = "idle" -> "idle"
            [] pc \in {"done", "deleted"} -> "ok"
            [] pc = "failed" -> "error"
            [] OTHER -> "calling"
Contract == INSTANCE LoadBalancerContract
              WITH Caller <- {"caller"}, Part <- Listener, have <- DOMAIN elb,
                   status <- [c \in {"caller"} |-> Status],
                   want <- [c \in {"caller"} |-> Wanted],
                   opposed <- {}
ImplementsContract == Contract!Spec

\* An Ensure or an Update never removes the last listener: the load balancer
\* keeps existing, hence its address, even when every port is replaced.
KeepsExisting == pc \in Ensuring /\ Exists => Exists'
NeverVanishes == [][KeepsExisting]_vars

\* A listener that has targets has some at every step of an Ensure or an Update
\* that replaces them: new ones are registered before old ones leave.
KeepsTargets == OnePort =>
    \A l \in DOMAIN elb \intersect DOMAIN elb' :
      elb[l].targets # {} => elb'[l].targets # {}
TargetsNeverEmptied == [][KeepsTargets]_vars

\* When an Ensure or an Update is about to return without an error, the rules
\* that let the load balancer reach every one of its targets are in place.
Reachable == pc = "return" => Needed(elb) \subseteq rules

\* When a call is about to return without an error, no rule is open that no
\* listener needs; after a Delete, none at all.
NoStrayRules == pc \in {"return", "confirm"} => rules \subseteq Needed(elb)

\* A rule that is open and needed stays open as long as it is needed: no step
\* cuts a listener off from a target it keeps, not even for a while.
KeepsRules == \A g \in rules : g \in Needed(elb) /\ g \in Needed(elb') => g \in rules'
RulesStay == [][KeepsRules]_vars

\* When NIFCLOUD answers every request, an Ensure or an Update that has found
\* its instances does not fail.  Holds in SteadySpec as long as ports keep their
\* node ports and the limit leaves room for old and new ports together.
Accepted == ~outage /\ pc \in Ensuring \ {"lookup"} => pc' # "failed"
NeverRefused == [][Accepted]_vars

\* Whatever ports and Nodes change together, and whatever earlier calls and
\* failures left: when NIFCLOUD answers every request, a call that has found its
\* instances fails only because a port it asks for cannot be there beside those
\* that are, or, with all its listeners right, on targets it took to be another
\* listener's: see Described.
Conflict ==
    \/ \E l \in DOMAIN elb, m \in Wanted : l.port = m.port /\ l # m
    \/ Cardinality(DOMAIN elb \union Wanted) > MaxPorts
    \/ \E m \in Wanted : m.nodePort = Unallocated
Mistaken == pc \in {"enroll", "withdraw"} /\ DOMAIN elb = Wanted
Explained ==
    ~outage /\ pc \in (Ensuring \union Deleting) \ {"lookup"} /\ pc' = "failed"
      => Conflict \/ Mistaken
RefusedForCause == [][Explained]_vars

-----------------------------------------------------------------------------
(* The inductive invariant behind the listeners.                           *)

\* The listeners a loop works on are those it is for, whatever others do to the
\* load balancer.
LocalInv ==
    /\ pc \in Ensuring => Wanted # {}
    /\ pc \in Deleting => Wanted = {}
    /\ pc \in Provisioning => todo \subseteq Wanted
    /\ pc \in {"delete", "deny"} => todo \subseteq DOMAIN current \ Wanted
    /\ pc \in Reconciling => todo \subseteq DOMAIN current
    /\ pc \in Reconciling \ {"reconcile"} => at \in DOMAIN current
    /\ pc \in Deleting \ {"find"} => todo \subseteq DOMAIN current

\* The listeners that are there are those described, and wanted ones, while the
\* call provisions; the wanted ones, and those left to delete, while it deletes;
\* exactly the wanted ones while it reconciles.
ProvisioningInv == pc \in Provisioning =>
    /\ Wanted \ todo \subseteq DOMAIN elb
    /\ DOMAIN elb \subseteq DOMAIN current \union Wanted

DeleteInv == pc \in {"delete", "deny", "redescribe"} =>
    /\ Wanted \subseteq DOMAIN elb
    /\ DOMAIN elb \subseteq Wanted \union todo
    /\ pc = "redescribe" => todo = {}

ReconcileInv == pc \in Reconciling => DOMAIN elb = Wanted

DeletingInv == pc \in Deleting \ {"find"} =>
    /\ DOMAIN elb \subseteq todo
    /\ pc = "confirm" => todo = {}

CallerInv ==
    ProvisioningInv /\ DeleteInv /\ ReconcileInv /\ DeletingInv /\ ListenersConverged

\* At every point of a call the listeners in NIFCLOUD are the ones the caller
\* takes to be there, so no loop ever meets one it does not expect.
ListenersInv == LocalInv /\ CallerInv
=============================================================================
