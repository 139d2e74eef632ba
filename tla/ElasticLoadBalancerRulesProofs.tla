------------------- MODULE ElasticLoadBalancerRulesProofs -------------------
(***************************************************************************)
(* What becomes of the targets of an elastic load balancer, and of the     *)
(* rules it reaches them by.  First for a Service of one port, whatever    *)
(* load balancer a call finds and whatever fails; then for a Service of    *)
(* any ports whose calls are answered and which changes ports and Nodes    *)
(* one at a time.  Last, what a call may be refused for if it changes both *)
(* at once.                                                                *)
(***************************************************************************)
EXTENDS ElasticLoadBalancerProofs

-----------------------------------------------------------------------------
(* One port.  The list of listeners to work on has one member, so once the *)
(* call works on it the list is empty, and it was described as it is.      *)

AtWork == (Provisioning \ {"create"}) \union (Reconciling \ {"reconcile"})

OnePortInv == OnePort =>
    /\ pc \in AtWork => Wanted = {at} /\ todo = {}
    /\ pc \in {"health", "register"} => elb[at].targets = {}
    /\ pc \in {"locate", "allow", "evict"} => elb[at].targets = Targets(request)
    /\ pc = "reconcile" =>
         todo = Wanted /\ \A l \in todo : current[l].targets = elb[l].targets
    /\ pc = "enroll" => current[at].targets = elb[at].targets
    /\ pc \in {"admit", "withdraw"} =>
         elb[at].targets = current[at].targets \union Targets(request)
    /\ TargetsConverged

\* Past the lookup the Nodes of the request are known to have machines.
FoundInv == pc \in Ensuring \ {"lookup"} => AllFound(request)

LEMMA OneWanted ==
    ASSUME Inv, OnePort
    PROVE  /\ request \in Requests
           /\ \E l \in Listener : Wanted = {l}
<1>1. request \in Requests
  BY FS_EmptySet DEF Inv, TypeOK, OnePort, Wanted, Listeners, NoRequest
<1>2. IsFiniteSet(Wanted)
  BY <1>1, ServiceAssumption DEF ServiceAssumption, Wanted, Listeners
<1>3. Wanted \subseteq Listener
  BY <1>1, RequestTypes DEF Wanted
<1> QED
  BY <1>1, <1>2, <1>3, FS_Singleton DEF OnePort

\* Past the lookup there are targets to register, if there are machines at all.
LEMMA SomeTargets ==
    ASSUME NEW r \in Request, AllFound(r), Targets(r) = {}
    PROVE  Instance = {}
  BY DEF AllFound, Targets

\* A description gives the only listener the targets it has.
LEMMA OneDescribed ==
    ASSUME NEW l, DOMAIN elb = {l}, NEW c \in Descriptions, IsLoadBalancer(elb)
    PROVE  c[l].targets = elb[l].targets
<1>1. PICK first \in DOMAIN elb : c = Described(first)
  BY DEF Descriptions, Exists
<1> QED
  BY <1>1 DEF Described, IsLoadBalancer, Settings

LEMMA FoundStep ==
    ASSUME FoundInv, [Next]_vars
    PROVE  FoundInv'
<1>1. CASE pc' \notin Ensuring \ {"lookup"}
  BY <1>1 DEF FoundInv
<1>2. CASE pc' \in Ensuring \ {"lookup"} /\ request' = request /\ pc \in Ensuring \ {"lookup"}
  BY <1>2 DEF FoundInv
<1>3. CASE DescribeInstances
  BY <1>3 DEF DescribeInstances, FoundInv, locals, Fail, Leave, Ensuring, Provisioning,
     Reconciling
<1>4. CASE Call \/ Fault \/ Return \/ Confirm \/ Fail \/ CheckExists
  <2>1. pc' \in Idle \union {"lookup", "check", "find"}
    BY <1>4 DEF Call, EnsureLoadBalancer, UpdateLoadBalancer, EnsureLoadBalancerDeleted,
       Accept, Fault, Return, Confirm, CheckExists, Fail, Leave, Idle
  <2> QED
    BY <1>1, <2>1 DEF Idle, Ensuring, Provisioning, Reconciling
<1>5. CASE (FindListeners \/ DeleteFound) /\ ~Fail
  <2>1. pc' \in Deleting
    BY <1>5 DEF FindListeners, DeleteFound, NextRemove, Deleting
  <2> QED
    BY <1>1, <2>1 DEF Deleting, Ensuring, Provisioning, Reconciling
<1>6. CASE (DescribeLoadBalancers \/ CreateListener \/ ConfigureHealthCheck \/ RegisterAll
              \/ Locate \/ DeleteListener \/ Redescribe \/ ReconcileListener
              \/ RegisterInstances \/ DeregisterInstances) /\ ~Fail
  <2>1. request' = request /\ pc \in Ensuring \ {"lookup"}
    BY <1>6 DEF DescribeLoadBalancers, CreateListener, ConfigureHealthCheck, RegisterAll,
       Locate, DeleteListener, Redescribe, ReconcileListener, RegisterInstances,
       DeregisterInstances, locals, Ensuring, Provisioning, Reconciling
  <2> QED
    BY <1>1, <1>2, <2>1
<1>7. CASE RulesDone
  <2>1. request' = request
    BY <1>7 DEF RulesDone
  <2>2. pc \in Ensuring \ {"lookup"} \/ pc' \in Deleting
    BY <1>7 DEF RulesDone, NextRemove, Opening, Closing, Deleting, Ensuring, Provisioning,
       Reconciling
  <2> QED
    BY <1>1, <1>2, <2>1, <2>2 DEF Deleting, Ensuring, Provisioning, Reconciling
<1>8. CASE AuthorizeIngress \/ RevokeIngress \/ OutageEnds \/ UNCHANGED vars
  <2>1. UNCHANGED <<pc, request>>
    BY <1>8 DEF AuthorizeIngress, RevokeIngress, OutageEnds, vars, locals
  <2> QED
    BY <2>1 DEF FoundInv
<1> QED
  BY <1>3, <1>4, <1>5, <1>6, <1>7, <1>8 DEF Next, Step

-----------------------------------------------------------------------------
(* How a request changes the listeners, one by one.                        *)

LEMMA AddListenerEffect ==
    ASSUME NEW l, l \notin DOMAIN elb, AddListener(l)
    PROVE  /\ DOMAIN elb' = DOMAIN elb \union {l}
           /\ elb'[l] = NewSettings
           /\ \A m \in DOMAIN elb : elb'[m] = elb[m]
  BY DEF AddListener

LEMMA RemoveListenerEffect ==
    ASSUME NEW l, RemoveListener(l)
    PROVE  /\ DOMAIN elb' = DOMAIN elb \ {l}
           /\ \A m \in DOMAIN elb \ {l} : elb'[m] = elb[m]
  BY DEF RemoveListener, Restrict

LEMMA SetHealthEffect ==
    ASSUME IsLoadBalancer(elb), NEW l \in DOMAIN elb, NEW h, SetHealth(l, h)
    PROVE  /\ DOMAIN elb' = DOMAIN elb
           /\ elb'[l].targets = elb[l].targets /\ elb'[l].health = h
           /\ \A m \in DOMAIN elb \ {l} : elb'[m] = elb[m]
  BY DEF IsLoadBalancer, Settings, SetHealth

LEMMA AddTargetsEffect ==
    ASSUME IsLoadBalancer(elb), NEW l \in DOMAIN elb, NEW is, AddTargets(l, is)
    PROVE  /\ DOMAIN elb' = DOMAIN elb
           /\ elb'[l].targets = elb[l].targets \union is
           /\ elb'[l].health = elb[l].health
           /\ \A m \in DOMAIN elb \ {l} : elb'[m] = elb[m]
  BY DEF IsLoadBalancer, Settings, AddTargets

LEMMA RemoveTargetsEffect ==
    ASSUME IsLoadBalancer(elb), NEW l \in DOMAIN elb, NEW is, RemoveTargets(l, is)
    PROVE  /\ DOMAIN elb' = DOMAIN elb
           /\ elb'[l].targets = elb[l].targets \ is
           /\ elb'[l].health = elb[l].health
           /\ \A m \in DOMAIN elb \ {l} : elb'[m] = elb[m]
  BY DEF IsLoadBalancer, Settings, RemoveTargets

-----------------------------------------------------------------------------
(* The steps of a call for one port.                                       *)

\* Nothing is claimed of the targets before the call works on its listener.
LEMMA OnePortElsewhere ==
    ASSUME pc' \notin AtWork \union {"reconcile", "return"}
    PROVE  OnePortInv'
  BY DEF OnePortInv, AtWork, TargetsConverged, Provisioning, Reconciling

LEMMA OnePortCreate ==
    ASSUME Inv, CallerInv, OnePortInv, ~Fail,
           CreateListener \/ ConfigureHealthCheck \/ RegisterAll \/ Locate
    PROVE  OnePortInv'
<1> SUFFICES ASSUME OnePort' PROVE OnePortInv'
  BY DEF OnePortInv
<1>1. Wanted' = Wanted /\ request' = request /\ OnePort
  BY DEF CreateListener, ConfigureHealthCheck, RegisterAll, Locate, locals, Wanted, OnePort
<1>2. PICK w : Wanted = {w}
  BY <1>1, OneWanted
<1>3. /\ pc \in Provisioning => todo \subseteq Wanted /\ Wanted \ todo \subseteq DOMAIN elb
      /\ IsLoadBalancer(elb)
  BY DEF Inv, TypeOK, LocalInv, CallerInv, ProvisioningInv
<1>4. CASE CreateListener
  <2>1. PICK l \in todo :
           /\ IF Fresh /\ todo = Wanted THEN CanCreate(l) ELSE CanRegisterPort(l)
           /\ AddListener(l) /\ pc' = "health" /\ todo' = todo \ {l} /\ at' = l
    BY <1>4, Zenon DEF CreateListener
  <2>2. l \notin DOMAIN elb
    BY <2>1 DEF CanCreate, CanRegisterPort, Exists
  <2>3. elb'[l].targets = {}
    <3>1. elb'[l] = NewSettings
      BY <2>1, <2>2, AddListenerEffect
    <3> QED
      BY <3>1 DEF NewSettings
  <2>4. todo \subseteq Wanted
    BY <1>3, <1>4 DEF CreateListener, Provisioning
  <2>5. l = w /\ todo' = {}
    BY <1>2, <2>1, <2>4
  <2> QED
    BY <1>1, <1>2, <2>1, <2>3, <2>5
    DEF OnePortInv, TargetsConverged, AtWork, Provisioning, Reconciling
<1>5. CASE ConfigureHealthCheck
  <2>1. /\ SetHealth(at, request.health) /\ at \in DOMAIN elb
        /\ pc' = "register" /\ pc = "health" /\ todo' = todo /\ at' = at
    BY <1>5 DEF ConfigureHealthCheck, locals
  <2>2. Wanted = {at} /\ todo = {} /\ elb[at].targets = {}
    BY <1>1, <2>1 DEF OnePortInv, AtWork, Provisioning
  <2>3. elb'[at].targets = {}
    BY <1>3, <2>1, <2>2, SetHealthEffect
  <2> QED
    BY <1>1, <2>1, <2>2, <2>3
    DEF OnePortInv, TargetsConverged, AtWork, Provisioning, Reconciling
<1>6. CASE RegisterAll
  <2>1. /\ AddTargets(at, Targets(request)) /\ at \in DOMAIN elb
        /\ pc' \in {"locate", "allow"} /\ pc = "register" /\ todo' = todo /\ at' = at
    BY <1>6 DEF RegisterAll, CanRegister
  <2>2. Wanted = {at} /\ todo = {} /\ elb[at].targets = {}
    BY <1>1, <2>1 DEF OnePortInv, AtWork, Provisioning
  <2>3. elb'[at].targets = Targets(request)
    BY <1>3, <2>1, <2>2, AddTargetsEffect
  <2> QED
    BY <1>1, <2>1, <2>2, <2>3
    DEF OnePortInv, TargetsConverged, AtWork, Provisioning, Reconciling
<1>7. CASE Locate
  BY <1>1, <1>7
  DEF Locate, locals, OnePortInv, TargetsConverged, AtWork, Provisioning, Reconciling
<1> QED
  BY <1>4, <1>5, <1>6, <1>7

LEMMA OnePortDescribe ==
    ASSUME Inv, CallerInv, DescribeLoadBalancers \/ Redescribe
    PROVE  OnePortInv'
<1> SUFFICES ASSUME OnePort', pc' = "reconcile" PROVE OnePortInv'
  BY OnePortElsewhere DEF OnePortInv, DescribeLoadBalancers, Redescribe, Fail, Leave, AtWork,
     Provisioning, Reconciling
<1>1. /\ Wanted' = Wanted /\ OnePort /\ elb' = elb /\ IsLoadBalancer(elb)
      /\ current' \in Descriptions /\ todo' = DOMAIN elb
  BY DEF DescribeLoadBalancers, Redescribe, Fail, Leave, cloud, Wanted, OnePort, Inv, TypeOK
<1>2. PICK w : Wanted = {w}
  BY <1>1, OneWanted
<1>3. DOMAIN elb = Wanted
  BY DEF DescribeLoadBalancers, Redescribe, Fail, Leave, CallerInv, DeleteInv
<1>4. current'[w].targets = elb[w].targets
  BY <1>1, <1>2, <1>3, OneDescribed
<1> QED
  BY <1>1, <1>2, <1>3, <1>4 DEF OnePortInv, TargetsConverged, AtWork, Provisioning, Reconciling

LEMMA OnePortReconcile ==
    ASSUME Inv, CallerInv, OnePortInv, ~Fail,
           ReconcileListener \/ RegisterInstances \/ DeregisterInstances
    PROVE  OnePortInv'
<1> SUFFICES ASSUME OnePort' PROVE OnePortInv'
  BY DEF OnePortInv
<1>1. Wanted' = Wanted /\ request' = request /\ current' = current /\ OnePort
  BY DEF ReconcileListener, RegisterInstances, DeregisterInstances, Wanted, OnePort
<1>2. PICK w : Wanted = {w}
  BY <1>1, OneWanted
<1>3. /\ IsLoadBalancer(elb) /\ DOMAIN elb = Wanted
  BY DEF Inv, TypeOK, CallerInv, ReconcileInv, Reconciling, ReconcileListener,
     RegisterInstances, DeregisterInstances
<1>4. CASE ReconcileListener
  <2>1. PICK l \in todo : /\ pc' = FromEnroll(current[l], todo \ {l}) /\ todo' = todo \ {l}
                          /\ at' = l /\ elb' = elb
    BY <1>4 DEF ReconcileListener
  <2>2. l = w /\ todo' = {} /\ current[l].targets = elb[l].targets
    BY <1>1, <1>2, <1>4, <2>1 DEF ReconcileListener, OnePortInv
  <2>3. pc' = IF ToRegister(request, current[l]) # {} THEN "enroll"
              ELSE IF ToDeregister(request, current[l]) # {} THEN "withdraw" ELSE "return"
    BY <2>1, <2>2 DEF FromEnroll, FromWithdraw, NextReconcile
  <2>4. /\ pc' = "withdraw" => Targets(request) \subseteq elb[l].targets
        /\ pc' = "return" => elb[l].targets = Targets(request)
    BY <2>2, <2>3 DEF ToRegister, ToDeregister
  <2>5. pc' \in {"enroll", "withdraw", "return"}
    BY <2>3
  <2> QED
    BY <1>1, <1>2, <1>3, <2>1, <2>2, <2>4, <2>5
    DEF OnePortInv, TargetsConverged, AtWork, Provisioning, Reconciling
<1>5. CASE RegisterInstances
  <2> DEFINE new == ToRegister(request, current[at])
  <2>1. /\ AddTargets(at, new) /\ at \in DOMAIN elb
        /\ pc' = "admit" /\ pc = "enroll" /\ todo' = todo /\ at' = at
    BY <1>5 DEF RegisterInstances, CanRegister
  <2>2. Wanted = {at} /\ todo = {} /\ current[at].targets = elb[at].targets
    BY <1>1, <2>1 DEF OnePortInv, AtWork, Reconciling
  <2>3. elb'[at].targets = elb[at].targets \union new
    BY <1>3, <2>1, AddTargetsEffect
  <2>4. elb'[at].targets = current[at].targets \union Targets(request)
    BY <2>2, <2>3 DEF ToRegister
  <2> QED
    BY <1>1, <2>1, <2>2, <2>4
    DEF OnePortInv, TargetsConverged, AtWork, Provisioning, Reconciling
<1>6. CASE DeregisterInstances
  <2> DEFINE old == ToDeregister(request, current[at])
  <2>1. /\ RemoveTargets(at, old) /\ at \in DOMAIN elb
        /\ pc' = "evict" /\ pc = "withdraw" /\ todo' = todo /\ at' = at
    BY <1>6 DEF DeregisterInstances, CanDeregister
  <2>2. /\ Wanted = {at} /\ todo = {}
        /\ elb[at].targets = current[at].targets \union Targets(request)
    BY <1>1, <2>1 DEF OnePortInv, AtWork, Reconciling
  <2>3. elb'[at].targets = elb[at].targets \ old
    BY <1>3, <2>1, RemoveTargetsEffect
  <2>4. elb'[at].targets = Targets(request)
    BY <2>2, <2>3 DEF ToDeregister
  <2> QED
    BY <1>1, <2>1, <2>2, <2>4
    DEF OnePortInv, TargetsConverged, AtWork, Provisioning, Reconciling
<1> QED
  BY <1>4, <1>5, <1>6

LEMMA OnePortRulesDone ==
    ASSUME Inv, CallerInv, OnePortInv, RulesDone
    PROVE  OnePortInv'
<1> SUFFICES ASSUME OnePort', pc' \in AtWork \union {"reconcile", "return"} PROVE OnePortInv'
  BY OnePortElsewhere DEF OnePortInv
<1>1. /\ UNCHANGED <<elb, request, current, at>> /\ Wanted' = Wanted /\ OnePort
  BY DEF RulesDone, cloud, Wanted, OnePort
<1>2. /\ pc = "allow" => pc' = NextCreate(todo)
      /\ pc = "deny"  => pc' = NextDelete(todo)
      /\ pc = "admit" => pc' = FromWithdraw(current[at], todo)
      /\ pc = "evict" => pc' = NextReconcile(todo)
      /\ pc = "expel" => pc' = NextRemove(todo)
      /\ pc \in {"allow", "deny", "admit", "evict", "expel"}
      /\ pc' # "delete" => todo' = todo
  BY DEF RulesDone, Opening, Closing
<1>3. pc \in {"allow", "admit", "evict"}
  BY <1>2 DEF NextDelete, NextRemove, AtWork, Provisioning, Reconciling
<1>4. Wanted = {at} /\ todo = {}
  BY <1>1, <1>3 DEF OnePortInv, AtWork, Provisioning, Reconciling
<1>5. /\ pc = "allow" => pc' = "return"
      /\ pc = "evict" => pc' = "return"
      /\ pc = "admit" => pc' = IF ToDeregister(request, current[at]) # {} THEN "withdraw"
                               ELSE "return"
  BY <1>2, <1>4
  DEF NextCreate, NextReconcile, FromWithdraw, AtWork, Provisioning, Reconciling
<1>6. todo' = {} /\ pc' \in {"return", "withdraw"}
  BY <1>2, <1>3, <1>4, <1>5
<1>7. CASE pc' = "withdraw"
  <2>1. elb[at].targets = current[at].targets \union Targets(request)
    BY <1>1, <1>3, <1>5, <1>7 DEF OnePortInv
  <2> QED
    BY <1>1, <1>4, <1>6, <1>7, <2>1
    DEF OnePortInv, TargetsConverged, AtWork, Provisioning, Reconciling
<1>8. CASE pc' = "return"
  <2>1. elb[at].targets = Targets(request)
    BY <1>1, <1>3, <1>5, <1>8 DEF OnePortInv, ToDeregister
  <2>2. DOMAIN elb = Wanted
    <3>1. CallerInv' => DOMAIN elb' = Wanted'
      BY <1>8 DEF CallerInv, ListenersConverged
    <3> QED
      BY <1>1, <3>1, RulesDoneInv DEF Kept
  <2>3. \A l \in DOMAIN elb' : elb'[l].targets = Targets(request')
    BY <1>1, <1>4, <2>1, <2>2
  <2> QED
    BY <1>8, <2>3 DEF OnePortInv, TargetsConverged, AtWork, Provisioning, Reconciling
<1> QED
  BY <1>6, <1>7, <1>8

LEMMA OnePortStep ==
    ASSUME Inv, CallerInv, OnePortInv, [Next]_vars
    PROVE  OnePortInv'
<1>1. CASE UNCHANGED <<elb, pc, request, current, todo, at>>
  BY <1>1 DEF OnePortInv, OnePort, TargetsConverged, Wanted
<1>2. CASE AuthorizeIngress \/ RevokeIngress \/ OutageEnds \/ UNCHANGED vars
  BY <1>1, <1>2 DEF AuthorizeIngress, RevokeIngress, OutageEnds, vars, locals
<1>3. CASE Fail \/ Fault \/ Call \/ Return \/ Confirm \/ CheckExists \/ DescribeInstances
             \/ FindListeners \/ DeleteFound \/ DeleteListener
  <2>1. pc' \in Idle \union {"check", "lookup", "describe", "find", "remove", "expel",
                            "confirm", "deny"}
    BY <1>3 DEF Fail, Leave, Fault, Call, EnsureLoadBalancer, UpdateLoadBalancer,
       EnsureLoadBalancerDeleted, Accept, Return, Confirm, CheckExists, DescribeInstances,
       FindListeners, NextRemove, DeleteFound, DeleteListener, Idle
  <2> QED
    BY <2>1, OnePortElsewhere DEF Idle, AtWork, Provisioning, Reconciling
<1> QED
  BY <1>2, <1>3, OnePortCreate, OnePortDescribe, OnePortReconcile, OnePortRulesDone
  DEF Next, Step

LEMMA OnePortInvariance == Spec => [](Inv /\ CallerInv /\ FoundInv /\ OnePortInv)
<1>1. Init => FoundInv /\ OnePortInv
  <2> SUFFICES ASSUME Init PROVE FoundInv /\ OnePortInv
    OBVIOUS
  <2>1. pc = "idle"
    BY DEF Init
  <2> QED
    BY <2>1 DEF FoundInv, OnePortInv, AtWork, TargetsConverged, Ensuring, Provisioning,
       Reconciling
<1> QED
  BY <1>1, Invariance, FoundStep, OnePortStep, PTL DEF Spec

\* An Ensure or Update for a Service of one port leaves its listener with exactly
\* the targets asked for, although a description may confuse the targets of
\* listeners: once the others are gone there is nothing to confuse.
THEOREM OnePortConverges == Spec => []OnePortConverged
<1>1. OnePortInv => OnePortConverged
  BY DEF OnePortInv, OnePortConverged
<1> QED
  BY <1>1, OnePortInvariance, PTL

\* Nodes are added to the targets of a Service of one port before others leave,
\* so traffic always has somewhere to go.
THEOREM OnePortKeepsTargets == Spec => TargetsNeverEmptied
<1>1. ASSUME Inv, CallerInv, FoundInv, OnePortInv, [Next]_vars PROVE KeepsTargets
  <2> SUFFICES ASSUME OnePort, NEW l \in DOMAIN elb \intersect DOMAIN elb',
                      elb[l].targets # {}
               PROVE  elb'[l].targets # {}
    BY DEF KeepsTargets
  <2>1. IsLoadBalancer(elb)
    BY <1>1 DEF Inv, TypeOK
  <2>2. CASE elb' = elb
    BY <2>2
  <2>3. CASE DeregisterInstances /\ elb' # elb
    <3> DEFINE old == ToDeregister(request, current[at])
    <3>1. /\ RemoveTargets(at, old) /\ at \in DOMAIN elb /\ pc = "withdraw"
      BY <2>3 DEF DeregisterInstances, CanDeregister, Fail
    <3>2. elb[at].targets = current[at].targets \union Targets(request)
      BY <1>1, <3>1 DEF OnePortInv
    <3>3. elb'[at].targets = Targets(request)
      <4>1. elb'[at].targets = elb[at].targets \ old
        BY <2>1, <3>1, RemoveTargetsEffect
      <4> QED
        BY <3>2, <4>1 DEF ToDeregister
    <3>4. AllFound(request) /\ request \in Request
      BY <1>1, <3>1, OneWanted, RequestTypes DEF FoundInv, Ensuring, Reconciling
    <3>5. Targets(request) # {}
      BY <2>1, <3>4, SomeTargets DEF IsLoadBalancer, Settings
    <3> QED
      BY <2>1, <3>1, <3>3, <3>5, RemoveTargetsEffect
  <2>4. CASE (RegisterAll \/ RegisterInstances) /\ elb' # elb
    <3>1. \E is : at \in DOMAIN elb /\ AddTargets(at, is)
      BY <2>4 DEF RegisterAll, RegisterInstances, CanRegister, Fail
    <3> QED
      BY <2>1, <3>1, AddTargetsEffect
  <2>5. CASE ConfigureHealthCheck /\ elb' # elb
    BY <2>1, <2>5, SetHealthEffect DEF ConfigureHealthCheck, Fail
  <2>6. CASE CreateListener /\ elb' # elb
    <3>1. PICK m : m \notin DOMAIN elb /\ AddListener(m)
      BY <2>6 DEF CreateListener, CanCreate, CanRegisterPort, Exists, Fail
    <3> QED
      BY <3>1, AddListenerEffect
  <2>7. CASE (DeleteListener \/ DeleteFound) /\ elb' # elb
    <3>1. PICK m : RemoveListener(m)
      BY <2>7 DEF DeleteListener, DeleteFound, Fail
    <3> QED
      BY <3>1, RemoveListenerEffect
  <2>8. CASE ~(DeregisterInstances \/ RegisterAll \/ RegisterInstances
                \/ ConfigureHealthCheck \/ CreateListener \/ DeleteListener \/ DeleteFound)
    <3>1. elb' = elb
      BY <1>1, <2>8 DEF Next, Call, Step, Fault, OutageEnds, EnsureLoadBalancer,
         UpdateLoadBalancer, EnsureLoadBalancerDeleted, Accept, Fail, DescribeInstances,
         DescribeLoadBalancers, Locate, Redescribe, ReconcileListener, Return,
         AuthorizeIngress, RevokeIngress, RulesDone, CheckExists, FindListeners, Confirm,
         cloud, vars
    <3> QED
      BY <3>1
  <2> QED
    BY <2>2, <2>3, <2>4, <2>5, <2>6, <2>7, <2>8
<1> QED
  BY <1>1, OnePortInvariance, PTL DEF Spec, TargetsNeverEmptied

-----------------------------------------------------------------------------
(* Any ports.  What is asked of the requests and the account: a port keeps *)
(* its node port, and none is shared; ICMP health checks for at most one   *)
(* port, and one interface if for any; no two instances share a group;     *)
(* room for the ports of two versions of the Service; leftovers like those *)
(* of a call that succeeded.                                               *)

Known == UNION {Listeners(r) : r \in Requests}
CheckedByPing(l) == \E r \in Requests : l \in Listeners(r) /\ r.health = "ICMP"

FixedPorts ==
    /\ \A l, m \in Known : l.port = m.port \/ l.nodePort = m.nodePort => l = m
    /\ \A l \in Known : l.nodePort \notin {Unallocated, Ping}
OneByPing == \A l, m \in Known : CheckedByPing(l) /\ CheckedByPing(m) => l = m
Room ==
    \A q, r \in Requests : Cardinality(Listeners(q) \union Listeners(r)) <= MaxPorts
OwnGroupsOnly ==
    \A i, j \in Instance : i # j => GroupsOf[i] \intersect GroupsOf[j] = {}
OneInterface == TwoArm => \A l \in Known : ~CheckedByPing(l)

\* What a call that succeeds leaves: the listeners of a request, or none, all
\* with the same targets.  Health checks are by ping only where a request says so.
Settled(c) ==
    /\ DOMAIN c = {} \/ \E r \in Requests : DOMAIN c = Listeners(r)
    /\ \A l, m \in DOMAIN c : c[l].targets = c[m].targets
Sound(c) ==
    /\ DOMAIN c \subseteq Known
    /\ \A l \in DOMAIN c : c[l].health = "ICMP" => CheckedByPing(l)

Undisturbed ==
    /\ FixedPorts /\ OneByPing /\ Room /\ OwnGroupsOnly /\ OneInterface
    /\ \A c \in Leftovers : Settled(c) /\ Sound(c)

-----------------------------------------------------------------------------
(* The inductive invariant.                                                *)

Resting == Idle \union {"check", "lookup", "describe", "find"}

Given(l) == elb[l].targets = Targets(request)
AsDescribed(l) == current[l] = elb[l]

\* A call that is to change listeners found the targets it is to leave.
RestingTargets ==
    /\ pc \in Resting => Settled(elb)
    /\ pc \in {"check", "lookup", "describe"} =>
         Wanted = DOMAIN elb \/ \A l \in DOMAIN elb : Given(l)

\* New listeners come on top of those described, and only the one at work lacks
\* its targets.
ProvisioningTargets == pc \in Provisioning =>
    /\ DOMAIN current = {} \/ \E r \in Requests : DOMAIN current = Listeners(r)
    /\ DOMAIN elb = DOMAIN current \union (Wanted \ todo)
    /\ todo \intersect DOMAIN elb = {}
    /\ \A l \in DOMAIN current : AsDescribed(l)
    /\ pc # "create" => at \in Wanted \ (todo \union DOMAIN current)
    /\ \A l \in DOMAIN elb :
         IF pc \in {"health", "register"} /\ l = at THEN elb[l].targets = {} ELSE Given(l)
    /\ pc = "register" => elb[at].health = request.health

DeleteTargets == pc \in {"delete", "deny", "redescribe"} =>
    /\ DOMAIN elb = Wanted \union todo
    /\ \A l \in DOMAIN elb : Given(l)
    /\ \A l \in todo : AsDescribed(l)

ReconcileTargets == pc \in Reconciling =>
    /\ todo \subseteq DOMAIN elb
    /\ \A l \in todo : AsDescribed(l)
    /\ \A l \in DOMAIN elb \ todo : pc = "reconcile" \/ l # at => Given(l)
    /\ pc # "reconcile" => at \in DOMAIN elb \ todo
    /\ pc = "enroll" => AsDescribed(at)
    /\ pc \in {"admit", "withdraw"} =>
         /\ elb[at].targets = current[at].targets \union Targets(request)
         /\ elb[at].health = current[at].health
    /\ pc = "evict" => Given(at)

DeletingTargets == pc \in Deleting \ {"find"} =>
    /\ DOMAIN elb = todo
    /\ \A l \in todo : AsDescribed(l)

\* The rules that are open are those needed, but for those the call is about to
\* open or close.
RulesInv ==
    Needed(elb) = IF pc \in Opening \union {"locate"} THEN rules \union grants
                  ELSE IF pc \in Closing THEN rules \ grants ELSE rules

TargetsInv ==
    /\ ~outage
    /\ Sound(elb)
    /\ RestingTargets /\ ProvisioningTargets /\ DeleteTargets /\ ReconcileTargets
    /\ DeletingTargets /\ TargetsConverged
SteadyInv == TargetsInv /\ RulesInv

-----------------------------------------------------------------------------
(* The rules listeners need, and how they change with the listeners.       *)

\* The rules of different listeners differ, and so do those of different targets.
LEMMA GrantsApart ==
    ASSUME FixedPorts, OneByPing, NEW l \in Known, NEW m \in Known, l # m,
           NEW h, NEW k, h = "ICMP" => CheckedByPing(l), k = "ICMP" => CheckedByPing(m),
           NEW is, NEW js
    PROVE  Grants(is, l, h) \intersect Grants(js, m, k) = {}
<1>1. RulesOf(l, h) \intersect RulesOf(m, k) = {}
  BY DEF FixedPorts, OneByPing, RulesOf
<1> QED
  BY <1>1 DEF Grants

LEMMA GrantsUnion ==
    ASSUME NEW is, NEW js, NEW l, NEW h
    PROVE  Grants(is \union js, l, h) = Grants(is, l, h) \union Grants(js, l, h)
<1>1. Groups(is \union js) = Groups(is) \union Groups(js)
  BY DEF Groups
<1> QED
  BY <1>1 DEF Grants

LEMMA GrantsMinus ==
    ASSUME OwnGroupsOnly, NEW is \in SUBSET Instance, NEW js \in SUBSET is, NEW l, NEW h
    PROVE  Grants(is \ js, l, h) = Grants(is, l, h) \ Grants(js, l, h)
<1>1. Groups(is \ js) = Groups(is) \ Groups(js)
  BY DEF Groups, OwnGroupsOnly
<1> QED
  BY <1>1 DEF Grants

LEMMA GrantsNone ==
    ASSUME NEW l, NEW h
    PROVE  Grants({}, l, h) = {}
  BY DEF Grants, Groups

\* The rules a listener needs are those the code opens and closes for it.
LEMMA NeededIsGranted ==
    ASSUME OneInterface, NEW c, Sound(c), NEW g
    PROVE  g \in Needed(c) <=> \E l \in DOMAIN c : g \in Grants(c[l].targets, l, c[l].health)
<1> DEFINE needs(l) ==
             (UNION {GroupsOf[i] : i \in c[l].targets})
               \X ({l.nodePort} \union IF c[l].health = "ICMP" THEN {Ping} ELSE {})
<1>1. ASSUME NEW l \in DOMAIN c
      PROVE  needs(l) = Grants(c[l].targets, l, c[l].health)
  <2>1. ~(TwoArm /\ c[l].health = "ICMP")
    BY <1>1 DEF OneInterface, Sound
  <2>2. RulesOf(l, c[l].health)
          = {l.nodePort} \union IF c[l].health = "ICMP" THEN {Ping} ELSE {}
    BY <2>1 DEF RulesOf
  <2> QED
    BY <2>2 DEF Grants, Groups
<1>2. Needed(c) = UNION {needs(l) : l \in DOMAIN c}
  BY DEF Needed
<1>3. g \in Needed(c) <=> \E l \in DOMAIN c : g \in needs(l)
  <2> HIDE DEF needs
  <2> QED
    BY <1>2
<1> HIDE DEF needs
<1> QED
  BY <1>1, <1>3

\* A change to one listener is a change to its rules.
OnlyAt(c, d, l) ==
    /\ DOMAIN c \ {l} = DOMAIN d \ {l}
    /\ \A m \in DOMAIN d \ {l} : d[m] = c[m]
NeededAt(c, l) == IF l \in DOMAIN c THEN Grants(c[l].targets, l, c[l].health) ELSE {}

LEMMA NeededSum ==
    ASSUME OneInterface, NEW c, Sound(c), NEW g
    PROVE  g \in Needed(c) <=> \E l \in Known : g \in NeededAt(c, l)
  BY NeededIsGranted DEF NeededAt, Sound

LEMMA NeededElsewhere ==
    ASSUME NEW c, NEW d, NEW l, OnlyAt(c, d, l), NEW m, m # l
    PROVE  NeededAt(c, m) = NeededAt(d, m)
<1>1. m \in DOMAIN c <=> m \in DOMAIN d
  BY DEF OnlyAt
<1>2. m \in DOMAIN d => d[m] = c[m]
  BY DEF OnlyAt
<1> QED
  BY <1>1, <1>2 DEF NeededAt

LEMMA NeededWith ==
    ASSUME Undisturbed, NEW c, Sound(c), NEW d, Sound(d), NEW l \in Known, OnlyAt(c, d, l),
           NEW more, NeededAt(d, l) = NeededAt(c, l) \union more
    PROVE  Needed(d) = Needed(c) \union more
<1>1. \A g : g \in Needed(c) <=> \E m \in Known : g \in NeededAt(c, m)
  BY NeededSum DEF Undisturbed
<1>2. \A g : g \in Needed(d) <=> \E m \in Known : g \in NeededAt(d, m)
  BY NeededSum DEF Undisturbed
<1>3. \A m \in Known \ {l} : NeededAt(c, m) = NeededAt(d, m)
  BY NeededElsewhere
<1> QED
  BY <1>1, <1>2, <1>3

LEMMA NeededWithout ==
    ASSUME Undisturbed, NEW c, Sound(c), NEW d, Sound(d), NEW l \in Known, OnlyAt(c, d, l),
           NEW less, less \subseteq NeededAt(c, l), NeededAt(d, l) = NeededAt(c, l) \ less
    PROVE  Needed(d) = Needed(c) \ less
<1>1. \A g : g \in Needed(c) <=> \E m \in Known : g \in NeededAt(c, m)
  BY NeededSum DEF Undisturbed
<1>2. \A g : g \in Needed(d) <=> \E m \in Known : g \in NeededAt(d, m)
  BY NeededSum DEF Undisturbed
<1>3. \A m \in Known \ {l} : NeededAt(c, m) = NeededAt(d, m)
  BY NeededElsewhere
<1>4. \A m \in Known \ {l} : NeededAt(c, l) \intersect NeededAt(c, m) = {}
  <2> SUFFICES ASSUME NEW m \in Known \ {l}, l \in DOMAIN c, m \in DOMAIN c
               PROVE  NeededAt(c, l) \intersect NeededAt(c, m) = {}
    BY DEF NeededAt
  <2>1. /\ c[l].health = "ICMP" => CheckedByPing(l)
        /\ c[m].health = "ICMP" => CheckedByPing(m)
    BY DEF Sound
  <2> QED
    BY <2>1, GrantsApart DEF Undisturbed, NeededAt
<1> QED
  BY <1>1, <1>2, <1>3, <1>4

\* The five requests that change a load balancer.
LEMMA AddListenerNeeds ==
    ASSUME Undisturbed, Sound(elb), NEW l, l \in Known \ DOMAIN elb, AddListener(l)
    PROVE  Sound(elb') /\ Needed(elb') = Needed(elb)
<1>1. /\ DOMAIN elb' = DOMAIN elb \union {l}
      /\ elb'[l] = NewSettings
      /\ \A m \in DOMAIN elb : elb'[m] = elb[m]
  BY AddListenerEffect
<1>2. elb'[l].targets = {} /\ elb'[l].health = "TCP"
  BY <1>1 DEF NewSettings
<1>3. Sound(elb') /\ l \in Known
  BY <1>1, <1>2 DEF Sound
<1>4. OnlyAt(elb, elb', l)
  BY <1>1 DEF OnlyAt
<1>5. NeededAt(elb', l) = NeededAt(elb, l) \union {}
  BY <1>1, <1>2, GrantsNone DEF NeededAt
<1>6. ASSUME NEW more, NeededAt(elb', l) = NeededAt(elb, l) \union more
      PROVE  Needed(elb') = Needed(elb) \union more
  BY <1>3, <1>4, <1>6, NeededWith
<1> QED
  BY <1>3, <1>5, <1>6

LEMMA RemoveListenerNeeds ==
    ASSUME Undisturbed, Sound(elb), NEW l \in DOMAIN elb, RemoveListener(l)
    PROVE  /\ Sound(elb')
           /\ Needed(elb') = Needed(elb) \ Grants(elb[l].targets, l, elb[l].health)
<1>1. /\ DOMAIN elb' = DOMAIN elb \ {l}
      /\ \A m \in DOMAIN elb \ {l} : elb'[m] = elb[m]
  BY RemoveListenerEffect
<1>2. Sound(elb') /\ l \in Known
  BY <1>1 DEF Sound
<1>3. OnlyAt(elb, elb', l)
  BY <1>1 DEF OnlyAt
<1>4. NeededAt(elb', l) = {}
  BY <1>1 DEF NeededAt
<1>5. Needed(elb') = Needed(elb) \ NeededAt(elb, l)
  BY <1>2, <1>3, <1>4, NeededWithout
<1> QED
  BY <1>2, <1>5 DEF NeededAt

LEMMA SetHealthNeeds ==
    ASSUME Undisturbed, IsLoadBalancer(elb), Sound(elb), NEW l \in DOMAIN elb,
           elb[l].targets = {}, NEW h, h = "ICMP" => CheckedByPing(l), SetHealth(l, h)
    PROVE  Sound(elb') /\ Needed(elb') = Needed(elb)
<1>1. /\ DOMAIN elb' = DOMAIN elb
      /\ elb'[l].targets = elb[l].targets /\ elb'[l].health = h
      /\ \A m \in DOMAIN elb \ {l} : elb'[m] = elb[m]
  BY SetHealthEffect
<1>2. Sound(elb') /\ l \in Known
  BY <1>1 DEF Sound
<1>3. OnlyAt(elb, elb', l)
  BY <1>1 DEF OnlyAt
<1>4. NeededAt(elb', l) = NeededAt(elb, l) \union {}
  BY <1>1, GrantsNone DEF NeededAt
<1>5. Needed(elb') = Needed(elb) \union {}
  BY <1>2, <1>3, <1>4, NeededWith
<1> QED
  BY <1>2, <1>5

LEMMA AddTargetsNeeds ==
    ASSUME Undisturbed, IsLoadBalancer(elb), Sound(elb), NEW l \in DOMAIN elb, NEW is,
           AddTargets(l, is)
    PROVE  /\ Sound(elb')
           /\ Needed(elb') = Needed(elb) \union Grants(is, l, elb[l].health)
<1>1. /\ DOMAIN elb' = DOMAIN elb
      /\ elb'[l].targets = elb[l].targets \union is /\ elb'[l].health = elb[l].health
      /\ \A m \in DOMAIN elb \ {l} : elb'[m] = elb[m]
  BY AddTargetsEffect
<1>2. Sound(elb') /\ l \in Known
  BY <1>1 DEF Sound
<1>3. OnlyAt(elb, elb', l)
  BY <1>1 DEF OnlyAt
<1>4. NeededAt(elb', l) = NeededAt(elb, l) \union Grants(is, l, elb[l].health)
  BY <1>1, GrantsUnion DEF NeededAt
<1> QED
  BY <1>2, <1>3, <1>4, NeededWith

LEMMA RemoveTargetsNeeds ==
    ASSUME Undisturbed, IsLoadBalancer(elb), Sound(elb), NEW l \in DOMAIN elb,
           NEW is \in SUBSET elb[l].targets, RemoveTargets(l, is)
    PROVE  /\ Sound(elb')
           /\ Needed(elb') = Needed(elb) \ Grants(is, l, elb[l].health)
<1>1. /\ DOMAIN elb' = DOMAIN elb
      /\ elb'[l].targets = elb[l].targets \ is /\ elb'[l].health = elb[l].health
      /\ \A m \in DOMAIN elb \ {l} : elb'[m] = elb[m]
  BY RemoveTargetsEffect
<1>2. Sound(elb') /\ l \in Known
  BY <1>1 DEF Sound
<1>3. OnlyAt(elb, elb', l)
  BY <1>1 DEF OnlyAt
<1>4. elb[l].targets \subseteq Instance /\ elb[l].targets = elb[l].targets \union is
  BY DEF IsLoadBalancer, Settings
<1>5. Grants(elb[l].targets \ is, l, elb[l].health)
        = Grants(elb[l].targets, l, elb[l].health) \ Grants(is, l, elb[l].health)
  BY <1>4, GrantsMinus DEF Undisturbed
<1>6. NeededAt(elb', l) = NeededAt(elb, l) \ Grants(is, l, elb[l].health)
  BY <1>1, <1>5 DEF NeededAt
<1>7. Grants(is, l, elb[l].health) \subseteq NeededAt(elb, l)
  BY <1>4, GrantsUnion DEF NeededAt
<1> QED
  BY <1>2, <1>3, <1>6, <1>7, NeededWithout

-----------------------------------------------------------------------------
(* The steps of a call that is not disturbed.                              *)

Onward == SteadyInv' /\ Accepted

LEMMA Asked ==
    ASSUME Inv, pc \in Ensuring
    PROVE  /\ request \in Requests
           /\ Wanted = Listeners(request)
           /\ Wanted \subseteq Known /\ Wanted \subseteq Listener
<1>1. Wanted # {}
  BY DEF Inv, LocalInv
<1>2. request \in Requests
  BY <1>1 DEF Inv, TypeOK, Wanted, Listeners, NoRequest
<1> QED
  BY <1>2, RequestTypes DEF Wanted, Known

\* A call that has not begun to change the load balancer, or has done it all.
LEMMA RestingStep ==
    ASSUME SteadyInv, UNCHANGED <<elb, rules, outage>>, pc' \in Resting,
           Settled(elb), rules = Needed(elb),
           pc' \in {"check", "lookup", "describe"} =>
             \/ Listeners(request') = DOMAIN elb
             \/ \A l \in DOMAIN elb : elb[l].targets = Targets(request')
    PROVE  SteadyInv'
<1>1. Sound(elb') /\ ~outage'
  BY DEF SteadyInv, TargetsInv
<1>2. RestingTargets'
  BY DEF RestingTargets, Given, Wanted
<1>3. /\ ProvisioningTargets' /\ DeleteTargets' /\ ReconcileTargets' /\ DeletingTargets'
      /\ TargetsConverged'
  BY DEF ProvisioningTargets, DeleteTargets, ReconcileTargets, DeletingTargets,
     TargetsConverged, Resting, Idle, Provisioning, Reconciling, Deleting
<1>4. RulesInv'
  BY DEF RulesInv, Resting, Idle, Opening, Closing
<1> QED
  BY <1>1, <1>2, <1>3, <1>4 DEF SteadyInv, TargetsInv

LEMMA AtRest ==
    ASSUME SteadyInv, pc \in Resting
    PROVE  Settled(elb) /\ rules = Needed(elb)
  BY DEF SteadyInv, TargetsInv, RestingTargets, RulesInv, Resting, Idle, Opening, Closing

LEMMA CallSteady ==
    ASSUME SteadyInv, Call, Steady
    PROVE  Onward
<1>1. /\ pc \in Idle /\ UNCHANGED <<elb, rules, outage>>
      /\ pc' \in {"check", "lookup", "find", "failed"}
  BY DEF Call, EnsureLoadBalancer, UpdateLoadBalancer, EnsureLoadBalancerDeleted, Accept,
     Fail, Leave
<1>2. Settled(elb) /\ rules = Needed(elb)
  BY <1>1, AtRest DEF Resting
<1>3. pc' \in {"check", "lookup"} =>
        \/ Listeners(request') = DOMAIN elb
        \/ \A l \in DOMAIN elb : elb[l].targets = Targets(request')
  BY <1>1 DEF Steady
<1>4. SteadyInv'
  BY <1>1, <1>2, <1>3, RestingStep DEF Resting, Idle
<1>5. Accepted
  BY <1>1 DEF Accepted, Idle, Ensuring, Provisioning, Reconciling
<1> QED
  BY <1>4, <1>5 DEF Onward

LEMMA LookupSteady ==
    ASSUME SteadyInv, DescribeInstances \/ CheckExists
    PROVE  Onward
<1>1. /\ pc \in {"lookup", "check"} /\ UNCHANGED <<elb, rules, outage>>
      /\ \/ pc' \in {"describe", "lookup"} /\ request' = request
         \/ pc' = "failed"
  BY DEF DescribeInstances, CheckExists, Fail, Leave, locals
<1>2. Settled(elb) /\ rules = Needed(elb)
  BY <1>1, AtRest DEF Resting
<1>3. Wanted = DOMAIN elb \/ \A l \in DOMAIN elb : Given(l)
  BY <1>1 DEF SteadyInv, TargetsInv, RestingTargets
<1>4. pc' \in {"check", "lookup", "describe"} =>
        \/ Listeners(request') = DOMAIN elb
        \/ \A l \in DOMAIN elb : elb[l].targets = Targets(request')
  BY <1>1, <1>3 DEF Given, Wanted
<1>5. SteadyInv'
  BY <1>1, <1>2, <1>4, RestingStep DEF Resting, Idle
<1>6. Accepted
  BY <1>1 DEF Accepted, Ensuring, Provisioning, Reconciling
<1> QED
  BY <1>5, <1>6 DEF Onward

LEMMA EndSteady ==
    ASSUME Inv, CallerInv, SteadyInv, Return \/ Confirm
    PROVE  Onward
<1>1. /\ pc \in {"return", "confirm"} /\ UNCHANGED <<elb, rules, outage>>
      /\ pc' \in {"done", "deleted"}
  BY DEF Return, Confirm, Leave, cloud
<1>2. rules = Needed(elb)
  BY <1>1 DEF SteadyInv, RulesInv, Opening, Closing
<1>3. CASE pc = "return"
  <2>1. DOMAIN elb = Wanted /\ \A l \in DOMAIN elb : elb[l].targets = Targets(request)
    BY <1>3 DEF CallerInv, ListenersConverged, SteadyInv, TargetsInv, TargetsConverged
  <2>2. request \in Requests /\ Wanted = Listeners(request)
    BY <1>3, Asked DEF Ensuring
  <2> QED
    BY <1>1, <1>2, <1>3, <2>1, <2>2, RestingStep
    DEF Onward, Accepted, Settled, Resting, Idle
<1>4. CASE pc = "confirm"
  <2>1. DOMAIN elb = {}
    BY <1>4 DEF CallerInv, DeletingInv, Deleting
  <2> QED
    BY <1>1, <1>2, <1>4, <2>1, RestingStep
    DEF Onward, Accepted, Settled, Resting, Idle
<1> QED
  BY <1>1, <1>3, <1>4

\* Listeners with the same targets are described as they are.
LEMMA DescribedExactly ==
    ASSUME IsLoadBalancer(elb), \A l, m \in DOMAIN elb : elb[l].targets = elb[m].targets,
           NEW c \in Descriptions
    PROVE  DOMAIN c = DOMAIN elb /\ \A l \in DOMAIN elb : c[l] = elb[l]
<1>1. CASE Exists
  <2>1. PICK first \in DOMAIN elb : c = Described(first)
    BY <1>1 DEF Descriptions
  <2>2. DOMAIN c = DOMAIN elb
    BY <2>1 DEF Described
  <2>3. ASSUME NEW l \in DOMAIN elb
        PROVE  c[l] = elb[l]
    <3>1. c[l] = [elb[l] EXCEPT !.targets = elb[first].targets]
      BY <2>1 DEF Described
    <3>2. elb[l] \in Settings /\ elb[first].targets = elb[l].targets
      BY DEF IsLoadBalancer
    <3> QED
      BY <3>1, <3>2 DEF Settings
  <2> QED
    BY <2>2, <2>3
<1>2. CASE ~Exists
  BY <1>2, NoLoadBalancerType DEF Descriptions, Exists
<1> QED
  BY <1>1, <1>2

LEMMA DescribeSteady ==
    ASSUME Inv, CallerInv, SteadyInv, DescribeLoadBalancers
    PROVE  Onward
<1>1. /\ pc = "describe" /\ UNCHANGED <<elb, rules, outage, request>>
      /\ current' \in Descriptions /\ IsLoadBalancer(elb)
  BY DEF DescribeLoadBalancers, cloud, Inv, TypeOK
<1>2. Settled(elb) /\ rules = Needed(elb)
  BY <1>1, AtRest DEF Resting
<1>3. DOMAIN current' = DOMAIN elb /\ \A l \in DOMAIN elb : AsDescribed(l)'
  BY <1>1, <1>2, DescribedExactly DEF Settled, AsDescribed
<1>4. Wanted' = Wanted /\ (\A l \in DOMAIN elb : Given(l)' <=> Given(l))
  BY <1>1 DEF Wanted, Given
<1>5. Wanted = DOMAIN elb \/ \A l \in DOMAIN elb : Given(l)'
  BY <1>1, <1>4 DEF SteadyInv, TargetsInv, RestingTargets
<1>6. \/ pc' = "create" /\ todo' = Wanted \ DOMAIN elb /\ todo' # {}
      \/ /\ pc' = "delete" /\ todo' = DOMAIN elb \ Wanted /\ todo' # {}
         /\ Wanted \subseteq DOMAIN elb
      \/ pc' = "reconcile" /\ todo' = DOMAIN elb /\ DOMAIN elb = Wanted
  BY DEF DescribeLoadBalancers
<1>7. Sound(elb') /\ ~outage'
  BY <1>1 DEF SteadyInv, TargetsInv
<1>8. RestingTargets' /\ TargetsConverged' /\ DeletingTargets' /\ Accepted
  BY <1>6 DEF RestingTargets, TargetsConverged, DeletingTargets, Resting, Idle, Deleting,
     Accepted
<1>9. ProvisioningTargets'
  BY <1>1, <1>2, <1>3, <1>4, <1>5, <1>6 DEF ProvisioningTargets, Provisioning, Settled
<1>10. DeleteTargets'
  BY <1>1, <1>3, <1>4, <1>5, <1>6 DEF DeleteTargets
<1>11. ReconcileTargets'
  BY <1>1, <1>3, <1>6 DEF ReconcileTargets, Reconciling
<1>12. RulesInv'
  BY <1>1, <1>2, <1>6 DEF RulesInv, Opening, Closing
<1> QED
  BY <1>7, <1>8, <1>9, <1>10, <1>11, <1>12 DEF Onward, SteadyInv, TargetsInv

LEMMA RedescribeSteady ==
    ASSUME Inv, CallerInv, SteadyInv, Redescribe
    PROVE  Onward
<1>1. /\ pc = "redescribe" /\ DOMAIN elb = Wanted /\ Wanted # {}
      /\ \A l \in DOMAIN elb : Given(l)
      /\ IsLoadBalancer(elb)
  BY DEF Redescribe, CallerInv, DeleteInv, Inv, LocalInv, TypeOK, Ensuring, SteadyInv,
     TargetsInv, DeleteTargets
<1>2. /\ UNCHANGED <<elb, rules, outage, request>> /\ current' \in Descriptions
      /\ pc' = "reconcile" /\ todo' = DOMAIN elb
  BY <1>1 DEF Redescribe, Exists
<1>3. DOMAIN current' = DOMAIN elb /\ \A l \in DOMAIN elb : AsDescribed(l)'
  BY <1>1, <1>2, DescribedExactly DEF Given, AsDescribed
<1>4. rules = Needed(elb)
  BY <1>1 DEF SteadyInv, RulesInv, Opening, Closing
<1>5. Sound(elb') /\ ~outage'
  BY <1>2 DEF SteadyInv, TargetsInv
<1>6. /\ RestingTargets' /\ TargetsConverged' /\ ProvisioningTargets' /\ DeleteTargets'
      /\ DeletingTargets' /\ Accepted
  BY <1>2 DEF RestingTargets, TargetsConverged, ProvisioningTargets, DeleteTargets,
     DeletingTargets, Resting, Idle, Provisioning, Deleting, Accepted
<1>7. ReconcileTargets'
  BY <1>2, <1>3 DEF ReconcileTargets, Reconciling
<1>8. RulesInv'
  BY <1>2, <1>4 DEF RulesInv, Opening, Closing
<1> QED
  BY <1>5, <1>6, <1>7, <1>8 DEF Onward, SteadyInv, TargetsInv

LEMMA FindSteady ==
    ASSUME Inv, SteadyInv, FindListeners
    PROVE  Onward
<1>1. /\ pc = "find" /\ UNCHANGED <<elb, rules, outage, request>>
      /\ current' \in Descriptions /\ IsLoadBalancer(elb)
      /\ pc' \in {"remove", "confirm"} /\ todo' = DOMAIN elb
  BY DEF FindListeners, NextRemove, cloud, Inv, TypeOK
<1>2. Settled(elb) /\ rules = Needed(elb)
  BY <1>1, AtRest DEF Resting
<1>3. DOMAIN current' = DOMAIN elb /\ \A l \in DOMAIN elb : AsDescribed(l)'
  BY <1>1, <1>2, DescribedExactly DEF Settled, AsDescribed
<1>4. Sound(elb') /\ ~outage'
  BY <1>1 DEF SteadyInv, TargetsInv
<1>5. /\ RestingTargets' /\ TargetsConverged' /\ ProvisioningTargets' /\ DeleteTargets'
      /\ ReconcileTargets' /\ Accepted
  BY <1>1 DEF RestingTargets, TargetsConverged, ProvisioningTargets, DeleteTargets,
     ReconcileTargets, Resting, Idle, Provisioning, Reconciling, Accepted
<1>6. DeletingTargets'
  BY <1>1, <1>3 DEF DeletingTargets
<1>7. RulesInv'
  BY <1>1, <1>2 DEF RulesInv, Opening, Closing
<1> QED
  BY <1>4, <1>5, <1>6, <1>7 DEF Onward, SteadyInv, TargetsInv

\* There is room for a listener of the old or the new version of a Service as long
\* as it is not there.
LEMMA RoomLeft ==
    ASSUME Room, NEW q \in Requests, NEW r \in Requests,
           NEW D \in SUBSET (Listeners(q) \union Listeners(r)),
           NEW l \in (Listeners(q) \union Listeners(r)) \ D
    PROVE  Cardinality(D) < MaxPorts
<1> DEFINE all == Listeners(q) \union Listeners(r)
<1>1. IsFiniteSet(all)
  BY ServiceAssumption, FS_Union DEF ServiceAssumption, Listeners
<1>2. IsFiniteSet(D) /\ IsFiniteSet(D \union {l})
  BY <1>1, FS_Subset
<1>3. Cardinality(D \union {l}) = Cardinality(D) + 1
  BY <1>2, FS_AddElement
<1>4. Cardinality(D \union {l}) <= Cardinality(all)
  BY <1>1, FS_Subset
<1>5. Cardinality(all) <= MaxPorts
  BY DEF Room
<1>6. /\ Cardinality(D) \in Nat /\ Cardinality(D \union {l}) \in Nat
      /\ Cardinality(all) \in Nat /\ MaxPorts \in Nat
  BY <1>1, <1>2, FS_CardinalityType, ConstantsAssumption DEF ConstantsAssumption
<1> HIDE DEF all
<1> QED
  BY <1>3, <1>4, <1>5, <1>6

LEMMA ElsewhereThanProvisioning ==
    ASSUME pc' \in Provisioning
    PROVE  /\ RestingTargets' /\ DeleteTargets' /\ ReconcileTargets' /\ DeletingTargets'
           /\ TargetsConverged' /\ Accepted
  BY DEF RestingTargets, DeleteTargets, ReconcileTargets, DeletingTargets, TargetsConverged,
     Resting, Idle, Provisioning, Reconciling, Deleting, Accepted

LEMMA CreateSteady ==
    ASSUME Undisturbed, Inv, CallerInv, SteadyInv, CreateListener
    PROVE  Onward
<1>1. /\ pc = "create" /\ outage' = outage
      /\ IsLoadBalancer(elb) /\ todo \subseteq Wanted
  BY DEF CreateListener, Inv, LocalInv, TypeOK, Provisioning
<1>2. /\ DOMAIN current = {} \/ \E r \in Requests : DOMAIN current = Listeners(r)
      /\ DOMAIN elb = DOMAIN current \union (Wanted \ todo)
      /\ todo \intersect DOMAIN elb = {}
      /\ \A l \in DOMAIN current : AsDescribed(l)
      /\ \A l \in DOMAIN elb : Given(l)
  BY <1>1 DEF SteadyInv, TargetsInv, ProvisioningTargets, Provisioning
<1>3. request \in Requests /\ Wanted = Listeners(request) /\ Wanted \subseteq Known
  BY <1>1, Asked DEF Ensuring, Provisioning
<1>4. PICK l \in todo :
         IF IF Fresh /\ todo = Wanted THEN CanCreate(l) ELSE CanRegisterPort(l)
           THEN /\ AddListener(l)
                /\ pc' = "health"
                /\ todo' = todo \ {l}
                /\ at' = l
                /\ UNCHANGED <<rules, request, current, grants>>
           ELSE Fail
  BY DEF CreateListener
<1>5. l \in Known \ DOMAIN elb /\ l \in Wanted
  BY <1>1, <1>2, <1>3
<1>6. l.nodePort # Unallocated /\ \A m \in DOMAIN elb : m.port # l.port
  BY <1>5 DEF Undisturbed, FixedPorts, SteadyInv, TargetsInv, Sound
<1>7. Cardinality(DOMAIN elb) < MaxPorts
  <2>1. PICK r \in Requests : DOMAIN elb \subseteq Listeners(r) \union Listeners(request)
    BY <1>2, <1>3
  <2> QED
    BY <1>3, <1>5, <2>1, RoomLeft DEF Undisturbed
<1>8. IF Fresh /\ todo = Wanted THEN CanCreate(l) ELSE CanRegisterPort(l)
  <2>1. Fresh /\ todo = Wanted <=> ~Exists
    BY <1>1, <1>2, <1>4 DEF Fresh, Exists
  <2> QED
    BY <1>6, <1>7, <2>1 DEF CanCreate, CanRegisterPort
<1>9. /\ AddListener(l) /\ pc' = "health" /\ todo' = todo \ {l} /\ at' = l
      /\ UNCHANGED <<rules, request, current, grants>>
  BY <1>4, <1>8
<1>10. /\ DOMAIN elb' = DOMAIN elb \union {l}
       /\ elb'[l] = NewSettings
       /\ \A m \in DOMAIN elb : elb'[m] = elb[m]
  BY <1>5, <1>9, AddListenerEffect
<1>11. Sound(elb') /\ Needed(elb') = Needed(elb)
  BY <1>5, <1>9, AddListenerNeeds DEF SteadyInv, TargetsInv
<1>12. ProvisioningTargets'
  <2>1. elb'[l].targets = {}
    BY <1>10 DEF NewSettings
  <2>2. Wanted' = Wanted
    BY <1>9 DEF Wanted
  <2>3. DOMAIN elb' = DOMAIN current' \union (Wanted' \ todo')
    BY <1>2, <1>5, <1>9, <1>10, <2>2
  <2>4. \A m \in DOMAIN current' : AsDescribed(m)'
    BY <1>2, <1>9, <1>10 DEF AsDescribed
  <2>5. \A m \in DOMAIN elb' : IF m = at' THEN elb'[m].targets = {} ELSE Given(m)'
    BY <1>2, <1>9, <1>10, <2>1 DEF Given
  <2>6. at' \in Wanted' \ (todo' \union DOMAIN current')
    BY <1>2, <1>5, <1>9, <2>2
  <2>7. todo' \intersect DOMAIN elb' = {}
    BY <1>2, <1>9, <1>10
  <2> QED
    BY <1>2, <1>9, <2>3, <2>4, <2>5, <2>6, <2>7 DEF ProvisioningTargets
<1>13. RulesInv'
  BY <1>1, <1>9, <1>11 DEF SteadyInv, RulesInv, Opening, Closing
<1>14. ~outage'
  BY <1>1 DEF SteadyInv, TargetsInv
<1> QED
  BY <1>9, <1>11, <1>12, <1>13, <1>14, ElsewhereThanProvisioning
  DEF Onward, SteadyInv, TargetsInv, Provisioning

LEMMA ConfigureSteady ==
    ASSUME Undisturbed, Inv, CallerInv, SteadyInv, ConfigureHealthCheck
    PROVE  Onward
<1>1. /\ pc = "health" /\ outage' = outage /\ IsLoadBalancer(elb)
  BY DEF ConfigureHealthCheck, Inv, TypeOK
<1>2. /\ DOMAIN elb = DOMAIN current \union (Wanted \ todo)
      /\ todo \intersect DOMAIN elb = {}
      /\ \A l \in DOMAIN current : AsDescribed(l)
      /\ at \in Wanted \ (todo \union DOMAIN current)
      /\ \A l \in DOMAIN elb : IF l = at THEN elb[l].targets = {} ELSE Given(l)
      /\ DOMAIN current = {} \/ \E r \in Requests : DOMAIN current = Listeners(r)
  BY <1>1 DEF SteadyInv, TargetsInv, ProvisioningTargets, Provisioning
<1>3. request \in Requests /\ Wanted = Listeners(request)
  BY <1>1, Asked DEF Ensuring, Provisioning
<1>4. at \in DOMAIN elb /\ elb[at].targets = {}
  BY <1>2
<1>5. /\ SetHealth(at, request.health) /\ pc' = "register"
      /\ UNCHANGED <<rules, request, current, todo, at, grants>>
  BY <1>4 DEF ConfigureHealthCheck, locals
<1>6. /\ DOMAIN elb' = DOMAIN elb
      /\ elb'[at].targets = elb[at].targets /\ elb'[at].health = request.health
      /\ \A m \in DOMAIN elb \ {at} : elb'[m] = elb[m]
  BY <1>1, <1>4, <1>5, SetHealthEffect
<1>7. request.health = "ICMP" => CheckedByPing(at)
  BY <1>2, <1>3 DEF CheckedByPing
<1>8. Sound(elb') /\ Needed(elb') = Needed(elb)
  BY <1>1, <1>4, <1>5, <1>7, SetHealthNeeds DEF SteadyInv, TargetsInv
<1>9. ProvisioningTargets'
  <2>1. Wanted' = Wanted
    BY <1>5 DEF Wanted
  <2>2. \A m \in DOMAIN current' : AsDescribed(m)'
    BY <1>2, <1>5, <1>6 DEF AsDescribed
  <2>3. \A m \in DOMAIN elb' : IF m = at' THEN elb'[m].targets = {} ELSE Given(m)'
    BY <1>2, <1>5, <1>6 DEF Given
  <2> QED
    BY <1>2, <1>5, <1>6, <2>1, <2>2, <2>3 DEF ProvisioningTargets
<1>10. RulesInv'
  BY <1>1, <1>5, <1>8 DEF SteadyInv, RulesInv, Opening, Closing
<1>11. ~outage'
  BY <1>1 DEF SteadyInv, TargetsInv
<1> QED
  BY <1>5, <1>8, <1>9, <1>10, <1>11, ElsewhereThanProvisioning
  DEF Onward, SteadyInv, TargetsInv, Provisioning

LEMMA RegisterSteady ==
    ASSUME Undisturbed, Inv, CallerInv, SteadyInv, RegisterAll
    PROVE  Onward
<1>1. /\ pc = "register" /\ outage' = outage /\ IsLoadBalancer(elb)
  BY DEF RegisterAll, Inv, TypeOK
<1>2. /\ DOMAIN elb = DOMAIN current \union (Wanted \ todo)
      /\ todo \intersect DOMAIN elb = {}
      /\ \A l \in DOMAIN current : AsDescribed(l)
      /\ at \in Wanted \ (todo \union DOMAIN current)
      /\ \A l \in DOMAIN elb : IF l = at THEN elb[l].targets = {} ELSE Given(l)
      /\ DOMAIN current = {} \/ \E r \in Requests : DOMAIN current = Listeners(r)
      /\ elb[at].health = request.health
  BY <1>1 DEF SteadyInv, TargetsInv, ProvisioningTargets, Provisioning
<1>3. at \in DOMAIN elb /\ elb[at].targets = {}
  BY <1>2
<1>4. CanRegister(at, Targets(request))
  BY <1>3 DEF CanRegister
<1>5. /\ AddTargets(at, Targets(request)) /\ pc' \in {"locate", "allow"}
      /\ grants' = Grants(Targets(request), at, request.health)
      /\ UNCHANGED <<rules, request, current, todo, at>>
  BY <1>4 DEF RegisterAll
<1>6. /\ DOMAIN elb' = DOMAIN elb
      /\ elb'[at].targets = elb[at].targets \union Targets(request)
      /\ \A m \in DOMAIN elb \ {at} : elb'[m] = elb[m]
  BY <1>1, <1>3, <1>5, AddTargetsEffect
<1>7. Sound(elb') /\ Needed(elb') = Needed(elb) \union grants'
  BY <1>1, <1>2, <1>3, <1>5, AddTargetsNeeds DEF SteadyInv, TargetsInv
<1>8. ProvisioningTargets'
  <2>1. Wanted' = Wanted
    BY <1>5 DEF Wanted
  <2>2. \A m \in DOMAIN current' : AsDescribed(m)'
    BY <1>2, <1>5, <1>6 DEF AsDescribed
  <2>3. \A m \in DOMAIN elb' : Given(m)'
    BY <1>2, <1>3, <1>5, <1>6 DEF Given
  <2> QED
    BY <1>2, <1>5, <1>6, <2>1, <2>2, <2>3 DEF ProvisioningTargets
<1>9. RulesInv'
  BY <1>1, <1>5, <1>7 DEF SteadyInv, RulesInv, Opening, Closing
<1>10. ~outage'
  BY <1>1 DEF SteadyInv, TargetsInv
<1> QED
  BY <1>5, <1>7, <1>8, <1>9, <1>10, ElsewhereThanProvisioning
  DEF Onward, SteadyInv, TargetsInv, Provisioning

LEMMA LocateSteady ==
    ASSUME Inv, CallerInv, SteadyInv, Locate
    PROVE  Onward
<1>1. pc = "locate" /\ Exists
  BY DEF Locate, SteadyInv, TargetsInv, ProvisioningTargets, Provisioning, Exists
<1>2. pc' = "allow" /\ UNCHANGED <<elb, rules, outage, request, current, todo, at, grants>>
  BY <1>1 DEF Locate, locals
<1>3. ProvisioningTargets'
  BY <1>1, <1>2
  DEF SteadyInv, TargetsInv, ProvisioningTargets, Provisioning, Wanted, Given, AsDescribed
<1>4. RulesInv'
  BY <1>1, <1>2 DEF SteadyInv, RulesInv, Opening, Closing
<1>5. Sound(elb') /\ ~outage'
  BY <1>2 DEF SteadyInv, TargetsInv
<1> QED
  BY <1>2, <1>3, <1>4, <1>5, ElsewhereThanProvisioning
  DEF Onward, SteadyInv, TargetsInv, Provisioning

LEMMA DeleteSteady ==
    ASSUME Undisturbed, Inv, CallerInv, SteadyInv, DeleteListener
    PROVE  Onward
<1>1. /\ pc = "delete" /\ outage' = outage
      /\ todo \subseteq DOMAIN current \ Wanted
  BY DEF DeleteListener, Inv, LocalInv
<1>2. /\ DOMAIN elb = Wanted \union todo
      /\ \A l \in DOMAIN elb : Given(l)
      /\ \A l \in todo : AsDescribed(l)
  BY <1>1 DEF SteadyInv, TargetsInv, DeleteTargets
<1>3. PICK l \in todo :
         /\ RemoveListener(l) /\ pc' = "deny" /\ todo' = todo \ {l}
         /\ grants' = Grants(current[l].targets, l, current[l].health)
         /\ UNCHANGED <<rules, request, current>>
  BY <1>2 DEF DeleteListener
<1>4. DOMAIN elb' = DOMAIN elb \ {l} /\ \A m \in DOMAIN elb \ {l} : elb'[m] = elb[m]
  BY <1>3, RemoveListenerEffect
<1>5. grants' = Grants(elb[l].targets, l, elb[l].health)
  BY <1>2, <1>3 DEF AsDescribed
<1>6. Sound(elb') /\ Needed(elb') = Needed(elb) \ grants'
  BY <1>2, <1>3, <1>5, RemoveListenerNeeds DEF SteadyInv, TargetsInv
<1>7. DeleteTargets'
  <2>1. Wanted' = Wanted /\ l \notin Wanted
    BY <1>1, <1>3 DEF Wanted
  <2>2. DOMAIN elb' = Wanted' \union todo'
    BY <1>2, <1>3, <1>4, <2>1
  <2>3. \A m \in DOMAIN elb' : Given(m)'
    BY <1>2, <1>3, <1>4 DEF Given
  <2>4. \A m \in todo' : AsDescribed(m)'
    BY <1>2, <1>3, <1>4 DEF AsDescribed
  <2> QED
    BY <2>2, <2>3, <2>4 DEF DeleteTargets
<1>8. RulesInv'
  BY <1>1, <1>3, <1>6 DEF SteadyInv, RulesInv, Opening, Closing
<1>9. /\ RestingTargets' /\ ProvisioningTargets' /\ ReconcileTargets' /\ DeletingTargets'
      /\ TargetsConverged' /\ Accepted
  BY <1>3 DEF RestingTargets, ProvisioningTargets, ReconcileTargets, DeletingTargets,
     TargetsConverged, Resting, Idle, Provisioning, Reconciling, Deleting, Accepted
<1>10. ~outage'
  BY <1>1 DEF SteadyInv, TargetsInv
<1> QED
  BY <1>6, <1>7, <1>8, <1>9, <1>10 DEF Onward, SteadyInv, TargetsInv

LEMMA RemoveSteady ==
    ASSUME Undisturbed, Inv, CallerInv, SteadyInv, DeleteFound
    PROVE  Onward
<1>1. pc = "remove" /\ outage' = outage
  BY DEF DeleteFound
<1>2. DOMAIN elb = todo /\ \A l \in todo : AsDescribed(l)
  BY <1>1 DEF SteadyInv, TargetsInv, DeletingTargets, Deleting
<1>3. PICK l \in todo :
         /\ RemoveListener(l) /\ pc' = "expel" /\ todo' = todo \ {l}
         /\ grants' = Grants(current[l].targets, l, current[l].health)
         /\ UNCHANGED <<rules, request, current>>
  BY <1>2 DEF DeleteFound
<1>4. DOMAIN elb' = DOMAIN elb \ {l} /\ \A m \in DOMAIN elb \ {l} : elb'[m] = elb[m]
  BY <1>3, RemoveListenerEffect
<1>5. grants' = Grants(elb[l].targets, l, elb[l].health)
  BY <1>2, <1>3 DEF AsDescribed
<1>6. Sound(elb') /\ Needed(elb') = Needed(elb) \ grants'
  BY <1>2, <1>3, <1>5, RemoveListenerNeeds DEF SteadyInv, TargetsInv
<1>7. DeletingTargets'
  <2>1. \A m \in todo' : AsDescribed(m)'
    BY <1>2, <1>3, <1>4 DEF AsDescribed
  <2> QED
    BY <1>2, <1>3, <1>4, <2>1 DEF DeletingTargets
<1>8. RulesInv'
  BY <1>1, <1>3, <1>6 DEF SteadyInv, RulesInv, Opening, Closing
<1>9. /\ RestingTargets' /\ ProvisioningTargets' /\ ReconcileTargets' /\ DeleteTargets'
      /\ TargetsConverged' /\ Accepted
  BY <1>3 DEF RestingTargets, ProvisioningTargets, ReconcileTargets, DeleteTargets,
     TargetsConverged, Resting, Idle, Provisioning, Reconciling, Accepted
<1>10. ~outage'
  BY <1>1 DEF SteadyInv, TargetsInv
<1> QED
  BY <1>6, <1>7, <1>8, <1>9, <1>10 DEF Onward, SteadyInv, TargetsInv

LEMMA ElsewhereThanReconciling ==
    ASSUME pc' \in Reconciling \union {"return"}
    PROVE  /\ RestingTargets' /\ ProvisioningTargets' /\ DeleteTargets' /\ DeletingTargets'
           /\ Accepted
  BY DEF RestingTargets, ProvisioningTargets, DeleteTargets, DeletingTargets, Resting, Idle,
     Provisioning, Reconciling, Deleting, Accepted

\* Where the reconcile loop leads with a listener that has its targets.
LEMMA NextReconcileSteady ==
    ASSUME todo \subseteq DOMAIN elb, \A l \in todo : AsDescribed(l),
           \A l \in DOMAIN elb \ todo : Given(l),
           pc' = NextReconcile(todo), UNCHANGED <<elb, request, current, todo>>
    PROVE  ReconcileTargets' /\ TargetsConverged' /\ pc' \in {"reconcile", "return"}
<1>1. pc' = IF todo # {} THEN "reconcile" ELSE "return"
  BY DEF NextReconcile
<1>2. \A l : (Given(l)' <=> Given(l)) /\ (AsDescribed(l)' <=> AsDescribed(l))
  BY DEF Given, AsDescribed
<1>3. ReconcileTargets'
  BY <1>1, <1>2 DEF ReconcileTargets, Reconciling
<1>4. TargetsConverged'
  BY <1>1 DEF TargetsConverged, Given
<1> QED
  BY <1>1, <1>3, <1>4

LEMMA ReconcileSteady ==
    ASSUME Inv, CallerInv, SteadyInv, ReconcileListener
    PROVE  Onward
<1>1. pc = "reconcile" /\ outage' = outage /\ DOMAIN elb = Wanted
  BY DEF ReconcileListener, CallerInv, ReconcileInv, Reconciling
<1>2. /\ todo \subseteq DOMAIN elb
      /\ \A l \in todo : AsDescribed(l)
      /\ \A l \in DOMAIN elb \ todo : Given(l)
  BY <1>1 DEF SteadyInv, TargetsInv, ReconcileTargets, Reconciling
<1>3. PICK l \in todo :
         /\ pc' = FromEnroll(current[l], todo \ {l}) /\ todo' = todo \ {l} /\ at' = l
         /\ UNCHANGED <<elb, rules, request, current, grants>>
  BY <1>1, <1>2 DEF ReconcileListener
<1>4. /\ \A m : (Given(m)' <=> Given(m)) /\ (AsDescribed(m)' <=> AsDescribed(m))
      /\ current[l] = elb[l]
  BY <1>2, <1>3 DEF Given, AsDescribed
<1>5. \/ pc' = "enroll"
      \/ pc' = "withdraw" /\ ToRegister(request, elb[l]) = {}
      \/ /\ pc' = IF todo' # {} THEN "reconcile" ELSE "return"
         /\ ToRegister(request, elb[l]) = {} /\ ToDeregister(request, elb[l]) = {}
  BY <1>3, <1>4 DEF FromEnroll, FromWithdraw, NextReconcile
<1>6. pc' = "withdraw" => elb[l].targets = elb[l].targets \union Targets(request)
  BY <1>5 DEF ToRegister
<1>7. pc' \in {"reconcile", "return"} => Given(l)
  BY <1>5 DEF ToRegister, ToDeregister, Given
<1>8. pc' \in {"enroll", "withdraw", "reconcile", "return"}
  BY <1>5
<1>9. ReconcileTargets'
  <2>1. todo' \subseteq DOMAIN elb' /\ at' \in DOMAIN elb' \ todo'
    BY <1>2, <1>3
  <2>2. \A m \in todo' : AsDescribed(m)'
    BY <1>2, <1>3, <1>4
  <2>3. \A m \in DOMAIN elb' \ todo' : pc' = "reconcile" \/ m # at' => Given(m)'
    BY <1>2, <1>3, <1>4, <1>7
  <2>4. pc' = "enroll" => AsDescribed(at)'
    BY <1>2, <1>3 DEF AsDescribed
  <2>5. pc' = "withdraw" =>
          /\ elb'[at'].targets = current'[at'].targets \union Targets(request')
          /\ elb'[at'].health = current'[at'].health
    BY <1>3, <1>4, <1>6
  <2> QED
    BY <1>8, <2>1, <2>2, <2>3, <2>4, <2>5 DEF ReconcileTargets
<1>10. TargetsConverged'
  <2> SUFFICES ASSUME pc' = "return", NEW m \in DOMAIN elb'
               PROVE  elb'[m].targets = Targets(request')
    BY DEF TargetsConverged
  <2>1. todo' = {}
    BY <1>5
  <2>2. Given(m)
    BY <1>2, <1>3, <1>7, <2>1
  <2> QED
    BY <1>3, <2>2 DEF Given
<1>11. RulesInv'
  BY <1>1, <1>3, <1>8 DEF SteadyInv, RulesInv, Opening, Closing
<1>12. Sound(elb') /\ ~outage'
  BY <1>1, <1>3 DEF SteadyInv, TargetsInv
<1> QED
  BY <1>8, <1>9, <1>10, <1>11, <1>12, ElsewhereThanReconciling
  DEF Onward, SteadyInv, TargetsInv, Reconciling

LEMMA EnrollSteady ==
    ASSUME Undisturbed, Inv, CallerInv, SteadyInv, RegisterInstances
    PROVE  Onward
<1> DEFINE new == ToRegister(request, current[at])
<1>1. pc = "enroll" /\ outage' = outage /\ IsLoadBalancer(elb)
  BY DEF RegisterInstances, Inv, TypeOK
<1>2. /\ todo \subseteq DOMAIN elb
      /\ \A l \in todo : AsDescribed(l)
      /\ \A l \in DOMAIN elb \ todo : l # at => Given(l)
      /\ at \in DOMAIN elb \ todo
      /\ current[at] = elb[at]
  BY <1>1 DEF SteadyInv, TargetsInv, ReconcileTargets, Reconciling, AsDescribed
<1>3. CanRegister(at, new)
  BY <1>2 DEF CanRegister, ToRegister
<1>4. /\ AddTargets(at, new) /\ pc' = "admit"
      /\ grants' = Grants(new, at, elb[at].health)
      /\ UNCHANGED <<rules, request, current, todo, at>>
  BY <1>2, <1>3 DEF RegisterInstances
<1>5. /\ DOMAIN elb' = DOMAIN elb
      /\ elb'[at].targets = elb[at].targets \union new /\ elb'[at].health = elb[at].health
      /\ \A m \in DOMAIN elb \ {at} : elb'[m] = elb[m]
  BY <1>1, <1>2, <1>4, AddTargetsEffect
<1>6. Sound(elb') /\ Needed(elb') = Needed(elb) \union grants'
  BY <1>1, <1>2, <1>4, AddTargetsNeeds DEF SteadyInv, TargetsInv
<1>7. ReconcileTargets'
  <2>1. elb'[at].targets = current[at].targets \union Targets(request)
    BY <1>2, <1>5 DEF ToRegister
  <2>2. \A m \in todo' : AsDescribed(m)'
    BY <1>2, <1>4, <1>5 DEF AsDescribed
  <2>3. \A m \in DOMAIN elb' \ todo' : m # at' => Given(m)'
    BY <1>2, <1>4, <1>5 DEF Given
  <2> QED
    BY <1>2, <1>4, <1>5, <2>1, <2>2, <2>3 DEF ReconcileTargets
<1>8. RulesInv'
  BY <1>1, <1>4, <1>6 DEF SteadyInv, RulesInv, Opening, Closing
<1>9. TargetsConverged'
  BY <1>4 DEF TargetsConverged
<1>10. ~outage'
  BY <1>1 DEF SteadyInv, TargetsInv
<1> QED
  BY <1>4, <1>6, <1>7, <1>8, <1>9, <1>10, ElsewhereThanReconciling
  DEF Onward, SteadyInv, TargetsInv, Reconciling

LEMMA WithdrawSteady ==
    ASSUME Undisturbed, Inv, CallerInv, SteadyInv, DeregisterInstances
    PROVE  Onward
<1> DEFINE old == ToDeregister(request, current[at])
<1>1. pc = "withdraw" /\ outage' = outage /\ IsLoadBalancer(elb)
  BY DEF DeregisterInstances, Inv, TypeOK
<1>2. /\ todo \subseteq DOMAIN elb
      /\ \A l \in todo : AsDescribed(l)
      /\ \A l \in DOMAIN elb \ todo : l # at => Given(l)
      /\ at \in DOMAIN elb \ todo
      /\ elb[at].targets = current[at].targets \union Targets(request)
      /\ elb[at].health = current[at].health
  BY <1>1 DEF SteadyInv, TargetsInv, ReconcileTargets, Reconciling
<1>3. CanDeregister(at, old) /\ old \subseteq elb[at].targets
  BY <1>2 DEF CanDeregister, ToDeregister
<1>4. /\ RemoveTargets(at, old) /\ pc' = "evict"
      /\ grants' = Grants(old, at, elb[at].health)
      /\ UNCHANGED <<rules, request, current, todo, at>>
  BY <1>2, <1>3 DEF DeregisterInstances
<1>5. /\ DOMAIN elb' = DOMAIN elb
      /\ elb'[at].targets = elb[at].targets \ old
      /\ \A m \in DOMAIN elb \ {at} : elb'[m] = elb[m]
  BY <1>1, <1>2, <1>4, RemoveTargetsEffect
<1>6. Sound(elb') /\ Needed(elb') = Needed(elb) \ grants'
  BY <1>1, <1>2, <1>3, <1>4, RemoveTargetsNeeds DEF SteadyInv, TargetsInv
<1>7. ReconcileTargets'
  <2>1. elb'[at].targets = Targets(request)
    BY <1>2, <1>5 DEF ToDeregister
  <2>2. \A m \in todo' : AsDescribed(m)'
    BY <1>2, <1>4, <1>5 DEF AsDescribed
  <2>3. \A m \in DOMAIN elb' \ todo' : Given(m)'
    BY <1>2, <1>4, <1>5, <2>1 DEF Given
  <2> QED
    BY <1>2, <1>4, <1>5, <2>2, <2>3 DEF ReconcileTargets
<1>8. RulesInv'
  BY <1>1, <1>4, <1>6 DEF SteadyInv, RulesInv, Opening, Closing
<1>9. TargetsConverged'
  BY <1>4 DEF TargetsConverged
<1>10. ~outage'
  BY <1>1 DEF SteadyInv, TargetsInv
<1> QED
  BY <1>4, <1>6, <1>7, <1>8, <1>9, <1>10, ElsewhereThanReconciling
  DEF Onward, SteadyInv, TargetsInv, Reconciling

\* Opening or closing a rule brings the rules closer to those needed.
LEMMA IngressSteady ==
    ASSUME SteadyInv, AuthorizeIngress \/ RevokeIngress
    PROVE  Onward
<1>1. /\ UNCHANGED <<elb, outage, pc, request, current, todo, at>>
      /\ pc \in Opening \union Closing
  BY DEF AuthorizeIngress, RevokeIngress
<1>2. TargetsInv'
  BY <1>1 DEF SteadyInv, TargetsInv, RestingTargets, ProvisioningTargets, DeleteTargets,
     ReconcileTargets, DeletingTargets, TargetsConverged, Given, AsDescribed, Wanted
<1>3. ASSUME AuthorizeIngress PROVE RulesInv'
  <2>1. rules' \union grants' = rules \union grants /\ pc \in Opening
    BY <1>3 DEF AuthorizeIngress
  <2> QED
    BY <1>1, <2>1 DEF SteadyInv, RulesInv
<1>4. ASSUME RevokeIngress PROVE RulesInv'
  <2>1. rules' \ grants' = rules \ grants /\ pc \in Closing
    BY <1>4 DEF RevokeIngress
  <2>2. pc \notin Opening \union {"locate"}
    BY <2>1 DEF Opening, Closing
  <2> QED
    BY <1>1, <2>1, <2>2 DEF SteadyInv, RulesInv
<1>5. Accepted
  BY <1>1 DEF Accepted, Opening, Closing
<1> QED
  BY <1>2, <1>3, <1>4, <1>5 DEF Onward, SteadyInv

LEMMA RulesDoneSteady ==
    ASSUME Inv, CallerInv, SteadyInv, RulesDone
    PROVE  Onward
<1>1. /\ UNCHANGED <<elb, rules, outage, request, current, at, grants>>
      /\ pc \in Opening \union Closing /\ grants = {}
      /\ pc = "allow" => pc' = NextCreate(todo)
      /\ pc = "deny"  => pc' = NextDelete(todo)
      /\ pc = "admit" => pc' = FromWithdraw(current[at], todo)
      /\ pc = "evict" => pc' = NextReconcile(todo)
      /\ pc = "expel" => pc' = NextRemove(todo)
      /\ pc \in {"allow", "deny", "admit", "evict", "expel"}
      /\ todo' = IF pc' = "delete" /\ pc = "allow" THEN Unwanted ELSE todo
  BY DEF RulesDone, cloud, Opening, Closing
<1>2. /\ Wanted' = Wanted
      /\ \A l : (Given(l)' <=> Given(l)) /\ (AsDescribed(l)' <=> AsDescribed(l))
  BY <1>1 DEF Wanted, Given, AsDescribed
<1>3. Sound(elb') /\ ~outage'
  BY <1>1 DEF SteadyInv, TargetsInv
<1>4. rules = Needed(elb)
  BY <1>1 DEF SteadyInv, RulesInv
<1>5. ASSUME pc' \notin Opening \union Closing \union {"locate"}
      PROVE  RulesInv'
  BY <1>1, <1>4, <1>5 DEF RulesInv
<1>6. CASE pc = "allow"
  <2>1. /\ DOMAIN elb = DOMAIN current \union (Wanted \ todo)
        /\ \A l \in DOMAIN current : AsDescribed(l)
        /\ \A l \in DOMAIN elb : Given(l)
    BY <1>6 DEF SteadyInv, TargetsInv, ProvisioningTargets, Provisioning
  <2>2. \/ pc' = "create" /\ todo' = todo
        \/ pc' = "return"
        \/ pc' = "delete" /\ todo = {} /\ todo' = DOMAIN current \ Wanted
        \/ pc' = "redescribe" /\ todo = {} /\ todo' = {} /\ DOMAIN current \subseteq Wanted
    BY <1>1, <1>6 DEF NextCreate, Unwanted
  <2>3. ProvisioningTargets'
    BY <1>1, <1>2, <1>6, <2>2 DEF SteadyInv, TargetsInv, ProvisioningTargets, Provisioning
  <2>4. DeleteTargets'
    BY <1>1, <1>2, <2>1, <2>2 DEF DeleteTargets
  <2>5. TargetsConverged'
    BY <1>1, <2>1 DEF TargetsConverged, Given
  <2>6. RestingTargets' /\ ReconcileTargets' /\ DeletingTargets' /\ Accepted
    BY <2>2 DEF RestingTargets, ReconcileTargets, DeletingTargets, Resting, Idle,
       Reconciling, Deleting, Accepted
  <2>7. RulesInv'
    BY <1>5, <2>2 DEF Opening, Closing
  <2> QED
    BY <1>3, <2>3, <2>4, <2>5, <2>6, <2>7 DEF Onward, SteadyInv, TargetsInv
<1>7. CASE pc = "deny"
  <2>1. pc' \in {"delete", "redescribe"} /\ todo' = todo
    BY <1>1, <1>7 DEF NextDelete
  <2>2. DeleteTargets'
    BY <1>1, <1>2, <1>7, <2>1 DEF SteadyInv, TargetsInv, DeleteTargets
  <2>3. /\ RestingTargets' /\ ProvisioningTargets' /\ ReconcileTargets' /\ DeletingTargets'
        /\ TargetsConverged' /\ Accepted
    BY <2>1 DEF RestingTargets, ProvisioningTargets, ReconcileTargets, DeletingTargets,
       TargetsConverged, Resting, Idle, Provisioning, Reconciling, Deleting, Accepted
  <2>4. RulesInv'
    BY <1>5, <2>1 DEF Opening, Closing
  <2> QED
    BY <1>3, <2>2, <2>3, <2>4 DEF Onward, SteadyInv, TargetsInv
<1>8. CASE pc = "admit" /\ ToDeregister(request, current[at]) # {}
  <2>1. pc' = "withdraw" /\ todo' = todo
    BY <1>1, <1>8 DEF FromWithdraw
  <2>2. ReconcileTargets'
    BY <1>1, <1>2, <1>8, <2>1 DEF SteadyInv, TargetsInv, ReconcileTargets, Reconciling
  <2>3. TargetsConverged' /\ RulesInv'
    BY <1>5, <2>1 DEF TargetsConverged, Opening, Closing
  <2> QED
    BY <1>3, <2>1, <2>2, <2>3, ElsewhereThanReconciling
    DEF Onward, SteadyInv, TargetsInv, Reconciling
<1>9. CASE pc = "evict" \/ (pc = "admit" /\ ToDeregister(request, current[at]) = {})
  <2>1. pc' = NextReconcile(todo) /\ pc' \in {"reconcile", "return"}
    BY <1>1, <1>9 DEF FromWithdraw, NextReconcile
  <2>2. /\ todo \subseteq DOMAIN elb
        /\ \A l \in todo : AsDescribed(l)
        /\ \A l \in DOMAIN elb \ todo : l # at => Given(l)
        /\ pc = "evict" => Given(at)
        /\ pc = "admit" => elb[at].targets = current[at].targets \union Targets(request)
    BY <1>9 DEF SteadyInv, TargetsInv, ReconcileTargets, Reconciling
  <2>3. Given(at)
    BY <1>9, <2>2 DEF Given, ToDeregister
  <2>4. \A l \in DOMAIN elb \ todo : Given(l)
    BY <2>2, <2>3
  <2>5. todo' = todo
    BY <1>1, <2>1
  <2>6. ReconcileTargets' /\ TargetsConverged'
    BY <1>1, <2>1, <2>2, <2>4, <2>5, NextReconcileSteady
  <2>7. RulesInv'
    BY <1>5, <2>1 DEF Opening, Closing
  <2> QED
    BY <1>3, <2>1, <2>6, <2>7, ElsewhereThanReconciling
    DEF Onward, SteadyInv, TargetsInv, Reconciling
<1>10. CASE pc = "expel"
  <2>1. pc' \in {"remove", "confirm"} /\ todo' = todo
    BY <1>1, <1>10 DEF NextRemove
  <2>2. DeletingTargets'
    BY <1>1, <1>2, <1>10, <2>1 DEF SteadyInv, TargetsInv, DeletingTargets, Deleting
  <2>3. /\ RestingTargets' /\ ProvisioningTargets' /\ ReconcileTargets' /\ DeleteTargets'
        /\ TargetsConverged' /\ Accepted
    BY <2>1 DEF RestingTargets, ProvisioningTargets, ReconcileTargets, DeleteTargets,
       TargetsConverged, Resting, Idle, Provisioning, Reconciling, Accepted
  <2>4. RulesInv'
    BY <1>5, <2>1 DEF Opening, Closing
  <2> QED
    BY <1>3, <2>2, <2>3, <2>4 DEF Onward, SteadyInv, TargetsInv
<1> QED
  BY <1>1, <1>6, <1>7, <1>8, <1>9, <1>10

LEMMA SteadyStep ==
    ASSUME Undisturbed, Inv, CallerInv, SteadyInv, [Next /\ Steady]_vars
    PROVE  SteadyInv' /\ [Accepted]_vars
<1>1. CASE Call /\ Steady
  BY <1>1, CallSteady DEF Onward
<1>2. CASE Step
  BY <1>2, LookupSteady, DescribeSteady, CreateSteady, ConfigureSteady, RegisterSteady,
     LocateSteady, DeleteSteady, RedescribeSteady, ReconcileSteady, EnrollSteady,
     WithdrawSteady, EndSteady, IngressSteady, RulesDoneSteady, FindSteady, RemoveSteady
  DEF Step, Onward
<1>3. ~Fault /\ ~OutageEnds
  BY DEF Fault, OutageEnds, SteadyInv, TargetsInv
<1>4. CASE UNCHANGED vars
  <2>1. TargetsInv'
    BY <1>4 DEF vars, SteadyInv, TargetsInv, RestingTargets, ProvisioningTargets,
       DeleteTargets, ReconcileTargets, DeletingTargets, TargetsConverged, Given,
       AsDescribed, Wanted
  <2>2. RulesInv'
    BY <1>4 DEF vars, SteadyInv, RulesInv
  <2> QED
    BY <1>4, <2>1, <2>2 DEF SteadyInv
<1> QED
  BY <1>1, <1>2, <1>3, <1>4 DEF Next

LEMMA SteadyInit ==
    ASSUME Undisturbed, Init, ~outage
    PROVE  SteadyInv
<1>1. /\ pc = "idle" /\ elb \in Leftovers /\ rules = Needed(elb)
  BY DEF Init
<1>2. Settled(elb) /\ Sound(elb)
  BY <1>1 DEF Undisturbed
<1>3. RestingTargets /\ RulesInv
  BY <1>1, <1>2 DEF RestingTargets, RulesInv, Opening, Closing
<1>4. /\ ProvisioningTargets /\ DeleteTargets /\ ReconcileTargets /\ DeletingTargets
      /\ TargetsConverged
  BY <1>1 DEF ProvisioningTargets, DeleteTargets, ReconcileTargets, DeletingTargets,
     TargetsConverged, Provisioning, Reconciling, Deleting
<1> QED
  BY <1>2, <1>3, <1>4 DEF SteadyInv, TargetsInv

LEMMA SteadyInvariance ==
    ASSUME Undisturbed
    PROVE  SteadySpec => [](Inv /\ CallerInv /\ SteadyInv)
<1>1. ASSUME Inv, CallerInv, SteadyInv, [Next /\ Steady]_vars
      PROVE  (Inv /\ CallerInv /\ SteadyInv)'
  BY <1>1, NextInv, SteadyStep
<1>2. Init /\ ~outage => Inv /\ CallerInv /\ SteadyInv
  BY InitInv, SteadyInit
<1> QED
  BY <1>1, <1>2, PTL DEF SteadySpec

-----------------------------------------------------------------------------
(* The theorems about a Service that is not disturbed.                     *)

\* Every target of an Ensure or Update that succeeds can be reached: the rules a
\* call opens are those its listeners lack.
THEOREM TargetsReachable ==
    ASSUME Undisturbed
    PROVE  SteadySpec => []Reachable
<1>1. SteadyInv => Reachable
  BY DEF SteadyInv, RulesInv, Reachable, Opening, Closing
<1> QED
  BY <1>1, SteadyInvariance, PTL

\* No rule outlives its need: those a call closes are those nothing needs any more.
THEOREM RulesAllNeeded ==
    ASSUME Undisturbed
    PROVE  SteadySpec => []NoStrayRules
<1>1. SteadyInv => NoStrayRules
  BY DEF SteadyInv, RulesInv, NoStrayRules, Opening, Closing
<1> QED
  BY <1>1, SteadyInvariance, PTL

\* Each listener is left with exactly the targets asked for, although every
\* description gives all of them the targets of one.
THEOREM TargetsConverge ==
    ASSUME Undisturbed
    PROVE  SteadySpec => []TargetsConverged
<1>1. SteadyInv => TargetsConverged
  BY DEF SteadyInv, TargetsInv
<1> QED
  BY <1>1, SteadyInvariance, PTL

\* A rule is only closed when no listener needs it, so no step cuts a listener off
\* from a target it keeps.
THEOREM NeededRulesStay ==
    ASSUME Undisturbed
    PROVE  SteadySpec => RulesStay
<1>1. ASSUME SteadyInv, [Next /\ Steady]_vars PROVE KeepsRules
  <2>1. CASE RevokeIngress
    <3>1. PICK g \in grants : rules' = rules \ {g} /\ pc \in Closing
      BY <2>1 DEF RevokeIngress
    <3>2. g \notin Needed(elb)
      BY <1>1, <3>1 DEF SteadyInv, RulesInv, Opening, Closing
    <3> QED
      BY <3>1, <3>2 DEF KeepsRules
  <2>2. CASE ~RevokeIngress
    <3>1. rules \subseteq rules'
      BY <1>1, <2>2 DEF Next, Call, Step, Fault, OutageEnds, EnsureLoadBalancer,
         UpdateLoadBalancer, EnsureLoadBalancerDeleted, Accept, Fail, DescribeInstances,
         DescribeLoadBalancers, CreateListener, ConfigureHealthCheck, RegisterAll, Locate,
         DeleteListener, Redescribe, ReconcileListener, RegisterInstances,
         DeregisterInstances, Return, AuthorizeIngress, RulesDone, CheckExists,
         FindListeners, DeleteFound, Confirm, cloud, vars
    <3> QED
      BY <3>1 DEF KeepsRules
  <2> QED
    BY <2>1, <2>2
<1> QED
  BY <1>1, SteadyInvariance, PTL DEF SteadySpec, RulesStay

\* Once the instances are found nothing NIFCLOUD is asked for is refused: no
\* listener is created twice or beyond the limit, no target registered that is
\* there or deregistered that is not.
THEOREM NothingRefused ==
    ASSUME Undisturbed
    PROVE  SteadySpec => NeverRefused
<1>1. ASSUME Inv, CallerInv, SteadyInv, [Next /\ Steady]_vars PROVE [Accepted]_vars
  BY <1>1, SteadyStep
<1> QED
  BY <1>1, SteadyInvariance, PTL DEF SteadySpec, NeverRefused

-----------------------------------------------------------------------------
(* What a call may be refused for, whatever ports and Nodes change         *)
(* together: the listeners left in a loop are as the caller expects them,  *)
(* so only what cannot be there beside the others is refused.              *)

Loops == {"delete", "deny", "remove", "expel"}
ExpectedInv ==
    /\ pc \in Provisioning =>
         /\ DOMAIN current \subseteq DOMAIN elb
         /\ todo \intersect DOMAIN elb = {}
         /\ pc = "create" => (Fresh /\ todo = Wanted <=> ~Exists)
         /\ pc # "create" => at \in DOMAIN elb \intersect (Wanted \ todo)
    /\ pc \in {"health", "register"} => elb[at].targets = {}
    /\ pc \in Loops => todo \subseteq DOMAIN elb
    /\ pc \in Reconciling => DOMAIN current = Wanted
FiniteInv == IsFiniteSet(DOMAIN elb)

Expected == ExpectedInv' /\ Explained

\* A request that is not refused, and a refusal that has a cause.
LEMMA Unexpecting ==
    ASSUME pc' \in Idle \union {"check", "lookup", "describe", "find", "redescribe",
                                "return", "confirm"},
           pc' # "failed" \/ outage \/ pc \notin (Ensuring \union Deleting) \ {"lookup"}
             \/ Conflict \/ Mistaken
    PROVE  Expected
  BY DEF Expected, ExpectedInv, Explained, Idle, Provisioning, Reconciling, Loops

LEMMA WantedFinite ==
    ASSUME Inv
    PROVE  IsFiniteSet(Wanted)
<1>1. CASE request \in Requests
  BY <1>1, ServiceAssumption DEF ServiceAssumption, Wanted, Listeners
<1>2. CASE request = NoRequest
  BY <1>2, FS_EmptySet DEF Wanted, Listeners, NoRequest
<1> QED
  BY <1>1, <1>2 DEF Inv, TypeOK

LEMMA FiniteStep ==
    ASSUME Inv, FiniteInv, [Next]_vars
    PROVE  FiniteInv'
<1>1. DOMAIN elb' \subseteq DOMAIN elb \union Wanted
  <2>1. CASE Step \/ Fault
    BY <2>1, StepEffect DEF Working, Helpful, Ending, Succeeding
  <2>2. CASE Call
    BY <2>2, CallEffect DEF Beginning, Ending
  <2>3. CASE OutageEnds \/ UNCHANGED vars
    BY <2>3 DEF OutageEnds, vars
  <2> QED
    BY <2>1, <2>2, <2>3 DEF Next
<1> QED
  BY <1>1, WantedFinite, FS_Union, FS_Subset DEF FiniteInv

\* A listener that is asked for and not there can be made unless that would be a
\* conflict.
LEMMA CanBeMade ==
    ASSUME Inv, FiniteInv, ~Conflict, NEW l \in Wanted \ DOMAIN elb
    PROVE  /\ ~Exists => CanCreate(l)
           /\ Exists => CanRegisterPort(l)
<1>1. /\ IsFiniteSet(DOMAIN elb \union Wanted)
      /\ IsFiniteSet(DOMAIN elb) /\ IsFiniteSet(DOMAIN elb \union {l})
  BY WantedFinite, FS_Union, FS_AddElement DEF FiniteInv
<1>2. Cardinality(DOMAIN elb \union {l}) = Cardinality(DOMAIN elb) + 1
  BY <1>1, FS_AddElement
<1>3. Cardinality(DOMAIN elb \union {l}) <= Cardinality(DOMAIN elb \union Wanted)
  BY <1>1, FS_Subset
<1>4. /\ Cardinality(DOMAIN elb) \in Nat /\ Cardinality(DOMAIN elb \union {l}) \in Nat
      /\ Cardinality(DOMAIN elb \union Wanted) \in Nat /\ MaxPorts \in Nat
  BY <1>1, FS_CardinalityType, ConstantsAssumption DEF ConstantsAssumption
<1>5. ~(Cardinality(DOMAIN elb \union Wanted) > MaxPorts)
  BY DEF Conflict
<1>6. Cardinality(DOMAIN elb) < MaxPorts
  BY <1>2, <1>3, <1>4, <1>5
<1> QED
  BY <1>6 DEF Conflict, CanCreate, CanRegisterPort

LEMMA CreateExpected ==
    ASSUME Inv, FiniteInv, ExpectedInv, CreateListener
    PROVE  Expected
<1>1. /\ pc = "create" /\ todo \subseteq Wanted
      /\ DOMAIN current \subseteq DOMAIN elb /\ todo \intersect DOMAIN elb = {}
      /\ Fresh /\ todo = Wanted <=> ~Exists
  BY DEF CreateListener, Inv, LocalInv, ExpectedInv, Provisioning
<1>2. PICK l \in todo :
         IF IF Fresh /\ todo = Wanted THEN CanCreate(l) ELSE CanRegisterPort(l)
           THEN /\ AddListener(l)
                /\ pc' = "health"
                /\ todo' = todo \ {l}
                /\ at' = l
                /\ UNCHANGED <<rules, request, current, grants>>
           ELSE Fail
  BY DEF CreateListener
<1>3. l \in Wanted \ DOMAIN elb
  BY <1>1
<1>4. CASE Fail
  <2>1. CASE Conflict
    BY <1>4, <2>1, Unexpecting DEF Fail, Leave, Idle
  <2>2. CASE ~Conflict
    <3>1. IF Fresh /\ todo = Wanted THEN CanCreate(l) ELSE CanRegisterPort(l)
      BY <1>1, <1>3, <2>2, CanBeMade
    <3> QED
      BY <1>2, <1>4, <3>1 DEF Fail, Leave
  <2> QED
    BY <2>1, <2>2
<1>5. CASE /\ AddListener(l) /\ pc' = "health" /\ todo' = todo \ {l} /\ at' = l
           /\ UNCHANGED <<rules, request, current, grants>>
  <2>1. DOMAIN elb' = DOMAIN elb \union {l} /\ elb'[l] = NewSettings
    BY <1>3, <1>5, AddListenerEffect
  <2>2. elb'[l].targets = {}
    BY <2>1 DEF NewSettings
  <2>3. Wanted' = Wanted
    BY <1>5 DEF Wanted
  <2> QED
    BY <1>1, <1>3, <1>5, <2>1, <2>2, <2>3
    DEF Expected, Explained, ExpectedInv, Provisioning, Reconciling, Loops
<1> QED
  BY <1>2, <1>4, <1>5

\* The other requests for a new listener, which is there and has no targets.
LEMMA ProvisionExpected ==
    ASSUME Inv, ExpectedInv, ConfigureHealthCheck \/ RegisterAll \/ Locate
    PROVE  Expected
<1>1. /\ pc \in {"health", "register", "locate"}
      /\ at \in DOMAIN elb \intersect (Wanted \ todo) /\ todo \intersect DOMAIN elb = {}
      /\ DOMAIN current \subseteq DOMAIN elb
      /\ pc # "locate" => elb[at].targets = {}
      /\ IsLoadBalancer(elb)
  BY DEF ConfigureHealthCheck, RegisterAll, Locate, ExpectedInv, Provisioning, Inv, TypeOK
<1>2. ~Fail
  BY <1>1 DEF ConfigureHealthCheck, RegisterAll, Locate, CanRegister, Exists, Fail, Leave
<1>3. /\ UNCHANGED <<request, current, todo, at>> /\ DOMAIN elb' = DOMAIN elb
      /\ pc' \in {"register", "locate", "allow"}
      /\ pc' = "register" => elb'[at].targets = {}
  <2>1. CASE ConfigureHealthCheck
    BY <1>1, <1>2, <2>1, SetHealthEffect DEF ConfigureHealthCheck, locals
  <2>2. CASE RegisterAll
    BY <1>1, <1>2, <2>2, AddTargetsEffect DEF RegisterAll
  <2>3. CASE Locate
    BY <1>2, <2>3 DEF Locate, locals
  <2> QED
    BY <2>1, <2>2, <2>3
<1>4. Wanted' = Wanted
  BY <1>3 DEF Wanted
<1> QED
  BY <1>1, <1>3, <1>4 DEF Expected, Explained, ExpectedInv, Provisioning, Reconciling, Loops

\* What is described is there, and what is to be deleted was described.
LEMMA DescribeExpected ==
    ASSUME Inv, CallerInv, ExpectedInv, DescribeLoadBalancers \/ FindListeners \/ Redescribe
    PROVE  Expected
<1>1. CASE Redescribe
  <2>1. Wanted \subseteq DOMAIN elb /\ DOMAIN elb \subseteq Wanted /\ Wanted # {}
    BY <1>1 DEF Redescribe, CallerInv, DeleteInv, Inv, LocalInv, Ensuring
  <2>2. /\ current' \in Descriptions /\ pc' = "reconcile" /\ UNCHANGED <<elb, request>>
    BY <1>1, <2>1 DEF Redescribe, Exists
  <2>3. DOMAIN current' = DOMAIN elb /\ Wanted' = Wanted
    BY <2>2, DescriptionsType DEF Inv, TypeOK, Wanted
  <2> QED
    BY <2>1, <2>2, <2>3
    DEF Expected, Explained, ExpectedInv, Provisioning, Reconciling, Loops
<1>2. CASE DescribeLoadBalancers
  <2>1. /\ current' \in Descriptions /\ UNCHANGED <<elb, request>>
        /\ \/ pc' = "create" /\ todo' = Wanted \ DOMAIN elb
           \/ pc' = "delete" /\ todo' = DOMAIN elb \ Wanted
           \/ pc' = "reconcile" /\ DOMAIN elb = Wanted
    BY <1>2 DEF DescribeLoadBalancers, cloud
  <2>2. DOMAIN current' = DOMAIN elb /\ Wanted' = Wanted
    BY <2>1, DescriptionsType DEF Inv, TypeOK, Wanted
  <2>3. pc' = "create" => (Fresh' /\ todo' = Wanted' <=> ~Exists')
    BY <2>1, <2>2 DEF Fresh, Exists
  <2> QED
    BY <2>1, <2>2, <2>3
    DEF Expected, Explained, ExpectedInv, Provisioning, Reconciling, Loops
<1>3. CASE FindListeners
  BY <1>3 DEF FindListeners, NextRemove, cloud, Expected, Explained, ExpectedInv,
     Provisioning, Reconciling, Loops
<1> QED
  BY <1>1, <1>2, <1>3

LEMMA DeleteExpected ==
    ASSUME ExpectedInv, DeleteListener \/ DeleteFound
    PROVE  Expected
<1>1. pc \in {"delete", "remove"} /\ todo \subseteq DOMAIN elb
  BY DEF DeleteListener, DeleteFound, ExpectedInv, Loops
<1>2. PICK l \in todo : /\ RemoveListener(l) /\ todo' = todo \ {l}
                        /\ pc' \in {"deny", "expel"}
  BY <1>1 DEF DeleteListener, DeleteFound
<1>3. DOMAIN elb' = DOMAIN elb \ {l}
  BY <1>2, RemoveListenerEffect
<1> QED
  BY <1>1, <1>2, <1>3
  DEF Expected, Explained, ExpectedInv, Provisioning, Reconciling, Loops

\* Only a mistake about the targets is left to be refused for.
LEMMA ReconcileExpected ==
    ASSUME Inv, CallerInv, ExpectedInv,
           ReconcileListener \/ RegisterInstances \/ DeregisterInstances
    PROVE  Expected
<1>1. /\ pc \in {"reconcile", "enroll", "withdraw"} /\ todo \subseteq DOMAIN current
      /\ DOMAIN current = Wanted /\ DOMAIN elb = Wanted
  BY DEF ReconcileListener, RegisterInstances, DeregisterInstances, Inv, LocalInv, CallerInv,
     ReconcileInv, ExpectedInv, Reconciling
<1>2. CASE Fail
  <2>1. pc \in {"enroll", "withdraw"}
    BY <1>1, <1>2 DEF ReconcileListener, RegisterInstances, DeregisterInstances, Fail, Leave,
       FromEnroll, FromWithdraw, NextReconcile
  <2> QED
    BY <1>1, <1>2, <2>1, Unexpecting DEF Fail, Leave, Idle, Mistaken
<1>3. CASE ~Fail
  <2>1. /\ UNCHANGED <<request, current>>
        /\ pc' \in {"enroll", "withdraw", "reconcile", "return", "admit", "evict"}
    BY <1>3 DEF ReconcileListener, RegisterInstances, DeregisterInstances, FromEnroll,
       FromWithdraw, NextReconcile
  <2>2. Wanted' = Wanted
    BY <2>1 DEF Wanted
  <2> QED
    BY <1>1, <2>1, <2>2
    DEF Expected, Explained, ExpectedInv, Provisioning, Reconciling, Loops
<1> QED
  BY <1>2, <1>3

LEMMA RulesDoneExpected ==
    ASSUME Inv, CallerInv, ExpectedInv, RulesDone
    PROVE  Expected
<1>1. UNCHANGED <<elb, request, current, at>> /\ Wanted' = Wanted
  BY DEF RulesDone, cloud, Wanted
<1>2. /\ pc \in {"allow", "deny", "admit", "evict", "expel"}
      /\ pc' = CASE pc = "allow" -> NextCreate(todo)
                 [] pc = "deny"  -> NextDelete(todo)
                 [] pc = "admit" -> FromWithdraw(current[at], todo)
                 [] pc = "evict" -> NextReconcile(todo)
                 [] pc = "expel" -> NextRemove(todo)
      /\ todo' = IF pc' = "delete" /\ pc = "allow" THEN Unwanted ELSE todo
  BY DEF RulesDone, Opening, Closing
<1>3. CASE pc = "allow"
  <2>1. pc' = NextCreate(todo)
    BY <1>2, <1>3
  <2>2. /\ at \in DOMAIN elb \intersect (Wanted \ todo) /\ DOMAIN current \subseteq DOMAIN elb
        /\ todo \intersect DOMAIN elb = {}
    BY <1>3 DEF ExpectedInv, Provisioning
  <2>3. CASE pc' = "create"
    <3>1. todo' = todo /\ Exists' /\ todo' # Wanted'
      BY <1>1, <1>2, <2>2, <2>3 DEF Exists
    <3> QED
      BY <1>1, <2>2, <2>3, <3>1
      DEF Expected, Explained, ExpectedInv, Provisioning, Reconciling, Loops
  <2>4. CASE pc' = "delete"
    BY <1>1, <1>2, <1>3, <2>2, <2>4
    DEF Unwanted, Expected, Explained, ExpectedInv, Provisioning, Reconciling, Loops
  <2>5. CASE pc' \in {"return", "redescribe"}
    BY <2>5, Unexpecting DEF Idle
  <2> QED
    BY <2>1, <2>3, <2>4, <2>5 DEF NextCreate
<1>4. CASE pc \in {"admit", "evict"}
  <2>1. pc' \in {"withdraw", "reconcile", "return"} /\ DOMAIN current = Wanted
    BY <1>2, <1>4 DEF FromWithdraw, NextReconcile, ExpectedInv, Reconciling
  <2> QED
    BY <1>1, <2>1 DEF Expected, Explained, ExpectedInv, Provisioning, Reconciling, Loops
<1>5. CASE pc \in {"deny", "expel"}
  <2>1. /\ pc' \in {"delete", "redescribe", "remove", "confirm"} /\ todo' = todo
        /\ todo \subseteq DOMAIN elb
    BY <1>2, <1>5 DEF NextDelete, NextRemove, ExpectedInv, Loops
  <2> QED
    BY <1>1, <2>1 DEF Expected, Explained, ExpectedInv, Provisioning, Reconciling, Loops
<1> QED
  BY <1>2, <1>3, <1>4, <1>5

LEMMA ExpectedStep ==
    ASSUME Inv, CallerInv, FiniteInv, ExpectedInv, [Next]_vars
    PROVE  ExpectedInv' /\ [Explained]_vars
<1>1. CASE Call \/ DescribeInstances \/ CheckExists \/ Return \/ Confirm \/ Fault
  BY <1>1, Unexpecting
  DEF Call, EnsureLoadBalancer, UpdateLoadBalancer, EnsureLoadBalancerDeleted, Accept, Fault,
      Return, Confirm, CheckExists, DescribeInstances, Fail, Leave, Idle, Ensuring, Deleting,
      Provisioning, Reconciling, Expected
<1>2. CASE AuthorizeIngress \/ RevokeIngress \/ OutageEnds \/ UNCHANGED vars
  <2>1. UNCHANGED <<elb, pc, request, current, todo, at>>
    BY <1>2 DEF AuthorizeIngress, RevokeIngress, OutageEnds, vars, locals
  <2>2. Explained
    BY <2>1 DEF Explained, Ensuring, Deleting, Provisioning, Reconciling
  <2> QED
    BY <2>1, <2>2 DEF ExpectedInv, Fresh, Exists, Wanted
<1> QED
  BY <1>1, <1>2, CreateExpected, ProvisionExpected, DescribeExpected, DeleteExpected,
     ReconcileExpected, RulesDoneExpected
  DEF Next, Step, Expected

\* When NIFCLOUD answers every request, a call that has found its instances is
\* refused only for a listener that cannot be there beside the others, or, with
\* all listeners right, for targets that were described as another listener's.
THEOREM RefusedOnlyForCause == Spec => RefusedForCause
<1>1. Init => FiniteInv /\ ExpectedInv
  BY ConstantsAssumption
  DEF ConstantsAssumption, Init, FiniteInv, ExpectedInv, Provisioning, Reconciling, Loops
<1>2. Inv /\ CallerInv /\ FiniteInv /\ ExpectedInv /\ [Next]_vars
        => FiniteInv' /\ ExpectedInv' /\ [Explained]_vars
  BY FiniteStep, ExpectedStep
<1> QED
  BY <1>1, <1>2, Invariance, PTL DEF Spec, RefusedForCause
=============================================================================
