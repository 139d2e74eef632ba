---------------------- MODULE ElasticLoadBalancerProofs ----------------------
(***************************************************************************)
(* Theorems about ElasticLoadBalancer, for any ports, instances, security  *)
(* groups, requests and leftovers.                                         *)
(***************************************************************************)
EXTENDS ElasticLoadBalancer, FiniteSetTheorems, TLAPS

-----------------------------------------------------------------------------
(* What a request asks for, and how the API changes a load balancer.       *)

LEMMA RequestTypes ==
    ASSUME NEW r \in Requests \union {NoRequest}
    PROVE  /\ r \in Request
           /\ Listeners(r) \subseteq Listener
           /\ Targets(r) \subseteq Instance
           /\ r.health \in HealthProtocol
<1>1. r \in Request
  <2>1. CASE r \in Requests
    BY <2>1, ConstantsAssumption DEF ConstantsAssumption
  <2>2. CASE r = NoRequest
    BY <2>2 DEF NoRequest, Request, HealthProtocol
  <2> QED
    BY <2>1, <2>2
<1> QED
  BY <1>1 DEF Request, Listeners, Targets

LEMMA NoLoadBalancerType == IsLoadBalancer(NoLoadBalancer) /\ DOMAIN NoLoadBalancer = {}
  BY DEF IsLoadBalancer, NoLoadBalancer

LEMMA AddListenerType ==
    ASSUME IsLoadBalancer(elb), NEW l \in Listener,
           \A m \in DOMAIN elb : m.port # l.port, AddListener(l)
    PROVE  /\ IsLoadBalancer(elb')
           /\ DOMAIN elb' = DOMAIN elb \union {l}
  BY DEF IsLoadBalancer, AddListener, NewSettings, Settings, HealthProtocol

LEMMA RemoveListenerType ==
    ASSUME IsLoadBalancer(elb), NEW l, RemoveListener(l)
    PROVE  /\ IsLoadBalancer(elb')
           /\ DOMAIN elb' = DOMAIN elb \ {l}
  BY DEF IsLoadBalancer, RemoveListener, Restrict

LEMMA SetHealthType ==
    ASSUME IsLoadBalancer(elb), NEW l \in DOMAIN elb, NEW h \in HealthProtocol,
           SetHealth(l, h)
    PROVE  IsLoadBalancer(elb') /\ DOMAIN elb' = DOMAIN elb
  BY DEF IsLoadBalancer, SetHealth, Settings

LEMMA AddTargetsType ==
    ASSUME IsLoadBalancer(elb), NEW l \in DOMAIN elb, NEW is \in SUBSET Instance,
           AddTargets(l, is)
    PROVE  IsLoadBalancer(elb') /\ DOMAIN elb' = DOMAIN elb
  BY DEF IsLoadBalancer, AddTargets, Settings

LEMMA RemoveTargetsType ==
    ASSUME IsLoadBalancer(elb), NEW l \in DOMAIN elb, NEW is, RemoveTargets(l, is)
    PROVE  IsLoadBalancer(elb') /\ DOMAIN elb' = DOMAIN elb
  BY DEF IsLoadBalancer, RemoveTargets, Settings

LEMMA DescriptionsType ==
    ASSUME IsLoadBalancer(elb), NEW c \in Descriptions
    PROVE  IsLoadBalancer(c) /\ DOMAIN c = DOMAIN elb
<1>1. CASE Exists
  <2>1. PICK first \in DOMAIN elb : c = Described(first)
    BY <1>1 DEF Descriptions
  <2>2. c = [l \in DOMAIN elb |-> [elb[l] EXCEPT !.targets = elb[first].targets]]
    BY <2>1 DEF Described
  <2>3. \A l \in DOMAIN elb : [elb[l] EXCEPT !.targets = elb[first].targets] \in Settings
    BY DEF IsLoadBalancer, Settings
  <2> QED
    BY <2>2, <2>3 DEF IsLoadBalancer
<1>2. CASE ~Exists
  BY <1>2, NoLoadBalancerType DEF Descriptions, Exists
<1> QED
  BY <1>1, <1>2

\* Rules are opened and closed in security groups that exist.
LEMMA GrantsType ==
    ASSUME NEW is \in SUBSET Instance, NEW l \in Listener \union {NoListener}, NEW h
    PROVE  Grants(is, l, h) \subseteq Group \X Rule
<1>1. Groups(is) \subseteq Group
  BY ConstantsAssumption DEF ConstantsAssumption, Groups
<1>2. RulesOf(l, h) \subseteq Rule
  BY ConstantsAssumption
  DEF ConstantsAssumption, RulesOf, Rule, Listener, NoListener
<1> QED
  BY <1>1, <1>2 DEF Grants

LEMMA NeededType ==
    ASSUME NEW c, IsLoadBalancer(c)
    PROVE  Needed(c) \subseteq Group \X Rule
<1> SUFFICES ASSUME NEW l \in DOMAIN c
             PROVE  (UNION {GroupsOf[i] : i \in c[l].targets})
                      \X ({l.nodePort} \union IF c[l].health = "ICMP" THEN {Ping} ELSE {})
                    \subseteq Group \X Rule
  BY DEF Needed
<1>1. l \in Listener /\ c[l].targets \subseteq Instance
  BY DEF IsLoadBalancer, Settings
<1>2. (UNION {GroupsOf[i] : i \in c[l].targets}) \subseteq Group
  BY <1>1, ConstantsAssumption DEF ConstantsAssumption
<1>3. ({l.nodePort} \union IF c[l].health = "ICMP" THEN {Ping} ELSE {}) \subseteq Rule
  BY <1>1 DEF Listener, Rule
<1> QED
  BY <1>2, <1>3

LEMMA SomePorts ==
    ASSUME NEW S, Cardinality(S) \in 1..MaxPorts
    PROVE  S # {}
  BY ConstantsAssumption, FS_EmptySet DEF ConstantsAssumption

-----------------------------------------------------------------------------
(* Type correctness and the listeners, which need each other: the          *)
(* description of a listener says which instances' groups to change.       *)

Inv == TypeOK /\ LocalInv

\* What a step of the caller keeps: its invariant, and what holds while nobody is
\* in its way.
Kept == Inv' /\ (CallerInv => CallerInv')

LEMMA InitInv == Init => Inv /\ CallerInv
<1> SUFFICES ASSUME Init PROVE Inv /\ CallerInv
  OBVIOUS
<1>1. IsLoadBalancer(elb)
  BY ConstantsAssumption DEF ConstantsAssumption, Init
<1>2. TypeOK
  BY <1>1, NeededType, NoLoadBalancerType DEF Init, TypeOK, Control, Idle
<1>3. LocalInv /\ CallerInv
  BY DEF Init, LocalInv, CallerInv, ProvisioningInv, DeleteInv, ReconcileInv, DeletingInv,
         ListenersConverged, Ensuring, Provisioning, Reconciling, Deleting
<1> QED
  BY <1>2, <1>3 DEF Inv

\* A caller that is in no call knows nothing and owes nothing.
LEMMA LeaveInv ==
    ASSUME TypeOK, NEW label \in Idle, Leave(label), elb' = elb, rules' = rules,
           outage' \in BOOLEAN
    PROVE  Kept
<1>1. TypeOK'
  BY NoLoadBalancerType DEF TypeOK, Leave, Control
<1>2. LocalInv' /\ (CallerInv => CallerInv')
  BY DEF Leave, Idle, LocalInv, CallerInv, ProvisioningInv, DeleteInv, ReconcileInv, DeletingInv,
         ListenersConverged, Ensuring, Provisioning, Reconciling, Deleting
<1> QED
  BY <1>1, <1>2 DEF Inv, Kept

LEMMA FailInv ==
    ASSUME TypeOK, Fail, outage' \in BOOLEAN
    PROVE  Kept
  BY LeaveInv DEF Fail, Idle

LEMMA CallInv ==
    ASSUME Inv, Call
    PROVE  Kept
<1> USE DEF Inv, Kept
<1>1. outage' \in BOOLEAN
  BY DEF Call, EnsureLoadBalancer, UpdateLoadBalancer, EnsureLoadBalancerDeleted, TypeOK
<1>2. ASSUME NEW r \in Requests \union {NoRequest}, NEW label \in {"lookup", "check", "find"},
             Accept(r, label), label = "lookup" => Listeners(r) # {},
             label = "find" => Listeners(r) = {}
      PROVE  Kept
  <2>1. TypeOK'
    BY <1>1, <1>2 DEF Accept, TypeOK, Control, Ensuring, Deleting
  <2>2. LocalInv' /\ (CallerInv => CallerInv')
    BY <1>2 DEF Accept, LocalInv, CallerInv, ProvisioningInv, DeleteInv, ReconcileInv, DeletingInv,
         ListenersConverged, Ensuring, Provisioning, Reconciling, Deleting, Wanted
  <2> QED
    BY <2>1, <2>2
<1>3. ASSUME NEW r \in Requests, EnsureLoadBalancer(r)
      PROVE  Kept
  BY <1>1, <1>2, <1>3, FailInv, SomePorts DEF EnsureLoadBalancer, Listeners
<1>4. ASSUME NEW r \in Requests, UpdateLoadBalancer(r)
      PROVE  Kept
  BY <1>1, <1>2, <1>4, FailInv DEF UpdateLoadBalancer
<1>5. ASSUME EnsureLoadBalancerDeleted
      PROVE  Kept
  BY <1>2, <1>5 DEF EnsureLoadBalancerDeleted, Listeners, NoRequest
<1> QED
  BY <1>3, <1>4, <1>5 DEF Call

-----------------------------------------------------------------------------
(* The steps of a call.                                                    *)

\* Steps that only look things up.
LEMMA LookupInv ==
    ASSUME Inv, DescribeInstances \/ CheckExists \/ Locate
    PROVE  Kept
<1> USE DEF Inv, Kept
<1>1. ASSUME Fail, outage' = outage PROVE Kept
  BY <1>1, FailInv DEF TypeOK
<1>2. ASSUME NEW label \in {"describe", "lookup", "allow"}, pc' = label,
             UNCHANGED <<elb, rules, outage, locals>>,
             Wanted # {}, label = "allow" => pc = "locate"
      PROVE  Kept
  <2>1. TypeOK'
    BY <1>2 DEF TypeOK, locals, Control, Ensuring, Provisioning
  <2>2. Wanted' = Wanted
    BY <1>2 DEF Wanted, locals
  <2>3. LocalInv' /\ (CallerInv => CallerInv')
    BY <1>2, <2>2 DEF locals, LocalInv, CallerInv, ProvisioningInv, DeleteInv, ReconcileInv,
         DeletingInv, ListenersConverged, Ensuring, Provisioning, Reconciling, Deleting
  <2> QED
    BY <2>1, <2>3
<1>3. ASSUME DescribeInstances PROVE Kept
  <2>1. Wanted # {}
    BY <1>3 DEF DescribeInstances, LocalInv, CallerInv, Ensuring
  <2> QED
    BY <1>1, <1>2, <1>3, <2>1 DEF DescribeInstances
<1>4. ASSUME CheckExists PROVE Kept
  BY <1>1, <1>2, <1>4, SomePorts DEF CheckExists, Wanted, Listeners
<1>5. ASSUME Locate PROVE Kept
  <2>1. Wanted # {}
    BY <1>5 DEF Locate, LocalInv, CallerInv, Ensuring, Provisioning
  <2> QED
    BY <1>1, <1>2, <1>5, <2>1 DEF Locate
<1> QED
  BY <1>3, <1>4, <1>5

LEMMA DescribeInv ==
    ASSUME Inv, DescribeLoadBalancers
    PROVE  Kept
<1> USE DEF Inv, Kept
<1>1. /\ IsLoadBalancer(current') /\ DOMAIN current' = DOMAIN elb
      /\ UNCHANGED <<elb, rules, outage, request, at, grants>>
      /\ Wanted' = Wanted /\ Wanted # {} /\ Wanted \subseteq Listener
      /\ DOMAIN elb \subseteq Listener
  BY DescriptionsType, RequestTypes
  DEF DescribeLoadBalancers, cloud, TypeOK, Wanted, IsLoadBalancer, LocalInv, CallerInv, Ensuring
<1>2. \/ pc' = "create" /\ todo' = Wanted \ DOMAIN elb
      \/ pc' = "delete" /\ todo' = DOMAIN elb \ Wanted /\ Wanted \subseteq DOMAIN elb
      \/ pc' = "reconcile" /\ todo' = Wanted /\ DOMAIN elb = Wanted
  BY DEF DescribeLoadBalancers
<1>3. TypeOK'
  BY <1>1, <1>2 DEF TypeOK, Control, Ensuring, Provisioning, Reconciling
<1>4. LocalInv' /\ (CallerInv => CallerInv')
  BY <1>1, <1>2 DEF LocalInv, CallerInv, ProvisioningInv, DeleteInv, ReconcileInv,
     DeletingInv, ListenersConverged, Ensuring, Provisioning, Reconciling, Deleting
<1> QED
  BY <1>3, <1>4

\* The create loop up to the rules: a listener is there as soon as it has left
\* the list.
LEMMA CreateInv ==
    ASSUME Inv, CreateListener \/ ConfigureHealthCheck \/ RegisterAll
    PROVE  Kept
<1> USE DEF Inv, Kept
<1>1. /\ Wanted # {} /\ Wanted \subseteq Listener /\ Targets(request) \subseteq Instance
      /\ request.health \in HealthProtocol
      /\ todo \subseteq Wanted
      /\ CallerInv => /\ Wanted \ todo \subseteq DOMAIN elb
                      /\ DOMAIN elb \subseteq DOMAIN current \union Wanted
  BY RequestTypes DEF CreateListener, ConfigureHealthCheck, RegisterAll, TypeOK, Wanted,
     LocalInv, CallerInv, ProvisioningInv, Ensuring, Provisioning
<1>2. ASSUME Fail, outage' = outage PROVE Kept
  BY <1>2, FailInv DEF TypeOK
<1>3. ASSUME UNCHANGED <<rules, outage, request, current>>, IsLoadBalancer(elb'),
             NEW label \in {"health", "register", "locate", "allow"}, pc' = label,
             todo' \subseteq todo, DOMAIN elb' = DOMAIN elb \union (todo \ todo'),
             at' \in Listener \union {NoListener}, grants' \subseteq Group \X Rule
      PROVE  Kept
  <2>1. TypeOK'
    BY <1>1, <1>3 DEF TypeOK, Control, Ensuring, Provisioning
  <2>2. Wanted' = Wanted
    BY <1>3 DEF Wanted
  <2>3. CallerInv => /\ Wanted \ todo' \subseteq DOMAIN elb'
                     /\ DOMAIN elb' \subseteq DOMAIN current \union Wanted
    BY <1>1, <1>3
  <2>4. LocalInv' /\ (CallerInv => CallerInv')
    BY <1>1, <1>3, <2>2, <2>3 DEF LocalInv, CallerInv, ProvisioningInv, DeleteInv,
       ReconcileInv, DeletingInv, ListenersConverged, Ensuring, Provisioning, Reconciling,
       Deleting
  <2> QED
    BY <2>1, <2>4
<1>4. ASSUME CreateListener PROVE Kept
  <2>1. PICK l \in todo :
           IF IF Fresh /\ todo = Wanted THEN CanCreate(l) ELSE CanRegisterPort(l)
             THEN /\ AddListener(l)
                  /\ pc' = "health"
                  /\ todo' = todo \ {l}
                  /\ at' = l
                  /\ UNCHANGED <<rules, request, current, grants>>
             ELSE Fail
    BY <1>4 DEF CreateListener
  <2>2. outage' = outage
    BY <1>4 DEF CreateListener
  <2>3. CASE IF Fresh /\ todo = Wanted THEN CanCreate(l) ELSE CanRegisterPort(l)
    <3>1. l \in Listener /\ \A m \in DOMAIN elb : m.port # l.port
      BY <1>1, <2>3 DEF CanCreate, CanRegisterPort, Exists
    <3>2. IsLoadBalancer(elb') /\ DOMAIN elb' = DOMAIN elb \union {l}
      BY <2>1, <2>3, <3>1, AddListenerType DEF TypeOK
    <3>3. grants' \subseteq Group \X Rule
      BY <2>1, <2>3 DEF TypeOK
    <3> QED
      BY <1>3, <2>1, <2>2, <2>3, <3>1, <3>2, <3>3
  <2> QED
    BY <1>2, <2>1, <2>2, <2>3
<1>5. ASSUME ConfigureHealthCheck PROVE Kept
  <2>1. CASE at \in DOMAIN elb
    <3>1. IsLoadBalancer(elb') /\ DOMAIN elb' = DOMAIN elb
      BY <1>1, <1>5, <2>1, SetHealthType DEF ConfigureHealthCheck, TypeOK
    <3> QED
      BY <1>3, <1>5, <2>1, <3>1 DEF ConfigureHealthCheck, locals, TypeOK
  <2> QED
    BY <1>2, <1>5, <2>1 DEF ConfigureHealthCheck
<1>6. ASSUME RegisterAll PROVE Kept
  <2>1. CASE CanRegister(at, Targets(request))
    <3>1. IsLoadBalancer(elb') /\ DOMAIN elb' = DOMAIN elb
      BY <1>1, <1>6, <2>1, AddTargetsType DEF RegisterAll, CanRegister, TypeOK
    <3>2. grants' \subseteq Group \X Rule
      BY <1>1, <1>6, <2>1, GrantsType DEF RegisterAll, TypeOK
    <3> QED
      BY <1>3, <1>6, <2>1, <3>1, <3>2 DEF RegisterAll, TypeOK
  <2> QED
    BY <1>2, <1>6, <2>1 DEF RegisterAll
<1> QED
  BY <1>4, <1>5, <1>6

\* Opening and closing rules changes no listener.
LEMMA IngressInv ==
    ASSUME Inv, AuthorizeIngress \/ RevokeIngress
    PROVE  Kept
<1> USE DEF Inv, Kept
<1>1. /\ rules' \subseteq Group \X Rule /\ grants' \subseteq Group \X Rule
      /\ UNCHANGED <<elb, outage, pc, request, current, todo, at>>
  BY DEF AuthorizeIngress, RevokeIngress, TypeOK
<1>2. TypeOK'
  BY <1>1 DEF TypeOK
<1>3. LocalInv' /\ (CallerInv => CallerInv')
  BY <1>1 DEF LocalInv, CallerInv, ProvisioningInv, DeleteInv, ReconcileInv, DeletingInv,
     ListenersConverged, Wanted
<1> QED
  BY <1>2, <1>3

\* Where the loops lead when the rules of a listener are done.
LEMMA RulesDoneInv ==
    ASSUME Inv, RulesDone
    PROVE  Kept
<1> USE DEF Inv, Kept
<1>1. /\ UNCHANGED <<elb, rules, outage, request, current, at, grants>>
      /\ Wanted' = Wanted
      /\ pc \in {"allow", "deny", "admit", "evict", "expel"}
      /\ todo' = IF pc' = "delete" /\ pc = "allow" THEN Unwanted ELSE todo
      /\ DOMAIN current \subseteq Listener /\ todo \subseteq Listener
  BY DEF RulesDone, cloud, Wanted, Opening, Closing, TypeOK, IsLoadBalancer
<1>2. pc # "expel" => Wanted # {}
  BY <1>1 DEF LocalInv, CallerInv, Ensuring, Provisioning, Reconciling
<1>3. ASSUME pc' \in Control PROVE TypeOK'
  BY <1>1, <1>3 DEF TypeOK, Unwanted
<1>4. CASE pc = "allow"
  <2>1. pc' = NextCreate(todo)
    BY <1>4 DEF RulesDone
  <2>2. /\ todo \subseteq Wanted
        /\ CallerInv => /\ Wanted \ todo \subseteq DOMAIN elb
                        /\ DOMAIN elb \subseteq DOMAIN current \union Wanted
    BY <1>4 DEF LocalInv, CallerInv, ProvisioningInv, Provisioning
  <2>3. \/ pc' = "create" /\ todo' = todo
        \/ pc' = "return" /\ (CallerInv => DOMAIN elb = Wanted)
        \/ /\ pc' = "delete" /\ todo' = DOMAIN current \ Wanted
           /\ CallerInv => Wanted \subseteq DOMAIN elb /\ DOMAIN elb \subseteq Wanted \union todo'
        \/ pc' = "redescribe" /\ todo' = {} /\ (CallerInv => DOMAIN elb = Wanted)
    BY <1>1, <1>4, <2>1, <2>2 DEF NextCreate, Fresh, Unwanted
  <2>4. LocalInv' /\ (CallerInv => CallerInv')
    BY <1>1, <1>2, <1>4, <2>2, <2>3 DEF LocalInv, CallerInv, ProvisioningInv, DeleteInv,
       ReconcileInv, DeletingInv, ListenersConverged, Ensuring, Provisioning, Reconciling,
       Deleting
  <2> QED
    BY <1>3, <2>3, <2>4 DEF Control, Ensuring, Provisioning
<1>5. CASE pc = "deny"
  <2>1. pc' = NextDelete(todo) /\ todo' = todo
    BY <1>1, <1>5 DEF RulesDone
  <2>2. LocalInv' /\ (CallerInv => CallerInv')
    BY <1>1, <1>2, <1>5, <2>1 DEF NextDelete, LocalInv, CallerInv, ProvisioningInv, DeleteInv,
       ReconcileInv, DeletingInv, ListenersConverged, Ensuring, Provisioning, Reconciling,
       Deleting
  <2> QED
    BY <1>3, <2>1, <2>2 DEF NextDelete, Control, Ensuring
<1>6. CASE pc \in {"admit", "evict"}
  <2>1. pc' \in {"withdraw", "reconcile", "return"} /\ todo' = todo
    BY <1>1, <1>6 DEF RulesDone, FromWithdraw, NextReconcile
  <2>2. /\ todo \subseteq DOMAIN current /\ at \in DOMAIN current
        /\ CallerInv => DOMAIN elb = Wanted
    BY <1>6 DEF LocalInv, CallerInv, ReconcileInv, Reconciling
  <2>3. LocalInv' /\ (CallerInv => CallerInv')
    BY <1>1, <1>2, <1>6, <2>1, <2>2 DEF LocalInv, CallerInv, ProvisioningInv, DeleteInv,
       ReconcileInv, DeletingInv, ListenersConverged, Ensuring, Provisioning, Reconciling,
       Deleting
  <2> QED
    BY <1>3, <2>1, <2>3 DEF Control, Ensuring, Reconciling
<1>7. CASE pc = "expel"
  <2>1. pc' = NextRemove(todo) /\ todo' = todo
    BY <1>1, <1>7 DEF RulesDone
  <2>2. LocalInv' /\ (CallerInv => CallerInv')
    BY <1>1, <1>7, <2>1 DEF NextRemove, LocalInv, CallerInv, ProvisioningInv, DeleteInv,
       ReconcileInv, DeletingInv, ListenersConverged, Ensuring, Provisioning, Reconciling,
       Deleting
  <2> QED
    BY <1>3, <2>1, <2>2 DEF NextRemove, Control, Deleting
<1> QED
  BY <1>1, <1>4, <1>5, <1>6, <1>7

\* A listener that leaves the list leaves the load balancer.
LEMMA DeleteStepInv ==
    ASSUME Inv, DeleteListener \/ DeleteFound
    PROVE  Kept
<1> USE DEF Inv, Kept
<1>1. PICK l \in todo :
         IF l \in DOMAIN elb
           THEN /\ RemoveListener(l)
                /\ pc' = IF pc = "delete" THEN "deny" ELSE "expel"
                /\ todo' = todo \ {l}
                /\ at' = l
                /\ grants' = Grants(current[l].targets, l, current[l].health)
                /\ UNCHANGED <<rules, request, current>>
           ELSE Fail
  BY DEF DeleteListener, DeleteFound
<1>2. outage' = outage /\ pc \in {"delete", "remove"}
  BY DEF DeleteListener, DeleteFound
<1>3. CASE l \in DOMAIN elb
  <2>1. IsLoadBalancer(elb') /\ DOMAIN elb' = DOMAIN elb \ {l}
    BY <1>1, <1>3, RemoveListenerType DEF TypeOK
  <2>2. l \in DOMAIN current
    BY <1>2 DEF LocalInv, CallerInv, DeleteInv, DeletingInv, Deleting
  <2>3. grants' \subseteq Group \X Rule
    BY <1>1, <1>3, <2>2, GrantsType DEF TypeOK, IsLoadBalancer, Settings
  <2>4. TypeOK'
    BY <1>1, <1>2, <1>3, <2>1, <2>3 DEF TypeOK, Control, Ensuring, Deleting
  <2>5. Wanted' = Wanted
    BY <1>1, <1>3 DEF Wanted
  <2>6. LocalInv' /\ (CallerInv => CallerInv')
    BY <1>1, <1>2, <1>3, <2>1, <2>5 DEF LocalInv, CallerInv, ProvisioningInv, DeleteInv,
       ReconcileInv, DeletingInv, ListenersConverged, Ensuring, Provisioning, Reconciling,
       Deleting
  <2> QED
    BY <2>4, <2>6
<1> QED
  BY <1>1, <1>2, <1>3, FailInv DEF TypeOK

\* A second description, or the description of a load balancer to delete, has
\* the listeners that are there.
LEMMA RedescribeInv ==
    ASSUME Inv, Redescribe \/ FindListeners
    PROVE  Kept
<1> USE DEF Inv, Kept
<1>1. ASSUME current' \in Descriptions, todo' = DOMAIN elb,
             UNCHANGED <<elb, rules, outage, request, at, grants>>
      PROVE  /\ Wanted' = Wanted
             /\ DOMAIN current' = DOMAIN elb
             /\ pc' \in Control => TypeOK'
  BY <1>1, DescriptionsType DEF TypeOK, Wanted, IsLoadBalancer
<1>2. ASSUME FindListeners PROVE Kept
  <2>1. /\ current' \in Descriptions /\ todo' = DOMAIN elb /\ pc = "find"
        /\ UNCHANGED <<elb, rules, outage, request, at, grants>>
    BY <1>2 DEF FindListeners, cloud
  <2>2. pc' = "remove" \/ (pc' = "confirm" /\ DOMAIN elb = {})
    BY <1>2 DEF FindListeners, NextRemove
  <2>3. LocalInv' /\ (CallerInv => CallerInv')
    BY <1>1, <2>1, <2>2 DEF LocalInv, CallerInv, ProvisioningInv, DeleteInv, ReconcileInv,
       DeletingInv, ListenersConverged, Ensuring, Provisioning, Reconciling, Deleting
  <2> QED
    BY <1>1, <2>1, <2>2, <2>3 DEF Control, Deleting
<1>3. ASSUME Redescribe PROVE Kept
  <2>1. Wanted # {} /\ (CallerInv => DOMAIN elb = Wanted)
    BY <1>3 DEF Redescribe, LocalInv, CallerInv, DeleteInv, Ensuring
  <2>2. CASE ~Exists
    BY <1>3, <2>2, FailInv DEF Redescribe, TypeOK
  <2>3. CASE Exists
    <3>1. /\ current' \in Descriptions /\ todo' = DOMAIN elb /\ pc' = "reconcile"
          /\ UNCHANGED <<elb, rules, outage, request, at, grants>>
      BY <1>3, <2>3 DEF Redescribe
    <3>2. LocalInv' /\ (CallerInv => CallerInv')
      BY <1>1, <2>1, <3>1 DEF LocalInv, CallerInv, ProvisioningInv, DeleteInv, ReconcileInv,
         DeletingInv, ListenersConverged, Ensuring, Provisioning, Reconciling, Deleting
    <3> QED
      BY <1>1, <3>1, <3>2 DEF Control, Ensuring, Reconciling
  <2> QED
    BY <2>2, <2>3
<1> QED
  BY <1>2, <1>3

\* The reconcile loop changes no listener.
LEMMA ReconcileStepInv ==
    ASSUME Inv, ReconcileListener \/ RegisterInstances \/ DeregisterInstances
    PROVE  Kept
<1> USE DEF Inv, Kept
<1>1. /\ Wanted # {} /\ Wanted \subseteq Listener /\ Targets(request) \subseteq Instance
      /\ todo \subseteq DOMAIN current /\ DOMAIN current \subseteq Listener
      /\ pc # "reconcile" => at \in DOMAIN current
      /\ CallerInv => DOMAIN elb = Wanted
  BY RequestTypes DEF ReconcileListener, RegisterInstances, DeregisterInstances, TypeOK,
     Wanted, IsLoadBalancer, LocalInv, CallerInv, ReconcileInv, Ensuring, Reconciling
<1>2. ASSUME Fail, outage' = outage PROVE Kept
  BY <1>2, FailInv DEF TypeOK
<1>3. ASSUME UNCHANGED <<rules, outage, request, current>>, IsLoadBalancer(elb'),
             DOMAIN elb' = DOMAIN elb, todo' \subseteq todo, at' \in DOMAIN current,
             pc' \in {"enroll", "admit", "withdraw", "evict", "reconcile", "return"},
             grants' \subseteq Group \X Rule
      PROVE  Kept
  <2>1. TypeOK'
    BY <1>1, <1>3 DEF TypeOK, Control, Ensuring, Reconciling
  <2>2. Wanted' = Wanted
    BY <1>3 DEF Wanted
  <2>3. LocalInv' /\ (CallerInv => CallerInv')
    BY <1>1, <1>3, <2>2 DEF LocalInv, CallerInv, ProvisioningInv, DeleteInv, ReconcileInv,
       DeletingInv, ListenersConverged, Ensuring, Provisioning, Reconciling, Deleting
  <2> QED
    BY <2>1, <2>3
<1>4. ASSUME ReconcileListener PROVE Kept
  <2> SUFFICES ASSUME ~Fail PROVE Kept
    BY <1>2, <1>4 DEF ReconcileListener
  <2>1. PICK l \in todo :
           /\ pc' = FromEnroll(current[l], todo \ {l})
           /\ todo' = todo \ {l}
           /\ at' = l
           /\ UNCHANGED <<elb, rules, request, current, grants>>
    BY <1>4 DEF ReconcileListener
  <2>2. pc' \in {"enroll", "withdraw", "reconcile", "return"}
    BY <2>1 DEF FromEnroll, FromWithdraw, NextReconcile
  <2>3. outage' = outage
    BY <1>4 DEF ReconcileListener
  <2> QED
    BY <1>1, <1>3, <2>1, <2>2, <2>3 DEF TypeOK
<1>5. ASSUME RegisterInstances PROVE Kept
  <2> DEFINE new == ToRegister(request, current[at])
  <2>1. new \subseteq Instance /\ at \in DOMAIN current
    BY <1>1, <1>5 DEF ToRegister, RegisterInstances
  <2>2. CASE CanRegister(at, new)
    <3>1. IsLoadBalancer(elb') /\ DOMAIN elb' = DOMAIN elb
      BY <1>1, <1>5, <2>1, <2>2, AddTargetsType DEF RegisterInstances, CanRegister, TypeOK
    <3>2. grants' \subseteq Group \X Rule
      BY <1>5, <2>1, <2>2, GrantsType DEF RegisterInstances, TypeOK
    <3> QED
      BY <1>3, <1>5, <2>1, <2>2, <3>1, <3>2 DEF RegisterInstances
  <2> QED
    BY <1>2, <1>5, <2>2 DEF RegisterInstances
<1>6. ASSUME DeregisterInstances PROVE Kept
  <2> DEFINE old == ToDeregister(request, current[at])
  <2>1. old \subseteq Instance /\ at \in DOMAIN current
    BY <1>1, <1>6 DEF ToDeregister, DeregisterInstances, TypeOK, IsLoadBalancer, Settings
  <2>2. CASE CanDeregister(at, old)
    <3>1. IsLoadBalancer(elb') /\ DOMAIN elb' = DOMAIN elb
      BY <1>1, <1>6, <2>1, <2>2, RemoveTargetsType DEF DeregisterInstances, CanDeregister, TypeOK
    <3>2. grants' \subseteq Group \X Rule
      BY <1>6, <2>1, <2>2, GrantsType DEF DeregisterInstances, TypeOK
    <3> QED
      BY <1>3, <1>6, <2>1, <2>2, <3>1, <3>2 DEF DeregisterInstances
  <2> QED
    BY <1>2, <1>6, <2>2 DEF DeregisterInstances
<1> QED
  BY <1>4, <1>5, <1>6

LEMMA EndInv ==
    ASSUME Inv, Return \/ Confirm
    PROVE  Kept
  BY LeaveInv DEF Inv, Return, Confirm, cloud, Idle, TypeOK

LEMMA StepInv ==
    ASSUME Inv, Call \/ Step \/ Fault
    PROVE  Kept
<1>1. ASSUME Step PROVE Kept
  BY <1>1, LookupInv, DescribeInv, CreateInv, IngressInv, RulesDoneInv, DeleteStepInv,
     RedescribeInv, ReconcileStepInv, EndInv DEF Step
<1>2. ASSUME Fault PROVE Kept
  BY <1>2, FailInv DEF Fault, Inv, TypeOK
<1> QED
  BY <1>1, <1>2, CallInv

\* What others may do without being in the way: nothing to the listeners, or bring
\* them closer to what this caller wants.
Helpful ==
    /\ DOMAIN elb' \subseteq DOMAIN elb \union Wanted
    /\ DOMAIN elb \intersect Wanted \subseteq DOMAIN elb'

\* A step of somebody else.
LEMMA OthersInv ==
    ASSUME Inv, UNCHANGED <<pc, request, current, todo, at, grants>>,
           IsLoadBalancer(elb'), rules' \subseteq Group \X Rule, outage' \in BOOLEAN
    PROVE  Inv' /\ (CallerInv /\ Helpful => CallerInv')
<1>1. Wanted' = Wanted
  BY DEF Wanted
<1>2. Inv'
  BY <1>1 DEF Inv, TypeOK, LocalInv
<1>3. ASSUME CallerInv, Helpful PROVE CallerInv'
  BY <1>1, <1>3 DEF Inv, LocalInv, CallerInv, Helpful, ProvisioningInv, DeleteInv,
     ReconcileInv, DeletingInv, ListenersConverged
<1> QED
  BY <1>2, <1>3

-----------------------------------------------------------------------------
(* What a step of the caller does to the listeners, and to its call.       *)

\* It goes on with its call, and brings the listeners closer to what it wants; the
\* last one stays if it wants any and nobody is in its way.
Working ==
    /\ Status = "calling" /\ Status' = "calling"
    /\ Wanted' = Wanted
    /\ Helpful
    /\ CallerInv /\ Wanted # {} /\ Exists => Exists'

\* It begins a call; it ends one, or has it refused; it succeeds.
Beginning ==
    /\ Status # "calling" /\ Status' = "calling"
    /\ Wanted' \in SUBSET Listener
    /\ elb' = elb
Ending(outcome) == Status' = outcome /\ Wanted' = {} /\ elb' = elb
Succeeding ==
    /\ Status = "calling"
    /\ CallerInv => DOMAIN elb = Wanted
    /\ Ending("ok")

LEMMA LeaveEffect ==
    ASSUME NEW label \in Idle \ {"idle"}, Leave(label), elb' = elb
    PROVE  Ending(IF label = "failed" THEN "error" ELSE "ok")
<1>1. Status' = IF label = "failed" THEN "error" ELSE "ok"
  BY DEF Leave, Status, Idle
<1>2. Wanted' = {}
  BY DEF Leave, Wanted, Listeners, NoRequest
<1> QED
  BY <1>1, <1>2 DEF Ending

LEMMA FailEffect ==
    ASSUME Fail
    PROVE  Ending("error")
  BY LeaveEffect DEF Fail, Idle

LEMMA CallEffect ==
    ASSUME Inv, Call
    PROVE  Beginning \/ Ending("error")
<1>1. ASSUME NEW r \in Requests \union {NoRequest}, NEW label \in {"lookup", "check", "find"},
             pc \in Idle, Accept(r, label)
      PROVE  Beginning
  <2>1. Status' = "calling" /\ Status # "calling"
    BY <1>1 DEF Accept, Status, Idle
  <2>2. Wanted' = Listeners(r) /\ elb' = elb
    BY <1>1 DEF Accept, Wanted
  <2> QED
    BY <2>1, <2>2, RequestTypes DEF Beginning
<1> QED
  BY <1>1, FailEffect
  DEF Call, EnsureLoadBalancer, UpdateLoadBalancer, EnsureLoadBalancerDeleted

\* A step that leaves the listeners alone.
LEMMA QuietEffect ==
    ASSUME DOMAIN elb' = DOMAIN elb, request' = request,
           Status = "calling", Status' = "calling"
    PROVE  Working
  BY DEF Working, Helpful, Wanted, Exists

LEMMA StepEffect ==
    ASSUME Inv, Step \/ Fault
    PROVE  Working \/ Ending("error") \/ Succeeding
<1> USE DEF Inv
<1>1. CASE Fail \/ Fault
  BY <1>1, FailEffect DEF Fault
<1>2. CASE DeleteListener \/ DeleteFound
  <2>1. PICK l \in todo : (l \in DOMAIN elb /\ RemoveListener(l)) \/ Fail
    BY <1>2 DEF DeleteListener, DeleteFound
  <2>2. CASE l \in DOMAIN elb /\ RemoveListener(l) /\ ~Fail
    <3>1. DOMAIN elb' = DOMAIN elb \ {l}
      BY <2>2, RemoveListenerType DEF TypeOK
    <3>2. /\ l \notin Wanted
          /\ CallerInv /\ Wanted # {} => Wanted \subseteq DOMAIN elb
      BY <1>2 DEF DeleteListener, DeleteFound, LocalInv, CallerInv, DeleteInv, Deleting
    <3>3. UNCHANGED request /\ Status = "calling" /\ Status' = "calling"
      BY <1>2, <2>2 DEF DeleteListener, DeleteFound, Status
    <3>4. Wanted' = Wanted
      BY <3>3 DEF Wanted
    <3> QED
      BY <3>1, <3>2, <3>3, <3>4 DEF Working, Helpful, Exists
  <2> QED
    BY <1>1, <2>1, <2>2
<1>3. CASE CreateListener /\ ~Fail
  <2>1. PICK l \in todo : AddListener(l)
    BY <1>3 DEF CreateListener
  <2>2. DOMAIN elb' = DOMAIN elb \union {l}
    BY <2>1 DEF AddListener
  <2>3. l \in Wanted
    BY <1>3 DEF CreateListener, LocalInv, Provisioning
  <2>4. UNCHANGED request /\ Status = "calling" /\ Status' = "calling"
    BY <1>3 DEF CreateListener, Status
  <2>5. Wanted' = Wanted
    BY <2>4 DEF Wanted
  <2> QED
    BY <2>2, <2>3, <2>4, <2>5 DEF Working, Helpful, Exists
<1>4. CASE (ConfigureHealthCheck \/ RegisterAll \/ RegisterInstances
              \/ DeregisterInstances) /\ ~Fail
  <2>1. DOMAIN elb' = DOMAIN elb
    BY <1>4 DEF ConfigureHealthCheck, RegisterAll, RegisterInstances, DeregisterInstances,
       SetHealth, AddTargets, RemoveTargets, TypeOK, IsLoadBalancer
  <2>2. UNCHANGED request /\ Status = "calling" /\ Status' = "calling"
    BY <1>4 DEF ConfigureHealthCheck, RegisterAll, RegisterInstances, DeregisterInstances,
       locals, Status
  <2> QED
    BY <2>1, <2>2, QuietEffect
<1>5. CASE (DescribeInstances \/ DescribeLoadBalancers \/ Locate \/ Redescribe
              \/ ReconcileListener \/ CheckExists \/ FindListeners) /\ ~Fail
  <2>1. UNCHANGED <<elb, request>> /\ Status = "calling"
    BY <1>5 DEF DescribeInstances, DescribeLoadBalancers, Locate, Redescribe,
       ReconcileListener, CheckExists, FindListeners, locals, cloud, Status
  <2>2. Status' = "calling"
    BY <1>5 DEF DescribeInstances, DescribeLoadBalancers, Locate, Redescribe,
       ReconcileListener, CheckExists, FindListeners, Status, FromEnroll, FromWithdraw,
       NextReconcile, NextRemove
  <2> QED
    BY <2>1, <2>2, QuietEffect
<1>6. CASE AuthorizeIngress \/ RevokeIngress
  BY <1>6, QuietEffect DEF AuthorizeIngress, RevokeIngress, Opening, Closing, Status
<1>7. CASE RulesDone
  <2>1. UNCHANGED <<elb, request>> /\ Status = "calling"
    BY <1>7 DEF RulesDone, cloud, Status, Opening, Closing
  <2>2. Status' = "calling"
    BY <1>7 DEF RulesDone, Opening, Closing, Status, NextCreate, NextDelete, NextReconcile,
       NextRemove, FromWithdraw
  <2> QED
    BY <2>1, <2>2, QuietEffect
<1>8. CASE Return \/ Confirm
  <2>1. Ending("ok")
    BY <1>8, LeaveEffect DEF Return, Confirm, cloud, Idle
  <2>2. Status = "calling"
    BY <1>8 DEF Return, Confirm, Status
  <2>3. CallerInv => DOMAIN elb = Wanted
    BY <1>8 DEF Return, Confirm, LocalInv, CallerInv, ListenersConverged, DeletingInv,
       Deleting
  <2> QED
    BY <2>1, <2>2, <2>3 DEF Succeeding
<1> QED
  BY <1>1, <1>2, <1>3, <1>4, <1>5, <1>6, <1>7, <1>8 DEF Step

-----------------------------------------------------------------------------
(* The theorems about the listeners.                                       *)

\* Outside a call there is nothing to be right about.
LEMMA RestInv ==
    ASSUME Status' # "calling"
    PROVE  CallerInv'
<1>1. pc' \in Idle
  BY DEF Status, Idle
<1> QED
  BY <1>1 DEF Idle, CallerInv, ProvisioningInv, DeleteInv, ReconcileInv, DeletingInv,
     ListenersConverged, Provisioning, Reconciling, Deleting

LEMMA NextInv ==
    ASSUME Inv, CallerInv, [Next]_vars
    PROVE  Inv' /\ CallerInv'
<1>1. CASE Call \/ Step \/ Fault
  BY <1>1, StepInv DEF Kept
<1>2. CASE OutageEnds \/ UNCHANGED vars
  <2>1. UNCHANGED <<elb, rules, pc, request, current, todo, at, grants>> /\ outage' \in BOOLEAN
    BY <1>2 DEF OutageEnds, vars, locals, Inv, TypeOK
  <2>2. IsLoadBalancer(elb') /\ rules' \subseteq Group \X Rule /\ Helpful
    BY <2>1 DEF Inv, TypeOK, Helpful
  <2> QED
    BY <2>1, <2>2, OthersInv
<1> QED
  BY <1>1, <1>2 DEF Next

LEMMA Invariance == Spec => [](Inv /\ CallerInv)
  BY InitInv, NextInv, PTL DEF Spec

\* Every state is well typed: NIFCLOUD never holds two listeners on one port,
\* and rules are only ever opened and closed in security groups that exist.
THEOREM TypeCorrect == Spec => []TypeOK
<1>1. Inv /\ CallerInv => TypeOK
  BY DEF Inv
<1> QED
  BY <1>1, Invariance, PTL

\* What the caller takes to be there is there, at every point of every call.
THEOREM ListenersInvariant == Spec => []ListenersInv
<1>1. Inv /\ CallerInv => ListenersInv
  BY DEF Inv, ListenersInv
<1> QED
  BY <1>1, Invariance, PTL

\* An Ensure or Update that returns without an error leaves exactly the
\* listeners of the Service.
THEOREM ListenersConverge == Spec => []ListenersConverged
<1>1. Inv /\ CallerInv => ListenersConverged
  BY DEF CallerInv
<1> QED
  BY <1>1, Invariance, PTL

\* A Delete that returns without an error leaves no listener.
THEOREM DeleteLeavesNothing == Spec => []NothingLeft
<1>1. Inv /\ CallerInv => NothingLeft
  BY DEF CallerInv, DeletingInv, Deleting, NothingLeft, Exists
<1> QED
  BY <1>1, Invariance, PTL

\* During an Ensure or an Update the load balancer never loses its last
\* listener: when one is deleted, all that are wanted are there.
THEOREM EnsureKeepsExisting == Spec => NeverVanishes
<1>1. ASSUME Inv, CallerInv, [Next]_vars, pc \in Ensuring, Exists PROVE Exists'
  <2>1. ASSUME elb' = elb PROVE Exists'
    BY <1>1, <2>1 DEF Exists
  <2>2. CASE Working
    BY <1>1, <2>2 DEF Working, Inv, LocalInv
  <2>3. CASE Call \/ Step \/ Fault
    BY <1>1, <2>1, <2>2, <2>3, CallEffect, StepEffect DEF Beginning, Ending, Succeeding
  <2>4. CASE OutageEnds \/ UNCHANGED vars
    BY <2>1, <2>4 DEF OutageEnds, vars
  <2> QED
    BY <1>1, <2>3, <2>4 DEF Next
<1>2. Inv /\ CallerInv /\ [Next]_vars => [KeepsExisting]_vars
  BY <1>1 DEF KeepsExisting
<1> QED
  BY <1>2, Invariance, PTL DEF Spec, NeverVanishes

\* The calls of one caller do what the contract says, whatever failed before and
\* whatever load balancer they find: listeners are only ever added when they are
\* wanted and removed when they are not.
THEOREM ContractImplemented == Spec => ImplementsContract
<1>1. Init => Contract!Init
  <2> SUFFICES ASSUME Init PROVE Contract!Init
    OBVIOUS
  <2>1. DOMAIN elb \subseteq Listener
    BY ConstantsAssumption DEF ConstantsAssumption, Init, IsLoadBalancer
  <2>2. Status = "idle" /\ Wanted = {}
    BY DEF Init, Status, Wanted, Listeners, NoRequest
  <2> QED
    BY <2>1, <2>2 DEF Contract!Init
<1>2. Inv /\ CallerInv /\ [Next]_vars => [Contract!Next]_(Contract!vars)
  <2> SUFFICES ASSUME Inv, CallerInv, [Next]_vars
               PROVE  [Contract!Next]_(Contract!vars)
    OBVIOUS
  <2>1. CASE Beginning
    <3>1. Contract!Begin("caller", Wanted')
      BY <2>1 DEF Beginning, Contract!Begin, Contract!Calling
    <3> QED
      BY <2>1, <3>1 DEF Beginning, Contract!Next
  <2>2. CASE Ending("error")
    <3>1. Contract!End("caller", "error")
      BY <2>2 DEF Ending, Contract!End
    <3> QED
      BY <3>1 DEF Contract!Next, Contract!Fail
  <2>3. CASE Working
    <3>1. Contract!Work("caller")
      BY <2>3 DEF Working, Helpful, Exists, Contract!Work, Contract!Calling
    <3> QED
      BY <3>1 DEF Contract!Next
  <2>4. CASE Succeeding
    <3>1. Contract!End("caller", "ok")
      BY <2>4 DEF Succeeding, Ending, Contract!End
    <3>2. Contract!Succeed("caller")
      BY <2>4, <3>1 DEF Succeeding, Contract!Succeed, Contract!Calling
    <3> QED
      BY <3>2 DEF Contract!Next
  <2>5. CASE OutageEnds \/ UNCHANGED vars
    BY <2>5 DEF OutageEnds, vars, locals, Status, Wanted, Contract!vars
  <2> QED
    BY <2>1, <2>2, <2>3, <2>4, <2>5, CallEffect, StepEffect DEF Next
<1> QED
  BY <1>1, <1>2, Invariance, PTL DEF Spec, ImplementsContract, Contract!Spec
=============================================================================
