------------------------ MODULE L4LoadBalancerProofs ------------------------
(***************************************************************************)
(* Theorems about L4LoadBalancer, for every number of callers, ports,      *)
(* instances, addresses and requests.                                      *)
(***************************************************************************)
EXTENDS L4LoadBalancer, FiniteSetTheorems, TLAPS

-----------------------------------------------------------------------------
(* What a request asks for, and how the API changes a load balancer.       *)

LEMMA RequestTypes ==
    ASSUME NEW r \in Requests \union {NoRequest}
    PROVE  /\ r \in Request
           /\ Listeners(r) \subseteq Listener \union {UnsetListener}
           /\ Targets(r) \subseteq Instance
           /\ Filters(r) \subseteq Address
<1>1. r \in Request
  <2>1. CASE r \in Requests
    BY <2>1, ConstantsAssumption DEF ConstantsAssumption
  <2>2. CASE r = NoRequest
    <3>1. DefaultHealth \in HealthCheck
      BY ConstantsAssumption DEF ConstantsAssumption
    <3> QED
      BY <2>2, <3>1 DEF NoRequest, Request
  <2> QED
    BY <2>1, <2>2
<1>2. Listeners(r) \subseteq Listener \union {UnsetListener}
  <2> SUFFICES ASSUME NEW p \in r.ports, p.nodePort # Unset
               PROVE  [port |-> p.port, nodePort |-> p.nodePort] \in Listener
    BY DEF Listeners
  <2> QED
    BY <1>1 DEF Request, ServicePort, Listener
<1> QED
  BY <1>1, <1>2 DEF Request, Targets, Filters

LEMMA AddListenerType ==
    ASSUME IsLoadBalancer(lb), NEW l \in Listener, PortFree(l), AddListener(l)
    PROVE  /\ IsLoadBalancer(lb')
           /\ DOMAIN lb' = DOMAIN lb \union {l}
           /\ l \notin DOMAIN lb
           /\ lb'[l] = NewSettings
           /\ \A m \in DOMAIN lb : lb'[m] = lb[m]
  BY ConstantsAssumption
 
  DEF ConstantsAssumption, IsLoadBalancer, PortFree, AddListener, NewSettings, Settings

LEMMA RemoveListenerType ==
    ASSUME IsLoadBalancer(lb), NEW l, RemoveListener(l)
    PROVE  /\ IsLoadBalancer(lb')
           /\ DOMAIN lb' = DOMAIN lb \ {l}
           /\ \A m \in DOMAIN lb' : lb'[m] = lb[m]
  BY DEF IsLoadBalancer, RemoveListener, Restrict

LEMMA SetHealthType ==
    ASSUME IsLoadBalancer(lb), NEW l \in DOMAIN lb, NEW h \in HealthCheck,
           SetHealth(l, h)
    PROVE  /\ IsLoadBalancer(lb')
           /\ DOMAIN lb' = DOMAIN lb
           /\ lb'[l].targets = lb[l].targets /\ lb'[l].filters = lb[l].filters
           /\ \A m \in DOMAIN lb \ {l} : lb'[m] = lb[m]
  BY DEF IsLoadBalancer, SetHealth, Settings

LEMMA AddTargetsType ==
    ASSUME IsLoadBalancer(lb), NEW l \in DOMAIN lb, NEW is \in SUBSET Instance,
           AddTargets(l, is)
    PROVE  /\ IsLoadBalancer(lb')
           /\ DOMAIN lb' = DOMAIN lb
           /\ lb'[l].targets = lb[l].targets \union is
           /\ lb'[l].filters = lb[l].filters
           /\ \A m \in DOMAIN lb \ {l} : lb'[m] = lb[m]
  BY DEF IsLoadBalancer, AddTargets, Settings

LEMMA RemoveTargetsType ==
    ASSUME IsLoadBalancer(lb), NEW l \in DOMAIN lb, NEW is, RemoveTargets(l, is)
    PROVE  /\ IsLoadBalancer(lb')
           /\ DOMAIN lb' = DOMAIN lb
           /\ lb'[l].targets = lb[l].targets \ is
           /\ lb'[l].filters = lb[l].filters
           /\ \A m \in DOMAIN lb \ {l} : lb'[m] = lb[m]
  BY DEF IsLoadBalancer, RemoveTargets, Settings

LEMMA ChangeFiltersType ==
    ASSUME IsLoadBalancer(lb), NEW l \in DOMAIN lb, NEW add \in SUBSET Address,
           NEW drop, ChangeFilters(l, add, drop)
    PROVE  /\ IsLoadBalancer(lb')
           /\ DOMAIN lb' = DOMAIN lb
           /\ lb'[l].targets = lb[l].targets
           /\ lb'[l].filters = (lb[l].filters \union add) \ drop
           /\ \A m \in DOMAIN lb \ {l} : lb'[m] = lb[m]
  BY DEF IsLoadBalancer, ChangeFilters, Settings

-----------------------------------------------------------------------------
(* Type correctness.                                                       *)

LEMMA InitType == Init => TypeOK
<1> SUFFICES ASSUME Init PROVE TypeOK
  OBVIOUS
<1>1. IsLoadBalancer(lb)
  BY ConstantsAssumption DEF ConstantsAssumption, Init
<1>2. IsLoadBalancer(NoLoadBalancer)
  BY DEF IsLoadBalancer, NoLoadBalancer
<1> QED
  BY <1>1, <1>2 DEF Init, TypeOK, WellTyped, Control, Idle

LEMMA GotoType ==
    ASSUME WellTyped, NEW w \in Worker, NEW label \in Control, Goto(w, label)
    PROVE  /\ pc' \in [Worker -> Control]
           /\ pc'[w] = label
           /\ \A v \in Worker \ {w} : pc'[v] = pc[v]
  BY DEF WellTyped, Goto

\* A loop has one listener less to go.
LEMMA LoopType ==
    ASSUME WellTyped, NEW w \in Worker, NEW l, todo' = [todo EXCEPT ![w] = @ \ {l}]
    PROVE  /\ todo' \in [Worker -> SUBSET (Listener \union {UnsetListener})]
           /\ todo'[w] = todo[w] \ {l}
  BY DEF WellTyped

LEMMA LeaveType ==
    ASSUME WellTyped, NEW w \in Worker, NEW label \in Control, Leave(w, label),
           lb' = lb, outage' \in BOOLEAN
    PROVE  WellTyped'
<1>1. IsLoadBalancer(NoLoadBalancer)
  BY DEF IsLoadBalancer, NoLoadBalancer
<1> QED
  BY <1>1, GotoType DEF WellTyped, Leave

LEMMA FailType ==
    ASSUME WellTyped, NEW w \in Worker, Fail(w), outage' \in BOOLEAN
    PROVE  WellTyped'
  BY LeaveType DEF Fail, Control, Idle

LEMMA AcceptType ==
    ASSUME WellTyped, NEW w \in Worker, NEW r \in Requests \union {NoRequest},
           NEW label \in Control, Accept(w, r, label), outage' = outage
    PROVE  WellTyped'
  BY GotoType DEF WellTyped, Accept

LEMMA CallType ==
    ASSUME WellTyped, NEW w \in Worker, Call(w)
    PROVE  WellTyped'
<1>1. ASSUME NEW r \in Requests, EnsureLoadBalancer(w, r)
      PROVE  WellTyped'
  BY <1>1, FailType, AcceptType
  DEF EnsureLoadBalancer, Control, Ensuring, WellTyped
<1>2. ASSUME NEW r \in Requests, UpdateLoadBalancer(w, r)
      PROVE  WellTyped'
  BY <1>2, FailType, AcceptType DEF UpdateLoadBalancer, Control, WellTyped
<1>3. ASSUME EnsureLoadBalancerDeleted(w)
      PROVE  WellTyped'
  BY <1>3, AcceptType DEF EnsureLoadBalancerDeleted, Control, Deleting
<1> QED
  BY <1>1, <1>2, <1>3 DEF Call

LEMMA ControlLabels ==
    ASSUME NEW w, NEW ls, NEW r, NEW s
    PROVE  /\ NextCreate(w, ls) \in Control
           /\ NextDelete(ls) \in Control
           /\ NextReconcile(ls) \in Control
           /\ FromFilter(r, s, ls) \in Control
           /\ FromWithdraw(r, s, ls) \in Control
           /\ FromEnroll(r, s, ls) \in Control
  BY DEF Control, Ensuring, Provisioning, Reconciling, NextCreate, NextDelete,
         NextReconcile, FromFilter, FromWithdraw, FromEnroll

LEMMA StepType ==
    ASSUME WellTyped, NEW w \in Worker, Step(w)
    PROVE  WellTyped'
<1> DEFINE r == request[w]
<1>1. /\ r \in Requests \union {NoRequest}
      /\ Wanted(w) \subseteq Listener \union {UnsetListener}
      /\ Targets(r) \subseteq Instance
      /\ Filters(r) \subseteq Address
      /\ r.health \in HealthCheck
  BY RequestTypes DEF WellTyped, Wanted, Request
<1>2. ASSUME Fail(w), outage' = outage
      PROVE  WellTyped'
  BY <1>2, FailType DEF WellTyped
<1>3. ASSUME DescribeInstances(w) PROVE WellTyped'
  BY <1>2, <1>3, GotoType DEF DescribeInstances, WellTyped, locals, Control, Ensuring
<1>4. ASSUME DescribeLoadBalancers(w) PROVE WellTyped'
  <2>1. todo'[w] \subseteq Listener \union {UnsetListener}
    BY <1>1, <1>4 DEF DescribeLoadBalancers, WellTyped, IsLoadBalancer
  <2>2. pc' \in [Worker -> Control]
    BY <1>4, GotoType
    DEF DescribeLoadBalancers, Control, Ensuring, Provisioning, Reconciling
  <2> QED
    BY <1>4, <2>1, <2>2 DEF DescribeLoadBalancers, WellTyped, cloud
<1>5. ASSUME CreateListener(w) PROVE WellTyped'
  <2>1. PICK l \in todo[w] :
           IF IF Fresh(w) /\ todo[w] = Wanted(w) THEN CanCreate(l) ELSE CanRegisterPort(l)
             THEN /\ AddListener(l)
                  /\ Goto(w, "health")
                  /\ todo' = [todo EXCEPT ![w] = @ \ {l}]
                  /\ at' = [at EXCEPT ![w] = l]
                  /\ UNCHANGED <<request, current>>
             ELSE Fail(w)
    BY <1>5 DEF CreateListener
  <2>2. outage' = outage
    BY <1>5 DEF CreateListener
  <2>3. CASE CanCreate(l) \/ CanRegisterPort(l)
    <3>1. l \in Listener /\ PortFree(l)
      BY <2>3 DEF CanCreate, CanRegisterPort, Exists, PortFree, WellTyped
    <3>2. CASE AddListener(l)
      <4>1. IsLoadBalancer(lb')
        BY <3>1, <3>2, AddListenerType DEF WellTyped
      <4> QED
        BY <2>1, <2>2, <4>1, <1>2, GotoType
        DEF WellTyped, Control, Ensuring, Provisioning
    <3> QED
      BY <2>1, <2>2, <1>2, <3>2
  <2> QED
    BY <2>1, <2>2, <2>3, <1>2
<1>6. ASSUME ConfigureHealthCheck(w) PROVE WellTyped'
  <2>1. CASE at[w] \in DOMAIN lb
    <3>1. IsLoadBalancer(lb')
      BY <1>1, <1>6, <2>1, SetHealthType DEF ConfigureHealthCheck, WellTyped
    <3> QED
      BY <1>6, <2>1, <3>1, GotoType
      DEF ConfigureHealthCheck, WellTyped, locals, Control, Ensuring, Provisioning
  <2> QED
    BY <1>2, <1>6, <2>1 DEF ConfigureHealthCheck
<1>7. ASSUME RegisterAll(w) PROVE WellTyped'
  <2>1. CASE CanRegister(at[w], Targets(r))
    <3>1. IsLoadBalancer(lb')
      BY <1>1, <1>7, <2>1, AddTargetsType DEF RegisterAll, CanRegister, WellTyped
    <3> QED
      BY <1>7, <2>1, <3>1, GotoType
      DEF RegisterAll, WellTyped, locals, Control, Ensuring, Provisioning
  <2> QED
    BY <1>2, <1>7, <2>1 DEF RegisterAll
<1>8. ASSUME SetAllFilters(w) PROVE WellTyped'
  <2>1. CASE CanSetFilter(at[w], Filters(r), {})
    <3>1. IsLoadBalancer(lb')
      BY <1>1, <1>8, <2>1, ChangeFiltersType DEF SetAllFilters, CanSetFilter, WellTyped
    <3>2. Unwanted(w) \subseteq Listener
      BY DEF WellTyped, Unwanted, IsLoadBalancer
    <3>3. pc' \in [Worker -> Control]
      BY <1>8, <2>1, GotoType, ControlLabels DEF SetAllFilters
    <3>4. todo' \in [Worker -> SUBSET (Listener \union {UnsetListener})]
      BY <1>8, <2>1, <3>2 DEF SetAllFilters, WellTyped
    <3> QED
      BY <1>8, <2>1, <3>1, <3>3, <3>4 DEF SetAllFilters, WellTyped
  <2> QED
    BY <1>2, <1>8, <2>1 DEF SetAllFilters
<1>9. ASSUME DeleteListener(w) PROVE WellTyped'
  <2>1. PICK l \in todo[w] :
           IF l \in DOMAIN lb
             THEN /\ RemoveListener(l)
                  /\ Goto(w, NextDelete(todo[w] \ {l}))
                  /\ todo' = [todo EXCEPT ![w] = @ \ {l}]
                  /\ UNCHANGED <<request, current, at>>
             ELSE Fail(w)
    BY <1>9 DEF DeleteListener
  <2>2. outage' = outage
    BY <1>9 DEF DeleteListener
  <2>3. CASE l \in DOMAIN lb
    <3>1. IsLoadBalancer(lb')
      BY <2>1, <2>3, RemoveListenerType DEF WellTyped
    <3>2. pc' \in [Worker -> Control]
      BY <2>1, <2>3, GotoType, ControlLabels
    <3>3. todo' \in [Worker -> SUBSET (Listener \union {UnsetListener})]
      BY <2>1, <2>3, LoopType
    <3> QED
      BY <2>1, <2>2, <2>3, <3>1, <3>2, <3>3 DEF WellTyped
  <2> QED
    BY <1>2, <2>1, <2>2, <2>3
<1>10. ASSUME Redescribe(w) PROVE WellTyped'
  <2>1. CASE Exists
    <3>1. pc' \in [Worker -> Control]
      BY <1>10, <2>1, GotoType DEF Redescribe, Control, Ensuring, Reconciling
    <3>2. todo' \in [Worker -> SUBSET (Listener \union {UnsetListener})]
      BY <1>10, <2>1 DEF Redescribe, WellTyped, IsLoadBalancer
    <3>3. /\ current' = [v \in Worker |-> current'[v]]
          /\ \A v \in Worker : IsLoadBalancer(current'[v])
      BY <1>10, <2>1 DEF Redescribe, WellTyped
    <3> QED
      BY <1>10, <2>1, <3>1, <3>2, <3>3 DEF Redescribe, WellTyped
  <2> QED
    BY <1>2, <1>10, <2>1 DEF Redescribe
<1>11. ASSUME ReconcileListener(w) PROVE WellTyped'
  <2>1. PICK l \in todo[w] :
           IF l \in Wanted(w)
             THEN /\ Goto(w, FromEnroll(r, current[w][l], todo[w] \ {l}))
                  /\ todo' = [todo EXCEPT ![w] = @ \ {l}]
                  /\ at' = [at EXCEPT ![w] = l]
                  /\ UNCHANGED <<lb, request, current>>
             ELSE Fail(w)
    BY <1>11 DEF ReconcileListener
  <2>2. outage' = outage
    BY <1>11 DEF ReconcileListener
  <2>3. CASE l \in Wanted(w)
    <3>1. pc' \in [Worker -> Control]
      BY <2>1, <2>3, GotoType, ControlLabels
    <3>2. todo' \in [Worker -> SUBSET (Listener \union {UnsetListener})]
      BY <2>1, <2>3, LoopType
    <3> QED
      BY <2>1, <2>2, <2>3, <3>1, <3>2 DEF WellTyped
  <2> QED
    BY <1>2, <2>1, <2>2, <2>3
<1>12. ASSUME RegisterInstances(w) PROVE WellTyped'
  <2> DEFINE new == Targets(r) \ current[w][at[w]].targets
  <2>1. CASE CanRegister(at[w], new)
    <3>1. IsLoadBalancer(lb')
      BY <1>1, <1>12, <2>1, AddTargetsType
      DEF RegisterInstances, CanRegister, WellTyped, ToRegister
    <3> QED
      BY <1>12, <2>1, <3>1, GotoType, ControlLabels
      DEF RegisterInstances, WellTyped, locals, ToRegister
  <2> QED
    BY <1>2, <1>12, <2>1 DEF RegisterInstances, ToRegister
<1>13. ASSUME DeregisterInstances(w) PROVE WellTyped'
  <2> DEFINE old == current[w][at[w]].targets \ Targets(r)
  <2>1. CASE CanDeregister(at[w], old)
    <3>1. IsLoadBalancer(lb')
      BY <1>13, <2>1, RemoveTargetsType
      DEF DeregisterInstances, CanDeregister, WellTyped, ToDeregister
    <3> QED
      BY <1>13, <2>1, <3>1, GotoType, ControlLabels
      DEF DeregisterInstances, WellTyped, locals, ToDeregister
  <2> QED
    BY <1>2, <1>13, <2>1 DEF DeregisterInstances, ToDeregister
<1>14. ASSUME SetFilter(w) PROVE WellTyped'
  <2> DEFINE add  == Filters(r) \ current[w][at[w]].filters
             drop == current[w][at[w]].filters \ Filters(r)
  <2>1. CASE CanSetFilter(at[w], add, drop)
    <3>1. IsLoadBalancer(lb')
      BY <1>1, <1>14, <2>1, ChangeFiltersType
      DEF SetFilter, CanSetFilter, WellTyped, ToAuthorize, ToRevoke
    <3> QED
      BY <1>14, <2>1, <3>1, GotoType, ControlLabels
      DEF SetFilter, WellTyped, locals, ToAuthorize, ToRevoke
  <2> QED
    BY <1>2, <1>14, <2>1 DEF SetFilter, ToAuthorize, ToRevoke
<1>15. ASSUME Return(w) PROVE WellTyped'
  BY <1>15, LeaveType DEF Return, cloud, WellTyped, Control, Idle
<1>16. ASSUME CheckExists(w) PROVE WellTyped'
  BY <1>2, <1>16, GotoType DEF CheckExists, WellTyped, locals, Control, Ensuring
<1>17. ASSUME FindListeners(w) PROVE WellTyped'
  BY <1>17, GotoType
  DEF FindListeners, WellTyped, cloud, IsLoadBalancer, Control, Deleting
<1>18. ASSUME DeleteFound(w) PROVE WellTyped'
  <2>1. PICK l \in todo[w] :
           IF l \in DOMAIN lb
             THEN /\ RemoveListener(l)
                  /\ Goto(w, IF todo[w] = {l} THEN "confirm" ELSE "remove")
                  /\ todo' = [todo EXCEPT ![w] = @ \ {l}]
                  /\ UNCHANGED <<request, current, at>>
             ELSE Fail(w)
    BY <1>18 DEF DeleteFound
  <2>2. outage' = outage
    BY <1>18 DEF DeleteFound
  <2>3. CASE l \in DOMAIN lb
    <3>1. IsLoadBalancer(lb')
      BY <2>1, <2>3, RemoveListenerType DEF WellTyped
    <3>2. pc' \in [Worker -> Control]
      BY <2>1, <2>3, GotoType DEF Control, Deleting
    <3>3. todo' \in [Worker -> SUBSET (Listener \union {UnsetListener})]
      BY <2>1, <2>3, LoopType
    <3> QED
      BY <2>1, <2>2, <2>3, <3>1, <3>2, <3>3 DEF WellTyped
  <2> QED
    BY <1>2, <2>1, <2>2, <2>3
<1>19. ASSUME Confirm(w) PROVE WellTyped'
  BY <1>19, LeaveType DEF Confirm, cloud, WellTyped, Control, Idle
<1> QED
  BY <1>3, <1>4, <1>5, <1>6, <1>7, <1>8, <1>9, <1>10, <1>11, <1>12, <1>13,
     <1>14, <1>15, <1>16, <1>17, <1>18, <1>19 DEF Step

LEMMA NextType ==
    ASSUME TypeOK, [Next]_vars
    PROVE  TypeOK'
<1>1. ASSUME NEW w \in Worker, Fault(w) PROVE WellTyped'
  BY <1>1, FailType DEF Fault, TypeOK, WellTyped
<1>2. ASSUME OutageEnds \/ UNCHANGED vars
      PROVE  WellTyped' /\ pc' = pc
  BY <1>2 DEF OutageEnds, TypeOK, WellTyped, locals, vars
<1>3. WellTyped'
  BY <1>1, <1>2, CallType, StepType DEF Next, TypeOK
<1>4. opposed' \subseteq {w \in Worker : pc'[w] \notin Idle}
  <2>1. ASSUME NEW w \in Worker, Opposes(w)
        PROVE  opposed' \subseteq {v \in Worker : pc'[v] \notin Idle}
    BY <2>1 DEF Opposes
  <2>2. ASSUME OutageEnds \/ UNCHANGED vars, opposed' = opposed
        PROVE  opposed' \subseteq {v \in Worker : pc'[v] \notin Idle}
    BY <1>2, <2>2 DEF TypeOK
  <2> QED
    BY <2>1, <2>2 DEF Next, vars
<1> QED
  BY <1>3, <1>4 DEF TypeOK

\* Type correctness: the load balancer never has two listeners on one port,
\* and what callers remember of it, ask for and work on stays well formed,
\* with any number of callers, agreeing or not, and any failures.
THEOREM TypeCorrect == Spec => []TypeOK
<1>1. Init => TypeOK
  BY InitType
<1>2. TypeOK /\ [Next]_vars => TypeOK'
  BY NextType
<1> QED
  BY <1>1, <1>2, PTL DEF Spec

-----------------------------------------------------------------------------
(* Rely and guarantee.  A caller only brings the load balancer closer to   *)
(* its request; what a caller relies on survives such steps of others.     *)

LEMMA CloserTransitive ==
    ASSUME NEW s, NEW t, NEW u, NEW r, Closer(s, t, r), Closer(t, u, r)
    PROVE  Closer(s, u, r)
  BY DEF Closer

LEMMA NoChangeIsProgress ==
    ASSUME lb' = lb, NEW r
    PROVE  Progress(r)
  BY DEF Progress, Closer

\* Whose parts are the same is the same, health checks aside.
LEMMA PartsDetermine ==
    ASSUME NEW c, NEW d, Parts(c) = Parts(d)
    PROVE  /\ DOMAIN c = DOMAIN d
           /\ \A l \in DOMAIN c : /\ c[l].targets = d[l].targets
                                  /\ c[l].filters = d[l].filters
<1>1. ASSUME NEW e, NEW l, NEW kind, NEW x
      PROVE  <<l, <<kind, x>>>> \in Parts(e) <=>
               /\ l \in DOMAIN e
               /\ \/ kind = "listener" /\ x = Unset
                  \/ kind = "target" /\ x \in e[l].targets
                  \/ kind = "filter" /\ x \in e[l].filters
  BY DEF Parts
<1>2. ASSUME NEW l
      PROVE  /\ l \in DOMAIN c <=> <<l, <<"listener", Unset>>>> \in Parts(c)
             /\ l \in DOMAIN d <=> <<l, <<"listener", Unset>>>> \in Parts(d)
  BY <1>1
<1>3. DOMAIN c = DOMAIN d
  BY <1>2
<1>4. ASSUME NEW l \in DOMAIN c, NEW x
      PROVE  /\ x \in c[l].targets <=> x \in d[l].targets
             /\ x \in c[l].filters <=> x \in d[l].filters
  <2>1. /\ x \in c[l].targets <=> <<l, <<"target", x>>>> \in Parts(c)
        /\ x \in d[l].targets <=> <<l, <<"target", x>>>> \in Parts(d)
        /\ x \in c[l].filters <=> <<l, <<"filter", x>>>> \in Parts(c)
        /\ x \in d[l].filters <=> <<l, <<"filter", x>>>> \in Parts(d)
    BY <1>1, <1>3
  <2> QED
    BY <2>1
<1> QED
  BY <1>3, <1>4

\* Requests that ask for the same have the same listeners, and the same targets
\* and filters unless they ask for no listener at all.
LEMMA AsksDetermine ==
    ASSUME NEW q, NEW r, Asks(q) = Asks(r)
    PROVE  /\ Listeners(q) = Listeners(r)
           /\ Listeners(q) # {} => Targets(q) = Targets(r) /\ Filters(q) = Filters(r)
<1>1. ASSUME NEW p, NEW l, NEW kind, NEW x
      PROVE  <<l, <<kind, x>>>> \in Asks(p) <=>
               /\ l \in Listeners(p)
               /\ \/ kind = "listener" /\ x = Unset
                  \/ kind = "target" /\ x \in Targets(p)
                  \/ kind = "filter" /\ x \in Filters(p)
  BY DEF Asks
<1>2. ASSUME NEW l
      PROVE  /\ l \in Listeners(q) <=> <<l, <<"listener", Unset>>>> \in Asks(q)
             /\ l \in Listeners(r) <=> <<l, <<"listener", Unset>>>> \in Asks(r)
  BY <1>1
<1>3. Listeners(q) = Listeners(r)
  BY <1>2
<1>4. ASSUME NEW l \in Listeners(q), NEW x
      PROVE  /\ x \in Targets(q) <=> x \in Targets(r)
             /\ x \in Filters(q) <=> x \in Filters(r)
  <2>1. /\ x \in Targets(q) <=> <<l, <<"target", x>>>> \in Asks(q)
        /\ x \in Targets(r) <=> <<l, <<"target", x>>>> \in Asks(r)
        /\ x \in Filters(q) <=> <<l, <<"filter", x>>>> \in Asks(q)
        /\ x \in Filters(r) <=> <<l, <<"filter", x>>>> \in Asks(r)
    BY <1>1, <1>3
  <2> QED
    BY <2>1
<1> QED
  BY <1>3, <1>4

\* Progress for a request is progress for every one that asks for the same.
LEMMA SameAsks ==
    ASSUME NEW q, NEW r, Asks(q) = Asks(r), Progress(q)
    PROVE  Progress(r)
<1>1. /\ Listeners(q) = Listeners(r)
      /\ Listeners(q) # {} => Targets(q) = Targets(r) /\ Filters(q) = Filters(r)
  BY AsksDetermine
<1>2. CASE Listeners(r) = {}
  BY <1>1, <1>2 DEF Progress
<1>3. CASE Listeners(r) # {}
  BY <1>1, <1>3 DEF Progress, Closer
<1> QED
  BY <1>2, <1>3

\* What leaves the parts alone is progress for everyone.
LEMMA SameParts ==
    ASSUME Parts(lb') = Parts(lb), NEW r
    PROVE  Progress(r)
  BY PartsDetermine DEF Progress, Closer

LEMMA SettledKept ==
    ASSUME NEW r, NEW l \in Listeners(r), Settled(l, r), Progress(r)
    PROVE  Settled(l, r)'
<1>1. l \in DOMAIN lb' /\ Closer(lb[l], lb'[l], r)
  BY DEF Settled, Progress
<1>2. lb[l].targets = Targets(r) /\ lb[l].filters = Filters(r)
  BY DEF Settled
<1>3. lb'[l].targets = Targets(r) /\ lb'[l].filters = Filters(r)
  BY <1>1, <1>2 DEF Closer
<1> QED
  BY <1>1, <1>3 DEF Settled

\* The locals of caller w do not change.
Suspended(w) ==
    /\ request'[w] = request[w] /\ current'[w] = current[w]

LEMMA LagsKept ==
    ASSUME NEW w \in Worker, DescriptionLags(w), Progress(request[w]), Suspended(w)
    PROVE  DescriptionLags(w)'
<1>1. Wanted(w)' = Wanted(w)
  BY DEF Wanted, Suspended
<1>2. DOMAIN lb' \subseteq DOMAIN current[w] \union Wanted(w)
  BY DEF DescriptionLags, Progress, Wanted
<1>3. ASSUME NEW l \in DOMAIN current[w] \intersect Wanted(w)
      PROVE  l \in DOMAIN lb' /\ Closer(current[w][l], lb'[l], request[w])
  <2>1. l \in DOMAIN lb /\ Closer(current[w][l], lb[l], request[w])
    BY DEF DescriptionLags
  <2>2. l \in DOMAIN lb' /\ Closer(lb[l], lb'[l], request[w])
    BY <2>1 DEF Progress, Wanted
  <2> QED
    BY <2>1, <2>2, CloserTransitive
<1>4. \A s, t : Closer(s, t, request'[w]) <=> Closer(s, t, request[w])
  BY DEF Suspended
<1> QED
  BY <1>1, <1>2, <1>3, <1>4 DEF DescriptionLags, Suspended, Closer

LEMMA Rely ==
    ASSUME NEW w \in Worker, CallerInv(w), Suspended(w),
           pc'[w] = pc[w], todo'[w] = todo[w], at'[w] = at[w],
           Progress(request[w])
    PROVE  CallerInv(w)'
<1> DEFINE r == request[w]
<1> USE DEF Suspended
<1>1. KindInv(w)'
  BY DEF CallerInv, KindInv
<1>2. ASSUME pc[w] \in Provisioning PROVE ProvisioningInv(w)'
  <2>1. ProvisioningInv(w) /\ Progress(r)
    BY <1>2 DEF CallerInv, Ensuring
  <2>2. DescriptionLags(w)'
    BY <1>2, <2>1, LagsKept DEF ProvisioningInv
  <2>3. Wanted(w)' = Wanted(w) /\ Fresh(w)' = Fresh(w)
    BY DEF Wanted, Fresh
  <2>4. Wanted(w) \ todo[w] \subseteq DOMAIN lb'
    BY <1>2, <2>1 DEF ProvisioningInv, Progress, Wanted
  <2>5. ASSUME pc[w] # "create"
        PROVE  /\ at[w] \in Wanted(w) \ todo[w]
               /\ lb'[at[w]].targets \subseteq Targets(r)
               /\ lb'[at[w]].filters \subseteq Filters(r)
               /\ pc[w] = "filter" => Targets(r) \subseteq lb'[at[w]].targets
    BY <1>2, <2>1, <2>5 DEF ProvisioningInv, Progress, Wanted, Closer
  <2>6. ASSUME Fresh(w), NEW l \in Wanted(w) \ todo[w], ~(pc[w] # "create" /\ l = at[w])
        PROVE  Settled(l, r)'
    BY <1>2, <2>1, <2>6, SettledKept DEF ProvisioningInv, Wanted
  <2> QED
    BY <1>2, <2>1, <2>2, <2>3, <2>4, <2>5, <2>6
    DEF ProvisioningInv, Settled, Provisioning
<1>3. ASSUME pc[w] \in {"delete", "redescribe"} PROVE DeleteInv(w)'
  BY <1>3 DEF CallerInv, Ensuring, DeleteInv, Progress, Wanted
<1>4. ASSUME pc[w] \in Reconciling PROVE ReconcileInv(w)'
  <2>1. ReconcileInv(w) /\ Progress(r)
    BY <1>4 DEF CallerInv, Ensuring
  <2>2. DescriptionLags(w)'
    BY <1>4, <2>1, LagsKept DEF ReconcileInv
  <2>3. Wanted(w)' = Wanted(w)
    BY DEF Wanted
  <2>4. ASSUME NEW l \in DOMAIN current[w] \ todo[w], ~(pc[w] # "reconcile" /\ l = at[w])
        PROVE  Settled(l, r)'
    BY <1>4, <2>1, <2>4, SettledKept DEF ReconcileInv, Wanted
  <2>5. ASSUME pc[w] # "reconcile"
        PROVE  /\ at[w] \in Wanted(w) /\ at[w] \in DOMAIN lb
               /\ Closer(lb[at[w]], lb'[at[w]], r)
    BY <1>4, <2>1, <2>5 DEF ReconcileInv, DescriptionLags, Progress, Wanted
  <2>6. pc[w] = "withdraw" => Targets(r) \subseteq lb'[at[w]].targets
    BY <1>4, <2>1, <2>5 DEF ReconcileInv, Closer
  <2>7. pc[w] = "refilter" => lb'[at[w]].targets = Targets(r)
    BY <1>4, <2>1, <2>5 DEF ReconcileInv, Closer
  <2> QED
    BY <1>4, <2>1, <2>2, <2>3, <2>4, <2>6, <2>7 DEF ReconcileInv, Settled
<1>5. ASSUME pc[w] = "return" PROVE ReturnInv(w)'
  <2>1. Matches(lb, r) /\ Progress(r)
    BY <1>5 DEF CallerInv, Ensuring, ReturnInv
  <2>2. ASSUME NEW l \in Listeners(r) PROVE Settled(l, r)'
    BY <2>1, <2>2, SettledKept DEF Matches, Settled
  <2>3. DOMAIN lb' = Listeners(r)
    BY <2>1, <2>2 DEF Matches, Progress, Settled
  <2> QED
    BY <2>2, <2>3 DEF ReturnInv, Matches, Settled
<1>6. DeletingInv(w)'
  <2>1. pc[w] \in Deleting => DOMAIN lb' \subseteq DOMAIN lb
    BY DEF CallerInv, KindInv, Progress, Listeners, NoRequest
  <2> QED
    BY <2>1 DEF CallerInv, DeletingInv, Deleting
<1> QED
  BY <1>1, <1>2, <1>3, <1>4, <1>5, <1>6
  DEF CallerInv, ProvisioningInv, DeleteInv, ReconcileInv, ReturnInv

LEMMA CallerIsLocal ==
    ASSUME NEW w \in Worker, CallerInv(w)
    PROVE  LocalInv(w)
  BY DEF CallerInv, LocalInv, ProvisioningInv, DeleteInv, ReconcileInv, Provisioning,
         Reconciling

\* Fails, returns, and everything else that leaves the load balancer alone is
\* progress; so is what the steps that change it do, opposed or not.
LEMMA Guarantee ==
    ASSUME WellTyped, NEW w \in Worker, LocalInv(w), Step(w)
    PROVE  Progress(request[w])
<1> DEFINE r == request[w]
<1>1. ASSUME lb' = lb PROVE Progress(r)
  BY <1>1, NoChangeIsProgress
<1>2. ASSUME Fail(w) PROVE Progress(r)
  BY <1>1, <1>2 DEF Fail
<1>3. /\ r \in Requests \union {NoRequest}
      /\ Targets(r) \subseteq Instance
      /\ Filters(r) \subseteq Address
      /\ r.health \in HealthCheck
  BY RequestTypes DEF WellTyped, Request
<1>4. ASSUME \/ DescribeInstances(w) \/ DescribeLoadBalancers(w) \/ Redescribe(w)
             \/ ReconcileListener(w) \/ Return(w) \/ CheckExists(w)
             \/ FindListeners(w) \/ Confirm(w)
      PROVE  Progress(r)
  BY <1>1, <1>4
  DEF DescribeInstances, DescribeLoadBalancers, Redescribe, ReconcileListener,
      Return, CheckExists, FindListeners, Confirm, cloud, Fail
<1>5. ASSUME CreateListener(w) PROVE Progress(r)
  <2>1. pc[w] = "create"
    BY <1>5 DEF CreateListener
  <2>2. CASE lb' = lb
    BY <1>1, <2>2
  <2>3. CASE lb' # lb
    <3>1. PICK l \in todo[w] :
            (CanCreate(l) \/ CanRegisterPort(l)) /\ AddListener(l)
      BY <1>5, <2>3 DEF CreateListener, Fail
    <3>2. l \in Listener /\ PortFree(l)
      BY <3>1 DEF CanCreate, CanRegisterPort, Exists, PortFree, WellTyped
    <3>3. l \in Listeners(r)
      BY <2>1 DEF LocalInv, Provisioning, Wanted
    <3>4. /\ DOMAIN lb' = DOMAIN lb \union {l}
          /\ lb'[l] = NewSettings
          /\ \A m \in DOMAIN lb : lb'[m] = lb[m]
      BY <3>1, <3>2, AddListenerType DEF WellTyped
    <3> QED
      BY <3>3, <3>4 DEF Progress, Closer, NewSettings
  <2> QED
    BY <2>2, <2>3
<1>6. ASSUME ConfigureHealthCheck(w) PROVE Progress(r)
  <2>1. CASE at[w] \in DOMAIN lb /\ SetHealth(at[w], r.health)
    BY <1>3, <2>1, SetHealthType DEF WellTyped, Progress, Closer
  <2> QED
    BY <1>2, <1>6, <2>1 DEF ConfigureHealthCheck
<1>7. ASSUME NEW is \in SUBSET Targets(r), at[w] \in DOMAIN lb, AddTargets(at[w], is),
             at[w] \in Listeners(r)
      PROVE  Progress(r)
  BY <1>3, <1>7, AddTargetsType DEF WellTyped, Progress, Closer
<1>8. ASSUME NEW is, is \intersect Targets(r) = {}, at[w] \in DOMAIN lb,
             RemoveTargets(at[w], is), at[w] \in Listeners(r)
      PROVE  Progress(r)
  BY <1>8, RemoveTargetsType DEF WellTyped, Progress, Closer
<1>9. ASSUME NEW add \in SUBSET Filters(r), NEW drop, drop \intersect Filters(r) = {},
             at[w] \in DOMAIN lb, ChangeFilters(at[w], add, drop), at[w] \in Listeners(r)
      PROVE  Progress(r)
  <2>1. /\ DOMAIN lb' = DOMAIN lb
        /\ lb'[at[w]].targets = lb[at[w]].targets
        /\ lb'[at[w]].filters = (lb[at[w]].filters \union add) \ drop
        /\ \A m \in DOMAIN lb \ {at[w]} : lb'[m] = lb[m]
    BY <1>3, <1>9, ChangeFiltersType DEF WellTyped
  <2>2. Closer(lb[at[w]], lb'[at[w]], r)
    BY <1>9, <2>1 DEF Closer
  <2>3. \A m \in DOMAIN lb \ {at[w]} : Closer(lb[m], lb'[m], r)
    BY <2>1 DEF Closer
  <2> QED
    BY <1>9, <2>1, <2>2, <2>3 DEF Progress
<1>10. ASSUME pc[w] \in {"register", "filter", "enroll", "withdraw", "refilter"}
       PROVE  at[w] \in Listeners(r)
  BY <1>10 DEF LocalInv, Provisioning, Reconciling, Wanted
<1>11. ASSUME RegisterAll(w) PROVE Progress(r)
  BY <1>2, <1>7, <1>10, <1>11 DEF RegisterAll, CanRegister
<1>12. ASSUME SetAllFilters(w) PROVE Progress(r)
  BY <1>2, <1>9, <1>10, <1>12 DEF SetAllFilters, CanSetFilter
<1>13. ASSUME NEW l, l \notin Listeners(r), RemoveListener(l) PROVE Progress(r)
  <2>1. /\ DOMAIN lb' = DOMAIN lb \ {l}
        /\ \A m \in DOMAIN lb' : lb'[m] = lb[m]
    BY <1>13, RemoveListenerType DEF WellTyped
  <2>2. \A m \in DOMAIN lb' : Closer(lb[m], lb'[m], r)
    BY <2>1 DEF Closer
  <2> QED
    BY <1>13, <2>1, <2>2 DEF Progress
<1>14. ASSUME DeleteListener(w) PROVE Progress(r)
  <2>1. PICK l \in todo[w] : RemoveListener(l) \/ Fail(w)
    BY <1>14 DEF DeleteListener
  <2>2. l \notin Listeners(r)
    BY <1>14 DEF DeleteListener, LocalInv, Wanted
  <2> QED
    BY <1>2, <1>13, <2>1, <2>2
<1>15. ASSUME RegisterInstances(w) PROVE Progress(r)
  BY <1>2, <1>7, <1>10, <1>15 DEF RegisterInstances, CanRegister, ToRegister
<1>16. ASSUME DeregisterInstances(w) PROVE Progress(r)
  BY <1>2, <1>8, <1>10, <1>16 DEF DeregisterInstances, CanDeregister, ToDeregister
<1>17. ASSUME SetFilter(w) PROVE Progress(r)
  BY <1>2, <1>9, <1>10, <1>17 DEF SetFilter, CanSetFilter, ToAuthorize, ToRevoke
<1>18. ASSUME DeleteFound(w) PROVE Progress(r)
  <2>1. PICK l \in todo[w] : RemoveListener(l) \/ Fail(w)
    BY <1>18 DEF DeleteFound
  <2>2. Listeners(r) = {}
    BY <1>18 DEF DeleteFound, LocalInv, KindInv, Deleting, Listeners, NoRequest
  <2> QED
    BY <1>2, <1>13, <2>1, <2>2
<1> QED
  BY <1>4, <1>5, <1>6, <1>11, <1>12, <1>14, <1>15, <1>16, <1>17, <1>18 DEF Step

-----------------------------------------------------------------------------
(* A caller's own steps.                                                   *)

\* Between two requests of the reconcile loop, for the listener at[w].
AtListener(w) ==
    /\ Proper(request[w])
    /\ DescriptionLags(w)
    /\ Wanted(w) \subseteq DOMAIN current[w]
    /\ todo[w] \subseteq DOMAIN current[w]
    /\ at[w] \in DOMAIN current[w] \ todo[w]
    /\ \A l \in DOMAIN current[w] \ todo[w] :
         l \in Wanted(w) /\ (l = at[w] \/ Settled(l, request[w]))

LEMMA LeaveInv ==
    ASSUME WellTyped, NEW w \in Worker, NEW label \in Idle, Leave(w, label)
    PROVE  CallerInv(w)'
<1>1. pc'[w] = label
  BY GotoType DEF Leave, Control
<1> QED
  BY <1>1
  DEF CallerInv, KindInv, ProvisioningInv, DeleteInv, ReconcileInv, ReturnInv,
      DeletingInv, Idle, Ensuring, Provisioning, Reconciling, Deleting

LEMMA FailInv ==
    ASSUME WellTyped, NEW w \in Worker, Fail(w)
    PROVE  CallerInv(w)'
  BY LeaveInv DEF Fail, Idle

\* The labels at which nothing is known of the load balancer.
LEMMA EarlyInv ==
    ASSUME NEW w \in Worker,
           \/ pc'[w] = "check" /\ request'[w] # NoRequest
           \/ pc'[w] = "lookup" /\ request'[w] # NoRequest /\ request'[w].ports # {}
           \/ pc'[w] = "describe" /\ Proper(request'[w])
    PROVE  CallerInv(w)'
  BY DEF CallerInv, KindInv, ProvisioningInv, DeleteInv, ReconcileInv, ReturnInv,
         DeletingInv, Ensuring, Provisioning, Reconciling, Deleting

\* The listener is settled: the next one, or the end.
LEMMA NextReconcileInv ==
    ASSUME NEW w \in Worker, AtListener(w)', Settled(at[w], request[w])',
           pc'[w] = NextReconcile(todo[w])'
    PROVE  CallerInv(w)'
<1>1. CASE pc'[w] = "reconcile"
  <2>1. ReconcileInv(w)'
    BY <1>1 DEF ReconcileInv, AtListener
  <2> QED
    BY <1>1, <2>1
    DEF CallerInv, KindInv, ProvisioningInv, DeleteInv, ReturnInv, DeletingInv,
        AtListener, Provisioning, Deleting
<1>2. CASE pc'[w] = "return" /\ todo'[w] = {}
  <2>1. \A l \in DOMAIN current'[w] : l \in Wanted(w)' /\ Settled(l, request[w])'
    BY <1>2 DEF AtListener
  <2>2. DOMAIN lb' = Wanted(w)'
    BY <2>1 DEF AtListener, DescriptionLags
  <2>3. Matches(lb, request[w])'
    BY <2>1, <2>2 DEF Matches, Settled, AtListener, Wanted
  <2> QED
    BY <1>2, <2>3
    DEF CallerInv, KindInv, ProvisioningInv, DeleteInv, ReturnInv, DeletingInv,
        ReconcileInv, AtListener, Provisioning, Deleting, Reconciling
<1> QED
  BY <1>1, <1>2 DEF NextReconcile

\* The targets are right: the filters, if they were described otherwise.
LEMMA FromFilterInv ==
    ASSUME NEW w \in Worker, AtListener(w)',
           lb'[at'[w]].targets = Targets(request'[w]),
           pc'[w] = FromFilter(request[w], current[w][at[w]], todo[w])'
    PROVE  CallerInv(w)'
<1>1. /\ at'[w] \in DOMAIN lb'
      /\ Closer(current[w][at[w]], lb[at[w]], request[w])'
  BY DEF AtListener, DescriptionLags
<1>2. CASE Filters(request'[w]) # current'[w][at'[w]].filters
  <2>1. pc'[w] = "refilter"
    BY <1>2 DEF FromFilter, ToAuthorize, ToRevoke
  <2>2. ReconcileInv(w)'
    BY <2>1 DEF ReconcileInv, AtListener
  <2> QED
    BY <2>1, <2>2
    DEF CallerInv, KindInv, ProvisioningInv, DeleteInv, ReturnInv, DeletingInv,
        AtListener, Provisioning, Deleting
<1>3. CASE Filters(request'[w]) = current'[w][at'[w]].filters
  <2>1. lb'[at'[w]].filters = Filters(request'[w])
    BY <1>1, <1>3 DEF Closer
  <2>2. Settled(at[w], request[w])'
    BY <1>1, <2>1 DEF Settled
  <2>3. pc'[w] = NextReconcile(todo[w])'
    BY <1>3 DEF FromFilter, ToAuthorize, ToRevoke
  <2> QED
    BY <2>2, <2>3, NextReconcileInv
<1> QED
  BY <1>2, <1>3

\* Nothing wanted is missing from the targets: what is in excess, if anything.
LEMMA FromWithdrawInv ==
    ASSUME NEW w \in Worker, AtListener(w)',
           Targets(request'[w]) \subseteq lb'[at'[w]].targets,
           pc'[w] = FromWithdraw(request[w], current[w][at[w]], todo[w])'
    PROVE  CallerInv(w)'
<1>1. Closer(current[w][at[w]], lb[at[w]], request[w])'
  BY DEF AtListener, DescriptionLags
<1>2. CASE current'[w][at'[w]].targets \ Targets(request'[w]) # {}
  <2>1. pc'[w] = "withdraw"
    BY <1>2 DEF FromWithdraw, ToDeregister
  <2>2. ReconcileInv(w)'
    BY <2>1 DEF ReconcileInv, AtListener
  <2> QED
    BY <2>1, <2>2
    DEF CallerInv, KindInv, ProvisioningInv, DeleteInv, ReturnInv, DeletingInv,
        AtListener, Provisioning, Deleting
<1>3. CASE current'[w][at'[w]].targets \ Targets(request'[w]) = {}
  <2>1. lb'[at'[w]].targets = Targets(request'[w])
    BY <1>1, <1>3 DEF Closer
  <2>2. pc'[w] = FromFilter(request[w], current[w][at[w]], todo[w])'
    BY <1>3 DEF FromWithdraw, ToDeregister
  <2> QED
    BY <2>1, <2>2, FromFilterInv
<1> QED
  BY <1>2, <1>3

LEMMA FromEnrollInv ==
    ASSUME NEW w \in Worker, AtListener(w)',
           pc'[w] = FromEnroll(request[w], current[w][at[w]], todo[w])'
    PROVE  CallerInv(w)'
<1>1. Closer(current[w][at[w]], lb[at[w]], request[w])'
  BY DEF AtListener, DescriptionLags
<1>2. CASE Targets(request'[w]) \ current'[w][at'[w]].targets # {}
  <2>1. pc'[w] = "enroll"
    BY <1>2 DEF FromEnroll, ToRegister
  <2>2. ReconcileInv(w)'
    BY <2>1 DEF ReconcileInv, AtListener
  <2> QED
    BY <2>1, <2>2
    DEF CallerInv, KindInv, ProvisioningInv, DeleteInv, ReturnInv, DeletingInv,
        AtListener, Provisioning, Deleting
<1>3. CASE Targets(request'[w]) \ current'[w][at'[w]].targets = {}
  <2>1. Targets(request'[w]) \subseteq lb'[at'[w]].targets
    BY <1>1, <1>3 DEF Closer
  <2>2. pc'[w] = FromWithdraw(request[w], current[w][at[w]], todo[w])'
    BY <1>3 DEF FromEnroll, ToRegister
  <2> QED
    BY <2>1, <2>2, FromWithdrawInv
<1> QED
  BY <1>2, <1>3

\* A request of the reconcile loop leaves what is known of other listeners.
LEMMA AtListenerKept ==
    ASSUME NEW w \in Worker, ReconcileInv(w), pc[w] \in Reconciling \ {"reconcile"},
           Proper(request[w]), Progress(request[w]), Suspended(w),
           todo'[w] = todo[w], at'[w] = at[w]
    PROVE  AtListener(w)'
<1>1. DescriptionLags(w)'
  BY LagsKept DEF ReconcileInv
<1>2. Wanted(w)' = Wanted(w)
  BY DEF Wanted, Suspended
<1>3. ASSUME NEW l \in DOMAIN current[w] \ todo[w], l # at[w]
      PROVE  Settled(l, request[w])'
  <2>1. l \in Listeners(request[w]) /\ Settled(l, request[w])
    BY <1>3 DEF ReconcileInv, Wanted
  <2> QED
    BY <2>1, SettledKept DEF Settled, Suspended
<1> QED
  BY <1>1, <1>2, <1>3 DEF AtListener, ReconcileInv, Suspended, Settled

\* A description just taken lags behind nothing.
LEMMA DescribedInv ==
    ASSUME NEW w \in Worker, lb' = lb, current'[w] = lb
    PROVE  DescriptionLags(w)'
  BY DEF DescriptionLags, Closer

LEMMA CreateListenerInv ==
    ASSUME WellTyped, NEW w \in Worker, CallerInv(w), CreateListener(w)
    PROVE  CallerInv(w)'
<1>1. PICK l \in todo[w] :
         IF IF Fresh(w) /\ todo[w] = Wanted(w) THEN CanCreate(l) ELSE CanRegisterPort(l)
           THEN /\ AddListener(l)
                /\ Goto(w, "health")
                /\ todo' = [todo EXCEPT ![w] = @ \ {l}]
                /\ at' = [at EXCEPT ![w] = l]
                /\ UNCHANGED <<request, current>>
           ELSE Fail(w)
  BY DEF CreateListener
<1>2. pc[w] = "create"
  BY DEF CreateListener
<1>3. CASE Fail(w)
  BY <1>3, FailInv
<1>4. CASE /\ CanCreate(l) \/ CanRegisterPort(l)
           /\ AddListener(l)
           /\ Goto(w, "health")
           /\ todo' = [todo EXCEPT ![w] = @ \ {l}]
           /\ at' = [at EXCEPT ![w] = l]
           /\ UNCHANGED <<request, current>>
  <2>1. ProvisioningInv(w) /\ KindInv(w) /\ Progress(request[w])
    BY <1>2, Guarantee, CallerIsLocal DEF CallerInv, Step, Ensuring, Provisioning
  <2>2. l \in Listener /\ PortFree(l)
    BY <1>4 DEF CanCreate, CanRegisterPort, Exists, PortFree, WellTyped
  <2>3. /\ DOMAIN lb' = DOMAIN lb \union {l}
        /\ lb'[l] = NewSettings
    BY <1>4, <2>2, AddListenerType DEF WellTyped
  <2>4. pc'[w] = "health" /\ todo'[w] = todo[w] \ {l} /\ at'[w] = l
    BY <1>4, GotoType, LoopType DEF WellTyped, Control, Ensuring, Provisioning
  <2>5. Suspended(w)
    BY <1>4 DEF Suspended
  <2>6. DescriptionLags(w)'
    BY <1>2, <2>1, <2>5, LagsKept DEF ProvisioningInv, Provisioning
  <2>7. Wanted(w)' = Wanted(w) /\ Fresh(w)' = Fresh(w)
    BY <2>5 DEF Wanted, Fresh, Suspended
  <2>8. l \in Wanted(w) /\ todo[w] \subseteq Wanted(w) /\ Wanted(w) \ todo[w] \subseteq DOMAIN lb
    BY <1>2, <2>1 DEF ProvisioningInv, Provisioning
  <2>9. ASSUME Fresh(w), NEW m \in Wanted(w) \ todo[w]
        PROVE  Settled(m, request[w])'
    <3>1. m \in Listeners(request[w]) /\ Settled(m, request[w])
      BY <1>2, <2>1, <2>9 DEF ProvisioningInv, Provisioning, Wanted
    <3> QED
      BY <2>1, <2>5, <3>1, SettledKept DEF Settled, Suspended
  <2>10. ProvisioningInv(w)'
    BY <2>3, <2>4, <2>5, <2>6, <2>7, <2>8, <2>9
    DEF ProvisioningInv, NewSettings, Suspended
  <2> QED
    BY <2>1, <2>4, <2>5, <2>10, <1>2
    DEF CallerInv, KindInv, DeleteInv, ReconcileInv, ReturnInv, DeletingInv,
        Suspended, Ensuring, Provisioning, Reconciling, Deleting
<1> QED
  BY <1>1, <1>3, <1>4

\* A request for the new listener at[w]: what it must achieve.
LEMMA ProvisionStepInv ==
    ASSUME NEW w \in Worker, KindInv(w), ProvisioningInv(w), Progress(request[w]),
           Suspended(w), todo'[w] = todo[w], at'[w] = at[w],
           pc[w] \in {"health", "register", "filter"},
           pc'[w] \in {"register", "filter"},
           pc'[w] = "filter" => Targets(request[w]) \subseteq lb'[at[w]].targets
    PROVE  CallerInv(w)'
<1>1. DescriptionLags(w)'
  BY LagsKept DEF ProvisioningInv, Provisioning
<1>2. Wanted(w)' = Wanted(w) /\ Fresh(w)' = Fresh(w)
  BY DEF Wanted, Fresh, Suspended
<1>3. /\ todo[w] \subseteq Wanted(w)
      /\ Wanted(w) \ todo[w] \subseteq DOMAIN lb
      /\ at[w] \in Wanted(w) \ todo[w]
      /\ lb[at[w]].targets \subseteq Targets(request[w])
      /\ lb[at[w]].filters \subseteq Filters(request[w])
  BY DEF ProvisioningInv, Provisioning
<1>4. Wanted(w) \ todo[w] \subseteq DOMAIN lb'
  BY <1>3 DEF Progress, Wanted
<1>5. Closer(lb[at[w]], lb'[at[w]], request[w])
  BY <1>3 DEF Progress, Wanted
<1>6. /\ lb'[at[w]].targets \subseteq Targets(request[w])
      /\ lb'[at[w]].filters \subseteq Filters(request[w])
  BY <1>3, <1>5 DEF Closer
<1>7. ASSUME Fresh(w), NEW l \in Wanted(w) \ todo[w], l # at[w]
      PROVE  Settled(l, request[w])'
  <2>1. l \in Listeners(request[w]) /\ Settled(l, request[w])
    BY <1>7 DEF ProvisioningInv, Provisioning, Wanted
  <2> QED
    BY <2>1, SettledKept DEF Settled, Suspended
<1>8. ProvisioningInv(w)'
  BY <1>1, <1>2, <1>3, <1>4, <1>6, <1>7 DEF ProvisioningInv, Suspended
<1> QED
  BY <1>8
  DEF CallerInv, KindInv, DeleteInv, ReconcileInv, ReturnInv, DeletingInv,
      Suspended, Ensuring, Provisioning, Reconciling, Deleting

LEMMA SetAllFiltersInv ==
    ASSUME WellTyped, NEW w \in Worker, CallerInv(w), SetAllFilters(w)
    PROVE  CallerInv(w)'
<1> DEFINE r == request[w]
<1>1. CASE Fail(w)
  BY <1>1, FailInv
<1>2. CASE CanSetFilter(at[w], Filters(r), {}) /\ ~Fail(w)
  <2>1. /\ pc[w] = "filter"
        /\ ChangeFilters(at[w], Filters(r), {})
        /\ Goto(w, NextCreate(w, todo[w]))
        /\ todo' = [todo EXCEPT ![w] =
                      IF todo[w] = {} /\ ~Fresh(w) THEN Unwanted(w) ELSE @]
        /\ UNCHANGED <<request, current>>
    BY <1>2 DEF SetAllFilters
  <2>2. ProvisioningInv(w) /\ KindInv(w) /\ Progress(r)
    BY <2>1, Guarantee, CallerIsLocal DEF CallerInv, Step, Ensuring, Provisioning
  <2>3. /\ pc'[w] = NextCreate(w, todo[w])
        /\ todo'[w] = IF todo[w] = {} /\ ~Fresh(w) THEN Unwanted(w) ELSE todo[w]
    BY <2>1, GotoType, ControlLabels DEF WellTyped
  <2>4. Suspended(w)
    BY <2>1 DEF Suspended
  <2>5. DescriptionLags(w)'
    BY <2>1, <2>2, <2>4, LagsKept DEF ProvisioningInv, Provisioning
  <2>6. Wanted(w)' = Wanted(w) /\ Fresh(w)' = Fresh(w)
    BY <2>4 DEF Wanted, Fresh, Suspended
  <2>7. /\ todo[w] \subseteq Wanted(w)
        /\ Wanted(w) \ todo[w] \subseteq DOMAIN lb
        /\ at[w] \in Wanted(w) \ todo[w]
        /\ lb[at[w]].targets = Targets(r)
        /\ lb[at[w]].filters \subseteq Filters(r)
    BY <2>1, <2>2 DEF ProvisioningInv, Provisioning
  <2>8. Wanted(w) \ todo[w] \subseteq DOMAIN lb'
    BY <2>2, <2>7 DEF Progress, Wanted
  <2>9. /\ at[w] \in DOMAIN lb'
        /\ lb'[at[w]].targets = Targets(r)
        /\ lb'[at[w]].filters = Filters(r)
    <3>1. Filters(r) \in SUBSET Address
      BY RequestTypes DEF WellTyped
    <3>2. at[w] \in DOMAIN lb
      BY <2>7
    <3>3. /\ lb'[at[w]].targets = lb[at[w]].targets
          /\ lb'[at[w]].filters = (lb[at[w]].filters \union Filters(r)) \ {}
      BY <2>1, <3>1, <3>2, ChangeFiltersType DEF WellTyped
    <3> QED
      BY <2>7, <2>8, <3>3
  <2>10. ASSUME Fresh(w), NEW l \in Wanted(w) \ todo[w]
         PROVE  Settled(l, r)'
    <3>1. CASE l = at[w]
      BY <2>4, <2>9, <3>1 DEF Settled, Suspended
    <3>2. CASE l # at[w]
      <4>1. l \in Listeners(r) /\ Settled(l, r)
        BY <2>1, <2>2, <2>10, <3>2 DEF ProvisioningInv, Provisioning, Wanted
      <4> QED
        BY <2>2, <2>4, <4>1, SettledKept DEF Settled, Suspended
    <3> QED
      BY <3>1, <3>2
  <2>11. CASE todo[w] # {}
    <3>1. pc'[w] = "create" /\ todo'[w] = todo[w]
      BY <2>3, <2>11 DEF NextCreate
    <3>2. ProvisioningInv(w)'
      BY <2>4, <2>5, <2>6, <2>7, <2>8, <2>10, <3>1 DEF ProvisioningInv
    <3> QED
      BY <2>1, <2>2, <2>4, <3>1, <3>2
      DEF CallerInv, KindInv, DeleteInv, ReconcileInv, ReturnInv, DeletingInv,
          Suspended, Ensuring, Provisioning, Reconciling, Deleting
  <2>12. CASE todo[w] = {} /\ Fresh(w)
    <3>1. pc'[w] = "return"
      BY <2>3, <2>12 DEF NextCreate
    <3>2. DOMAIN lb' = Wanted(w)
      BY <2>5, <2>6, <2>8, <2>12 DEF DescriptionLags, Fresh
    <3>3. Matches(lb, r)'
      BY <2>4, <2>10, <2>12, <3>2 DEF Matches, Settled, Wanted, Suspended
    <3> QED
      BY <2>1, <2>2, <2>4, <3>1, <3>3
      DEF CallerInv, KindInv, ProvisioningInv, DeleteInv, ReconcileInv, ReturnInv,
          DeletingInv, Suspended, Ensuring, Provisioning, Reconciling, Deleting
  <2>13. CASE todo[w] = {} /\ ~Fresh(w)
    <3>1. pc'[w] \in {"delete", "redescribe"} /\ todo'[w] = Unwanted(w)
      BY <2>3, <2>13 DEF NextCreate
    <3>2. DeleteInv(w)'
      BY <2>6, <2>8, <2>13, <3>1 DEF DeleteInv, Unwanted
    <3> QED
      BY <2>1, <2>2, <2>4, <3>1, <3>2
      DEF CallerInv, KindInv, ProvisioningInv, ReconcileInv, ReturnInv,
          DeletingInv, Suspended, Ensuring, Provisioning, Reconciling, Deleting
  <2> QED
    BY <2>11, <2>12, <2>13
<1> QED
  BY <1>1, <1>2 DEF SetAllFilters

LEMMA EnsureStepInv ==
    ASSUME WellTyped, NEW w \in Worker, CallerInv(w),
           \/ DescribeInstances(w) \/ DescribeLoadBalancers(w)
           \/ ConfigureHealthCheck(w) \/ RegisterAll(w)
           \/ DeleteListener(w) \/ Redescribe(w) \/ CheckExists(w)
    PROVE  CallerInv(w)'
<1> DEFINE r == request[w]
<1> USE DEF Suspended
<1>1. /\ KindInv(w)
      /\ pc[w] \in Ensuring => Progress(r)
      /\ pc[w] \in Ensuring \ {"lookup"} => Proper(r)
  BY Guarantee, CallerIsLocal DEF CallerInv, KindInv, Step
<1>2. CASE Fail(w)
  BY <1>2, FailInv
<1>3. ASSUME DescribeInstances(w), ~Fail(w) PROVE CallerInv(w)'
  <2>1. pc'[w] = "describe" /\ request' = request /\ Proper(r)
    BY <1>1, <1>3, GotoType
    DEF DescribeInstances, locals, Control, Ensuring, KindInv, Proper
  <2> QED
    BY <2>1, EarlyInv
<1>4. ASSUME CheckExists(w), ~Fail(w) PROVE CallerInv(w)'
  <2>1. pc'[w] = "lookup" /\ r # NoRequest /\ r.ports # {} /\ request' = request
    <3>1. Cardinality(r.ports) \in 1..MaxPorts /\ Goto(w, "lookup") /\ UNCHANGED locals
      BY <1>4 DEF CheckExists
    <3>2. r.ports # {}
      BY <3>1, FS_EmptySet
    <3>3. pc'[w] = "lookup"
      BY <3>1, GotoType DEF Control, Ensuring
    <3> QED
      BY <1>1, <1>4, <3>1, <3>2, <3>3 DEF CheckExists, KindInv, locals
  <2> QED
    BY <2>1, EarlyInv
<1>5. ASSUME DescribeLoadBalancers(w) PROVE CallerInv(w)'
  <2>1. /\ pc[w] = "describe" /\ lb' = lb /\ request' = request
        /\ current'[w] = lb
    BY <1>5 DEF DescribeLoadBalancers, cloud, WellTyped
  <2>2. DescriptionLags(w)' /\ Wanted(w)' = Wanted(w) /\ Proper(request'[w])
    BY <1>1, <2>1, DescribedInv DEF Wanted, Ensuring
  <2>3. CASE /\ Goto(w, "create")
             /\ todo' = [todo EXCEPT ![w] = Wanted(w) \ DOMAIN lb]
    <3>1. pc'[w] = "create" /\ todo'[w] = Wanted(w) \ DOMAIN lb
      BY <2>3, GotoType DEF WellTyped, Control, Ensuring, Provisioning
    <3>2. ProvisioningInv(w)'
      BY <2>1, <2>2, <3>1 DEF ProvisioningInv, Fresh
    <3> QED
      BY <2>2, <3>1, <3>2
      DEF CallerInv, KindInv, DeleteInv, ReconcileInv, ReturnInv, DeletingInv,
          Provisioning, Reconciling, Deleting
  <2>4. CASE /\ Wanted(w) \ DOMAIN lb = {}
             /\ Goto(w, "delete")
             /\ todo' = [todo EXCEPT ![w] = DOMAIN lb \ Wanted(w)]
    <3>1. pc'[w] = "delete" /\ todo'[w] = DOMAIN lb \ Wanted(w)
      BY <2>4, GotoType DEF WellTyped, Control, Ensuring
    <3>2. DeleteInv(w)'
      BY <2>1, <2>2, <2>4, <3>1 DEF DeleteInv
    <3> QED
      BY <2>2, <3>1, <3>2
      DEF CallerInv, KindInv, ProvisioningInv, ReconcileInv, ReturnInv, DeletingInv,
          Provisioning, Reconciling, Deleting
  <2>5. CASE /\ Wanted(w) \ DOMAIN lb = {}
             /\ Goto(w, "reconcile")
             /\ todo' = [todo EXCEPT ![w] = DOMAIN lb]
    <3>1. pc'[w] = "reconcile" /\ todo'[w] = DOMAIN lb
      BY <2>5, GotoType DEF WellTyped, Control, Ensuring, Reconciling
    <3>2. ReconcileInv(w)'
      BY <2>1, <2>2, <2>5, <3>1 DEF ReconcileInv
    <3> QED
      BY <2>2, <3>1, <3>2
      DEF CallerInv, KindInv, ProvisioningInv, DeleteInv, ReturnInv, DeletingInv,
          Provisioning, Reconciling, Deleting
  <2> QED
    BY <1>5, <2>3, <2>4, <2>5 DEF DescribeLoadBalancers
<1>6. ASSUME Redescribe(w), ~Fail(w) PROVE CallerInv(w)'
  <2>1. /\ pc[w] = "redescribe" /\ lb' = lb /\ request' = request
        /\ current'[w] = lb /\ todo'[w] = DOMAIN lb /\ pc'[w] = "reconcile"
    BY <1>6, GotoType DEF Redescribe, WellTyped, Control, Ensuring, Reconciling
  <2>2. DescriptionLags(w)' /\ Wanted(w)' = Wanted(w) /\ Proper(request'[w])
    BY <1>1, <2>1, DescribedInv DEF Wanted, Ensuring
  <2>3. ReconcileInv(w)'
    BY <2>1, <2>2 DEF ReconcileInv, CallerInv, DeleteInv
  <2> QED
    BY <2>1, <2>2, <2>3
    DEF CallerInv, KindInv, ProvisioningInv, DeleteInv, ReturnInv, DeletingInv,
        Provisioning, Reconciling, Deleting
<1>7. ASSUME ConfigureHealthCheck(w), ~Fail(w) PROVE CallerInv(w)'
  <2>1. /\ pc[w] = "health" /\ pc'[w] = "register"
        /\ UNCHANGED locals
    BY <1>7, GotoType DEF ConfigureHealthCheck, Control, Ensuring, Provisioning
  <2> QED
    BY <1>1, <2>1, ProvisionStepInv DEF CallerInv, locals, Ensuring, Provisioning
<1>8. ASSUME RegisterAll(w), ~Fail(w) PROVE CallerInv(w)'
  <2>1. /\ pc[w] = "register" /\ pc'[w] = "filter"
        /\ UNCHANGED locals
        /\ at[w] \in DOMAIN lb
        /\ AddTargets(at[w], Targets(r))
    BY <1>8, GotoType DEF RegisterAll, CanRegister, Control, Ensuring, Provisioning
  <2>2. Targets(r) \in SUBSET Instance
    BY RequestTypes DEF WellTyped
  <2>3. Targets(r) \subseteq lb'[at[w]].targets
    BY <2>1, <2>2, AddTargetsType DEF WellTyped
  <2> QED
    BY <1>1, <2>1, <2>3, ProvisionStepInv
    DEF CallerInv, locals, Ensuring, Provisioning
<1>9. ASSUME DeleteListener(w), ~Fail(w) PROVE CallerInv(w)'
  <2>1. PICK l \in todo[w] :
           /\ RemoveListener(l)
           /\ Goto(w, NextDelete(todo[w] \ {l}))
           /\ todo' = [todo EXCEPT ![w] = @ \ {l}]
           /\ UNCHANGED <<request, current, at>>
    BY <1>9 DEF DeleteListener
  <2>2. pc[w] = "delete" /\ DeleteInv(w) /\ Proper(r)
    BY <1>1, <1>9 DEF DeleteListener, CallerInv, Ensuring
  <2>3. DOMAIN lb' = DOMAIN lb \ {l}
    BY <2>1, RemoveListenerType DEF WellTyped
  <2>4. /\ pc'[w] \in {"delete", "redescribe"}
        /\ todo'[w] = todo[w] \ {l}
        /\ Wanted(w)' = Wanted(w)
    BY <2>1, GotoType, ControlLabels, LoopType DEF NextDelete, Wanted
  <2>5. DeleteInv(w)'
    BY <2>2, <2>3, <2>4 DEF DeleteInv
  <2> QED
    BY <2>1, <2>2, <2>4, <2>5
    DEF CallerInv, KindInv, ProvisioningInv, ReconcileInv, ReturnInv, DeletingInv,
        Provisioning, Reconciling, Deleting
<1> QED
  BY <1>2, <1>3, <1>4, <1>5, <1>6, <1>7, <1>8, <1>9

LEMMA ReconcileStepInv ==
    ASSUME WellTyped, NEW w \in Worker, CallerInv(w),
           \/ ReconcileListener(w) \/ RegisterInstances(w)
           \/ DeregisterInstances(w) \/ SetFilter(w)
    PROVE  CallerInv(w)'
<1> DEFINE r == request[w]
           s == current[w][at[w]]
<1> USE DEF Suspended
<1>1. /\ pc[w] \in Reconciling
      /\ KindInv(w) /\ ReconcileInv(w) /\ Progress(r) /\ Proper(r)
  BY Guarantee, CallerIsLocal
  DEF CallerInv, KindInv, Step, Ensuring, Reconciling, ReconcileListener,
      RegisterInstances, DeregisterInstances, SetFilter, ToAuthorize, ToRevoke, ToDeregister, ToRegister
<1>2. CASE Fail(w)
  BY <1>2, FailInv
<1>3. ASSUME ReconcileListener(w), ~Fail(w) PROVE CallerInv(w)'
  <2>1. PICK l \in todo[w] :
           /\ l \in Wanted(w)
           /\ Goto(w, FromEnroll(r, current[w][l], todo[w] \ {l}))
           /\ todo' = [todo EXCEPT ![w] = @ \ {l}]
           /\ at' = [at EXCEPT ![w] = l]
           /\ UNCHANGED <<lb, request, current>>
    BY <1>3 DEF ReconcileListener
  <2>2. /\ pc'[w] = FromEnroll(r, current[w][l], todo[w] \ {l})
        /\ todo'[w] = todo[w] \ {l} /\ at'[w] = l
    BY <2>1, GotoType, ControlLabels, LoopType DEF WellTyped
  <2>3. pc[w] = "reconcile"
    BY <1>3 DEF ReconcileListener
  <2>4. DescriptionLags(w)'
    BY <1>1, <2>1, LagsKept DEF ReconcileInv
  <2>5. AtListener(w)'
    BY <1>1, <2>1, <2>2, <2>3, <2>4 DEF AtListener, ReconcileInv, Wanted, Settled
  <2> QED
    BY <2>1, <2>2, <2>5, FromEnrollInv
<1>4. ASSUME pc[w] # "reconcile", UNCHANGED locals PROVE AtListener(w)'
  BY <1>1, <1>4, AtListenerKept DEF locals
<1>5. ASSUME pc[w] # "reconcile"
      PROVE  at[w] \in DOMAIN lb /\ Closer(s, lb[at[w]], r)
  BY <1>1, <1>5 DEF ReconcileInv, DescriptionLags
<1>6. ASSUME RegisterInstances(w), ~Fail(w) PROVE CallerInv(w)'
  <2>1. /\ pc[w] = "enroll" /\ UNCHANGED locals
        /\ AddTargets(at[w], Targets(r) \ s.targets)
        /\ pc'[w] = FromWithdraw(r, s, todo[w])
    BY <1>6, GotoType, ControlLabels DEF RegisterInstances, ToRegister
  <2>2. Targets(r) \ s.targets \in SUBSET Instance
    BY RequestTypes DEF WellTyped
  <2>3. lb'[at[w]].targets = lb[at[w]].targets \union (Targets(r) \ s.targets)
    BY <1>5, <2>1, <2>2, AddTargetsType DEF WellTyped
  <2>4. Targets(r) \subseteq lb'[at[w]].targets
    BY <1>5, <2>1, <2>3 DEF Closer
  <2> QED
    BY <1>4, <2>1, <2>4, FromWithdrawInv DEF locals
<1>7. ASSUME DeregisterInstances(w), ~Fail(w) PROVE CallerInv(w)'
  <2>1. /\ pc[w] = "withdraw" /\ UNCHANGED locals
        /\ RemoveTargets(at[w], s.targets \ Targets(r))
        /\ pc'[w] = FromFilter(r, s, todo[w])
    BY <1>7, GotoType, ControlLabels DEF DeregisterInstances, ToDeregister
  <2>2. lb'[at[w]].targets = lb[at[w]].targets \ (s.targets \ Targets(r))
    BY <1>5, <2>1, RemoveTargetsType DEF WellTyped
  <2>3. Targets(r) \subseteq lb[at[w]].targets
    BY <1>1, <2>1 DEF ReconcileInv
  <2>4. lb'[at[w]].targets = Targets(r)
    BY <1>5, <2>1, <2>2, <2>3 DEF Closer
  <2> QED
    BY <1>4, <2>1, <2>4, FromFilterInv DEF locals
<1>8. ASSUME SetFilter(w), ~Fail(w) PROVE CallerInv(w)'
  <2> DEFINE add  == Filters(r) \ s.filters
             drop == s.filters \ Filters(r)
  <2>1. /\ pc[w] = "refilter" /\ UNCHANGED locals
        /\ ChangeFilters(at[w], add, drop)
        /\ pc'[w] = NextReconcile(todo[w])
    BY <1>8, GotoType, ControlLabels DEF SetFilter, ToAuthorize, ToRevoke
  <2>2. add \in SUBSET Address
    BY RequestTypes DEF WellTyped
  <2>3. /\ DOMAIN lb' = DOMAIN lb
        /\ lb'[at[w]].targets = lb[at[w]].targets
        /\ lb'[at[w]].filters = (lb[at[w]].filters \union add) \ drop
    <3>1. at[w] \in DOMAIN lb /\ IsLoadBalancer(lb)
      BY <1>5, <2>1 DEF WellTyped
    <3>2. PICK l, a, d : l = at[w] /\ a = add /\ d = drop
      OBVIOUS
    <3>3. /\ l \in DOMAIN lb
          /\ a \in SUBSET Address
          /\ ChangeFilters(l, a, d)
      BY <2>1, <2>2, <3>1, <3>2
    <3>4. /\ DOMAIN lb' = DOMAIN lb
          /\ lb'[l].targets = lb[l].targets
          /\ lb'[l].filters = (lb[l].filters \union a) \ d
      BY <3>1, <3>3 DEF ChangeFilters, IsLoadBalancer, Settings
    <3> QED
      BY <3>2, <3>4
  <2>4. lb'[at[w]].filters = Filters(r)
    BY <1>5, <2>1, <2>3 DEF Closer
  <2>5. lb[at[w]].targets = Targets(r)
    BY <1>1, <2>1 DEF ReconcileInv
  <2>6. Settled(at[w], request[w])'
    BY <1>5, <2>1, <2>3, <2>4, <2>5 DEF Settled, locals
  <2> QED
    BY <1>4, <2>1, <2>6, NextReconcileInv DEF locals
<1> QED
  BY <1>2, <1>3, <1>6, <1>7, <1>8

LEMMA DeleteStepInv ==
    ASSUME WellTyped, NEW w \in Worker, CallerInv(w),
           FindListeners(w) \/ DeleteFound(w)
    PROVE  CallerInv(w)'
<1>1. KindInv(w) /\ DeletingInv(w) /\ pc[w] \in Deleting
  BY DEF CallerInv, FindListeners, DeleteFound, Deleting
<1>2. ASSUME request'[w] = request[w], pc'[w] \in {"remove", "confirm"}, DeletingInv(w)'
      PROVE  CallerInv(w)'
  BY <1>1, <1>2
  DEF CallerInv, KindInv, ProvisioningInv, DeleteInv, ReconcileInv, ReturnInv,
      Ensuring, Provisioning, Reconciling, Deleting
<1>3. ASSUME FindListeners(w) PROVE CallerInv(w)'
  <2>1. /\ pc'[w] = IF Exists THEN "remove" ELSE "confirm"
        /\ todo'[w] = DOMAIN lb /\ lb' = lb /\ request' = request
    BY <1>3, GotoType DEF FindListeners, cloud, WellTyped, Control, Deleting
  <2> QED
    BY <1>2, <2>1 DEF DeletingInv, Exists
<1>4. ASSUME DeleteFound(w) PROVE CallerInv(w)'
  <2>1. PICK l \in todo[w] :
           IF l \in DOMAIN lb
             THEN /\ RemoveListener(l)
                  /\ Goto(w, IF todo[w] = {l} THEN "confirm" ELSE "remove")
                  /\ todo' = [todo EXCEPT ![w] = @ \ {l}]
                  /\ UNCHANGED <<request, current, at>>
             ELSE Fail(w)
    BY <1>4 DEF DeleteFound
  <2>2. CASE Fail(w)
    BY <2>2, FailInv
  <2>3. CASE l \in DOMAIN lb
    <3>1. DOMAIN lb \subseteq todo[w]
      BY <1>1, <1>4 DEF DeletingInv, DeleteFound
    <3>2. DOMAIN lb' = DOMAIN lb \ {l}
      BY <2>1, <2>3, RemoveListenerType DEF WellTyped
    <3>3. /\ pc'[w] = IF todo[w] = {l} THEN "confirm" ELSE "remove"
          /\ todo'[w] = todo[w] \ {l}
      BY <2>1, <2>3, GotoType, LoopType DEF Control, Deleting
    <3> QED
      BY <1>2, <2>1, <2>3, <3>1, <3>2, <3>3 DEF DeletingInv
  <2> QED
    BY <2>1, <2>2, <2>3
<1> QED
  BY <1>3, <1>4

LEMMA StepInv ==
    ASSUME WellTyped, NEW w \in Worker, CallerInv(w), Step(w)
    PROVE  CallerInv(w)'
<1>1. CASE Return(w) \/ Confirm(w)
  BY <1>1, LeaveInv DEF Return, Confirm, Idle
<1> QED
  BY <1>1, EnsureStepInv, CreateListenerInv, SetAllFiltersInv, ReconcileStepInv,
     DeleteStepInv DEF Step

LEMMA CallInv ==
    ASSUME WellTyped, NEW w \in Worker, Call(w)
    PROVE  CallerInv(w)' /\ lb' = lb
<1>1. ASSUME NEW r \in Requests, EnsureLoadBalancer(w, r)
      PROVE  CallerInv(w)' /\ lb' = lb
  <2>1. CASE Fail(w)
    BY <2>1, FailInv DEF Fail
  <2>2. CASE Accept(w, r, "lookup") /\ Cardinality(r.ports) \in 1..MaxPorts
    <3>1. r # NoRequest /\ r.ports # {}
      BY <2>2, FS_EmptySet DEF NoRequest
    <3>2. pc'[w] = "lookup" /\ request'[w] = r /\ lb' = lb
      BY <2>2, GotoType DEF Accept, WellTyped, Control, Ensuring
    <3> QED
      BY <3>1, <3>2, EarlyInv
  <2> QED
    BY <1>1, <2>1, <2>2 DEF EnsureLoadBalancer
<1>2. ASSUME NEW r \in Requests, UpdateLoadBalancer(w, r)
      PROVE  CallerInv(w)' /\ lb' = lb
  <2>1. CASE Fail(w)
    BY <2>1, FailInv DEF Fail
  <2>2. CASE Accept(w, r, "check") /\ r.supported
    <3>1. r # NoRequest
      BY <2>2 DEF NoRequest
    <3>2. pc'[w] = "check" /\ request'[w] = r /\ lb' = lb
      BY <2>2, GotoType DEF Accept, WellTyped, Control
    <3> QED
      BY <3>1, <3>2, EarlyInv
  <2> QED
    BY <1>2, <2>1, <2>2 DEF UpdateLoadBalancer
<1>3. ASSUME EnsureLoadBalancerDeleted(w)
      PROVE  CallerInv(w)' /\ lb' = lb
  <2>1. pc'[w] = "find" /\ request'[w] = NoRequest /\ lb' = lb
    BY <1>3, GotoType
    DEF EnsureLoadBalancerDeleted, Accept, WellTyped, Control, Deleting
  <2> QED
    BY <2>1
    DEF CallerInv, KindInv, ProvisioningInv, DeleteInv, ReconcileInv, ReturnInv,
        DeletingInv, Ensuring, Provisioning, Reconciling, Deleting
<1> QED
  BY <1>1, <1>2, <1>3 DEF Call

\* What a caller does leaves the other callers where they are.
LEMMA Untouched ==
    ASSUME WellTyped, NEW v \in Worker, NEW w \in Worker, v # w,
           Call(v) \/ Step(v) \/ Fault(v)
    PROVE  /\ Suspended(w)
           /\ pc'[w] = pc[w] /\ todo'[w] = todo[w] /\ at'[w] = at[w]
<1> DEFINE Goal == /\ Suspended(w)
                   /\ pc'[w] = pc[w] /\ todo'[w] = todo[w] /\ at'[w] = at[w]
<1> USE DEF WellTyped, Suspended
<1>1. CASE Call(v) \/ Fault(v)
  BY <1>1
  DEF Call, Fault, EnsureLoadBalancer, UpdateLoadBalancer, EnsureLoadBalancerDeleted,
      Accept, Fail, Leave, Goto
<1>2. ASSUME \/ DescribeInstances(v) \/ DescribeLoadBalancers(v) \/ CreateListener(v)
             \/ ConfigureHealthCheck(v) \/ RegisterAll(v) \/ SetAllFilters(v)
      PROVE  Goal
  BY <1>2
  DEF DescribeInstances, DescribeLoadBalancers, CreateListener, ConfigureHealthCheck,
      RegisterAll, SetAllFilters, Fail, Leave, Goto, locals
<1>3. ASSUME \/ DeleteListener(v) \/ Redescribe(v) \/ ReconcileListener(v)
             \/ RegisterInstances(v) \/ DeregisterInstances(v) \/ SetFilter(v)
      PROVE  Goal
  BY <1>3
  DEF DeleteListener, Redescribe, ReconcileListener, RegisterInstances,
      DeregisterInstances, SetFilter, Fail, Leave, Goto, locals
<1>4. ASSUME \/ Return(v) \/ CheckExists(v)
             \/ FindListeners(v) \/ DeleteFound(v) \/ Confirm(v)
      PROVE  Goal
  BY <1>4
  DEF Return, CheckExists, FindListeners, DeleteFound, Confirm, Fail, Leave, Goto, locals
<1> QED
  BY <1>1, <1>2, <1>3, <1>4 DEF Step

\* What a caller knows of its own work, opposed or not.
LEMMA LocalStep ==
    ASSUME WellTyped, NEW w \in Worker, LocalInv(w), Step(w)
    PROVE  LocalInv(w)'
<1> DEFINE r == request[w]
<1> USE DEF LocalInv
<1>1. ASSUME NEW label \in Idle, Leave(w, label) PROVE LocalInv(w)'
  <2>1. pc'[w] = label
    BY <1>1, GotoType DEF Leave, Control
  <2> QED
    BY <2>1 DEF KindInv, Idle, Ensuring, Provisioning, Reconciling, Deleting
<1>2. CASE Fail(w)
  BY <1>1, <1>2 DEF Fail, Idle
<1>3. ASSUME request'[w] = r, pc[w] \in Ensuring, pc'[w] \in Ensuring \ {"lookup"},
             Proper(r),
             pc'[w] \in Provisioning => todo'[w] \subseteq Wanted(w),
             pc'[w] \in (Provisioning \union Reconciling) \ {"create", "reconcile"} =>
               at'[w] \in Wanted(w),
             pc'[w] = "delete" => todo'[w] \intersect Wanted(w) = {}
      PROVE  LocalInv(w)'
  <2>1. KindInv(w)'
    BY <1>3 DEF KindInv, Ensuring, Provisioning, Reconciling, Deleting
  <2> QED
    BY <1>3, <2>1 DEF Wanted
<1>4. pc[w] \in Ensuring \ {"lookup"} => Proper(r)
  BY DEF KindInv
<1>5. ASSUME DescribeInstances(w), ~Fail(w) PROVE LocalInv(w)'
  <2>1. /\ pc[w] = "lookup" /\ pc'[w] = "describe" /\ request'[w] = r /\ Proper(r)
    BY <1>5, GotoType
    DEF DescribeInstances, locals, Control, Ensuring, KindInv, Proper
  <2> QED
    BY <1>3, <2>1 DEF Ensuring, Provisioning, Reconciling
<1>6. ASSUME CheckExists(w), ~Fail(w) PROVE LocalInv(w)'
  <2>1. /\ Cardinality(r.ports) \in 1..MaxPorts /\ Goto(w, "lookup") /\ UNCHANGED locals
        /\ pc[w] = "check"
    BY <1>6 DEF CheckExists
  <2>2. r.ports # {} /\ r # NoRequest /\ pc'[w] = "lookup"
    BY <2>1, FS_EmptySet, GotoType DEF Control, Ensuring, KindInv
  <2> QED
    BY <2>1, <2>2 DEF KindInv, locals, Ensuring, Provisioning, Reconciling, Deleting
<1>7. ASSUME DescribeLoadBalancers(w) PROVE LocalInv(w)'
  <2>1. pc[w] = "describe" /\ request'[w] = r /\ pc[w] \in Ensuring \ {"lookup"}
    BY <1>7 DEF DescribeLoadBalancers, Ensuring
  <2>2. \/ pc'[w] = "create" /\ todo'[w] = Wanted(w) \ DOMAIN lb
        \/ pc'[w] = "delete" /\ todo'[w] = DOMAIN lb \ Wanted(w)
        \/ pc'[w] = "reconcile"
    BY <1>7, GotoType
    DEF DescribeLoadBalancers, WellTyped, Control, Ensuring, Provisioning, Reconciling
  <2> QED
    BY <1>3, <1>4, <2>1, <2>2 DEF Ensuring, Provisioning, Reconciling
<1>8. ASSUME CreateListener(w), ~Fail(w) PROVE LocalInv(w)'
  <2>1. PICK l \in todo[w] :
           /\ Goto(w, "health")
           /\ todo' = [todo EXCEPT ![w] = @ \ {l}]
           /\ at' = [at EXCEPT ![w] = l]
           /\ UNCHANGED <<request, current>>
    BY <1>8 DEF CreateListener
  <2>2. pc[w] = "create" /\ pc[w] \in Ensuring \ {"lookup"} /\ todo[w] \subseteq Wanted(w)
    BY <1>8 DEF CreateListener, Ensuring, Provisioning
  <2>3. pc'[w] = "health" /\ todo'[w] = todo[w] \ {l} /\ at'[w] = l
    BY <2>1, GotoType, LoopType DEF WellTyped, Control, Ensuring, Provisioning
  <2> QED
    BY <1>3, <1>4, <2>1, <2>2, <2>3 DEF Ensuring, Provisioning, Reconciling
<1>9. ASSUME ConfigureHealthCheck(w) \/ RegisterAll(w), ~Fail(w) PROVE LocalInv(w)'
  <2>1. /\ pc[w] \in {"health", "register"} /\ pc'[w] \in {"register", "filter"}
        /\ UNCHANGED locals
    BY <1>9, GotoType
    DEF ConfigureHealthCheck, RegisterAll, Control, Ensuring, Provisioning
  <2>2. pc[w] \in Ensuring \ {"lookup"}
    BY <2>1 DEF Ensuring, Provisioning
  <2> QED
    BY <1>3, <1>4, <2>1, <2>2 DEF locals, Ensuring, Provisioning, Reconciling
<1>10. ASSUME SetAllFilters(w), ~Fail(w) PROVE LocalInv(w)'
  <2>1. /\ pc[w] = "filter"
        /\ Goto(w, NextCreate(w, todo[w]))
        /\ todo' = [todo EXCEPT ![w] =
                      IF todo[w] = {} /\ ~Fresh(w) THEN Unwanted(w) ELSE @]
        /\ UNCHANGED <<request, current>>
    BY <1>10 DEF SetAllFilters
  <2>2. pc[w] \in Ensuring \ {"lookup"} /\ todo[w] \subseteq Wanted(w)
    BY <2>1 DEF Ensuring, Provisioning
  <2>3. /\ pc'[w] = NextCreate(w, todo[w])
        /\ todo'[w] = IF todo[w] = {} /\ ~Fresh(w) THEN Unwanted(w) ELSE todo[w]
    BY <2>1, GotoType, ControlLabels DEF WellTyped
  <2>4. \/ pc'[w] = "create" /\ todo'[w] = todo[w]
        \/ pc'[w] = "delete" /\ todo'[w] = Unwanted(w)
        \/ pc'[w] \in {"return", "redescribe"}
    BY <2>3 DEF NextCreate
  <2>5. Unwanted(w) \intersect Wanted(w) = {}
    BY DEF Unwanted
  <2> QED
    BY <1>3, <1>4, <2>1, <2>2, <2>4, <2>5 DEF Ensuring, Provisioning, Reconciling
<1>11. ASSUME DeleteListener(w), ~Fail(w) PROVE LocalInv(w)'
  <2>1. PICK l \in todo[w] :
           /\ Goto(w, NextDelete(todo[w] \ {l}))
           /\ todo' = [todo EXCEPT ![w] = @ \ {l}]
           /\ UNCHANGED <<request, current, at>>
    BY <1>11 DEF DeleteListener
  <2>2. pc[w] = "delete" /\ pc[w] \in Ensuring \ {"lookup"}
    BY <1>11 DEF DeleteListener, Ensuring
  <2>3. pc'[w] \in {"delete", "redescribe"} /\ todo'[w] = todo[w] \ {l}
    BY <2>1, GotoType, ControlLabels, LoopType DEF NextDelete
  <2> QED
    BY <1>3, <1>4, <2>1, <2>2, <2>3 DEF Ensuring, Provisioning, Reconciling
<1>12. ASSUME Redescribe(w), ~Fail(w) PROVE LocalInv(w)'
  <2>1. pc[w] = "redescribe" /\ pc'[w] = "reconcile" /\ request'[w] = r
    BY <1>12, GotoType DEF Redescribe, Control, Ensuring, Reconciling
  <2> QED
    BY <1>3, <1>4, <2>1 DEF Ensuring, Provisioning, Reconciling
<1>13. ASSUME pc[w] \in Reconciling, pc'[w] \in Reconciling \union {"return"},
              request'[w] = r, at'[w] \in Wanted(w)
       PROVE  LocalInv(w)'
  BY <1>3, <1>4, <1>13 DEF Ensuring, Provisioning, Reconciling
<1>14. \A q, s, ls : /\ NextReconcile(ls) \in Reconciling \union {"return"}
                     /\ FromFilter(q, s, ls) \in Reconciling \union {"return"}
                     /\ FromWithdraw(q, s, ls) \in Reconciling \union {"return"}
                     /\ FromEnroll(q, s, ls) \in Reconciling \union {"return"}
  BY DEF Reconciling, NextReconcile, FromFilter, FromWithdraw, FromEnroll
<1>15. ASSUME ReconcileListener(w), ~Fail(w) PROVE LocalInv(w)'
  <2>1. PICK l \in todo[w] :
           /\ l \in Wanted(w)
           /\ Goto(w, FromEnroll(r, current[w][l], todo[w] \ {l}))
           /\ at' = [at EXCEPT ![w] = l]
           /\ UNCHANGED <<lb, request, current>>
    BY <1>15 DEF ReconcileListener
  <2>2. pc'[w] = FromEnroll(r, current[w][l], todo[w] \ {l}) /\ at'[w] = l
    BY <2>1, GotoType, ControlLabels DEF WellTyped
  <2> QED
    BY <1>13, <1>14, <1>15, <2>1, <2>2 DEF ReconcileListener, Reconciling
<1>16. ASSUME RegisterInstances(w), ~Fail(w) PROVE LocalInv(w)'
  <2>1. /\ pc[w] = "enroll" /\ UNCHANGED locals
        /\ pc'[w] = FromWithdraw(r, current[w][at[w]], todo[w])
    BY <1>16, GotoType, ControlLabels DEF RegisterInstances
  <2> QED
    BY <1>13, <1>14, <2>1 DEF Reconciling, locals
<1>17. ASSUME DeregisterInstances(w), ~Fail(w) PROVE LocalInv(w)'
  <2>1. /\ pc[w] = "withdraw" /\ UNCHANGED locals
        /\ pc'[w] = FromFilter(r, current[w][at[w]], todo[w])
    BY <1>17, GotoType, ControlLabels DEF DeregisterInstances
  <2> QED
    BY <1>13, <1>14, <2>1 DEF Reconciling, locals
<1>18. ASSUME SetFilter(w), ~Fail(w) PROVE LocalInv(w)'
  <2>1. /\ pc[w] = "refilter" /\ UNCHANGED locals
        /\ pc'[w] = NextReconcile(todo[w])
    BY <1>18, GotoType, ControlLabels DEF SetFilter
  <2> QED
    BY <1>13, <1>14, <2>1 DEF Reconciling, locals
<1>19. ASSUME FindListeners(w) \/ DeleteFound(w), ~Fail(w) PROVE LocalInv(w)'
  <2>1. pc[w] \in Deleting /\ pc'[w] \in {"remove", "confirm"} /\ request'[w] = r
    BY <1>19, GotoType DEF FindListeners, DeleteFound, Control, Deleting
  <2> QED
    BY <2>1 DEF KindInv, Ensuring, Provisioning, Reconciling, Deleting
<1>20. ASSUME Return(w) \/ Confirm(w) PROVE LocalInv(w)'
  BY <1>1, <1>20 DEF Return, Confirm, Idle
<1> QED
  BY <1>2, <1>5, <1>6, <1>7, <1>8, <1>9, <1>10, <1>11, <1>12, <1>15, <1>16, <1>17,
     <1>18, <1>19, <1>20 DEF Step

-----------------------------------------------------------------------------
(* The theorems.                                                           *)

Inv == TypeOK /\ CallersInv

LEMMA IdleInv ==
    ASSUME NEW w \in Worker, pc[w] \in Idle
    PROVE  CallerInv(w)
  BY DEF CallerInv, KindInv, ProvisioningInv, DeleteInv, ReconcileInv, ReturnInv,
         DeletingInv, Ensuring, Provisioning, Reconciling, Deleting, Idle

LEMMA InitInv == Init => Inv
<1> SUFFICES ASSUME Init PROVE Inv
  OBVIOUS
<1>1. \A w \in Worker : pc[w] \in Idle
  BY DEF Init, Idle
<1>2. \A w \in Worker : CallerInv(w) /\ LocalInv(w)
  BY <1>1, IdleInv, CallerIsLocal
<1> QED
  BY <1>2, InitType DEF Inv, CallersInv

\* Whoever takes the step, callers that are not opposed by then see progress.
LEMMA StepsProgress ==
    ASSUME Inv, [Next]_vars, NEW w \in Worker, w \notin opposed', pc'[w] \notin Idle
    PROVE  Progress(request[w])
<1>1. WellTyped /\ \A v \in Worker : LocalInv(v)
  BY DEF Inv, CallersInv, TypeOK
<1>2. CASE lb' = lb
  BY <1>2, NoChangeIsProgress
<1>3. CASE lb' # lb
  <2>1. PICK v \in Worker : Step(v) /\ Opposes(v)
    BY <1>1, <1>3, CallInv DEF Next, Fault, Fail, OutageEnds, vars
  <2>2. Progress(request[v])
    BY <1>1, <2>1, Guarantee
  <2>3. Parts(lb') = Parts(lb) \/ Asks(request[v]) = Asks(request[w])
    BY <2>1 DEF Opposes
  <2> QED
    BY <2>2, <2>3, SameAsks, SameParts
<1> QED
  BY <1>2, <1>3

\* Opposition ends only with the call.
LEMMA OpposedStays ==
    ASSUME [Next]_vars, NEW w \in Worker, w \notin opposed', pc'[w] \notin Idle
    PROVE  w \notin opposed
  BY DEF Next, Opposes, vars

LEMMA NextInv ==
    ASSUME Inv, [Next]_vars
    PROVE  Inv'
<1>1. /\ TypeOK /\ WellTyped
      /\ \A w \in Worker : LocalInv(w) /\ (w \notin opposed => CallerInv(w))
  BY DEF Inv, CallersInv, TypeOK
<1>2. TypeOK'
  BY <1>1, NextType
<1>3. ASSUME NEW w \in Worker, pc'[w] \in Idle
      PROVE  CallerInv(w)' /\ LocalInv(w)'
  BY <1>3
  DEF CallerInv, LocalInv, KindInv, ProvisioningInv, DeleteInv, ReconcileInv,
      ReturnInv, DeletingInv, Ensuring, Provisioning, Reconciling, Deleting, Idle
<1>4. ASSUME NEW w \in Worker, CallerInv(w)'
      PROVE  LocalInv(w)'
  BY <1>4
  DEF CallerInv, LocalInv, ProvisioningInv, DeleteInv, ReconcileInv, Provisioning,
      Reconciling
<1>5. ASSUME NEW w \in Worker, Suspended(w),
             pc'[w] = pc[w], todo'[w] = todo[w], at'[w] = at[w]
      PROVE  LocalInv(w)' /\ (w \notin opposed' => CallerInv(w)')
  <2>1. LocalInv(w)'
    BY <1>1, <1>5 DEF LocalInv, KindInv, Wanted, Suspended
  <2>2. ASSUME w \notin opposed', pc'[w] \notin Idle
        PROVE  CallerInv(w)'
    BY <1>1, <1>5, <2>2, StepsProgress, OpposedStays, Rely
  <2> QED
    BY <1>3, <2>1, <2>2
<1>6. ASSUME NEW v \in Worker, Call(v) \/ Step(v) \/ Fault(v)
      PROVE  CallersInv'
  <2>1. LocalInv(v)' /\ (v \notin opposed' => CallerInv(v)')
    <3>1. CASE Call(v)
      BY <1>1, <1>4, <3>1, CallInv
    <3>2. CASE Fault(v)
      BY <1>1, <1>4, <3>2, FailInv DEF Fault
    <3>3. CASE Step(v)
      <4>1. LocalInv(v)'
        BY <1>1, <3>3, LocalStep
      <4>2. ASSUME v \notin opposed', pc'[v] \notin Idle PROVE CallerInv(v)'
        BY <1>1, <3>3, <4>2, OpposedStays, StepInv
      <4> QED
        BY <1>3, <4>1, <4>2
    <3> QED
      BY <1>6, <3>1, <3>2, <3>3
  <2>2. ASSUME NEW w \in Worker, w # v
        PROVE  LocalInv(w)' /\ (w \notin opposed' => CallerInv(w)')
    BY <1>1, <1>5, <1>6, <2>2, Untouched
  <2> QED
    BY <2>1, <2>2 DEF CallersInv
<1>7. ASSUME OutageEnds \/ UNCHANGED vars
      PROVE  CallersInv'
  BY <1>5, <1>7 DEF OutageEnds, vars, locals, Suspended, CallersInv
<1> QED
  BY <1>2, <1>6, <1>7 DEF Next, Inv

\* Whatever callers do and however they fail, each one that no caller asking for
\* something else got in the way of has a picture of the load balancer that is
\* good enough for its remaining work.
THEOREM CallersInvariant == Spec => []CallersInv
<1>1. Init => Inv
  BY InitInv
<1>2. Inv /\ [Next]_vars => Inv'
  BY NextInv
<1>3. Inv => CallersInv
  BY DEF Inv
<1> QED
  BY <1>1, <1>2, <1>3, PTL DEF Spec

\* An Ensure or Update that returns without an error leaves NIFCLOUD with the
\* listeners, targets and filters asked for: for any number of callers, any
\* leftovers and any failures, unless a caller asking for others changed the load
\* balancer during the call.
THEOREM EnsureConverges == Spec => []Converged
<1>1. CallersInv => Converged
  BY DEF CallersInv, CallerInv, ReturnInv, Converged
<1> QED
  BY <1>1, CallersInvariant, PTL

\* An EnsureLoadBalancerDeleted that returns without an error leaves nothing,
\* unless a caller that wants a load balancer changed it during the call.
THEOREM DeleteLeavesNothing == Spec => []NothingLeft
<1>1. CallersInv => NothingLeft
  BY DEF CallersInv, CallerInv, DeletingInv, NothingLeft, Exists
<1> QED
  BY <1>1, CallersInvariant, PTL

\* A caller that was running and is not opposed saw progress, even if it just
\* ended: then the step that ended it changed nothing or was its own.
LEMMA EndsProgress ==
    ASSUME Inv, [Next]_vars, NEW w \in Worker, w \notin opposed', pc[w] \in Ensuring
    PROVE  Progress(request[w])
<1>1. WellTyped /\ \A v \in Worker : LocalInv(v)
  BY DEF Inv, CallersInv, TypeOK
<1>2. pc[w] \notin Idle
  BY DEF Ensuring, Provisioning, Reconciling, Idle
<1>3. CASE pc'[w] \notin Idle
  BY <1>3, StepsProgress
<1>4. CASE pc'[w] \in Idle /\ lb' # lb
  <2>1. PICK v \in Worker : Step(v)
    BY <1>1, <1>4, CallInv DEF Next, Fault, Fail, OutageEnds, vars
  <2>2. v = w
    BY <1>1, <1>2, <1>4, <2>1, Untouched
  <2> QED
    BY <1>1, <2>1, <2>2, Guarantee
<1> QED
  BY <1>3, <1>4, NoChangeIsProgress

LEMMA ProgressKeepsMatch ==
    ASSUME NEW r, Matches(lb, r), Progress(r)
    PROVE  Matches(lb', r)
<1>1. ASSUME NEW l \in Listeners(r) PROVE Settled(l, r)'
  BY <1>1, SettledKept DEF Matches, Settled
<1>2. DOMAIN lb' = Listeners(r)
  BY <1>1 DEF Matches, Progress, Settled
<1> QED
  BY <1>1, <1>2 DEF Matches, Settled

\* Only the two delete loops remove listeners, and only the withdrawal of the
\* reconcile loop removes targets.
LEMMA StepRemoves ==
    ASSUME WellTyped, NEW v \in Worker, Step(v)
    PROVE  /\ \/ pc[v] = "delete" \/ pc[v] = "remove"
              \/ DOMAIN lb \subseteq DOMAIN lb'
           /\ \/ DeregisterInstances(v) /\ ~Fail(v)
              \/ \A l \in DOMAIN lb \intersect DOMAIN lb' : lb[l].targets \subseteq lb'[l].targets
<1> DEFINE Goal ==
      /\ \/ pc[v] = "delete" \/ pc[v] = "remove"
         \/ DOMAIN lb \subseteq DOMAIN lb'
      /\ \/ DeregisterInstances(v) /\ ~Fail(v)
         \/ \A l \in DOMAIN lb \intersect DOMAIN lb' : lb[l].targets \subseteq lb'[l].targets
<1>1. ASSUME lb' = lb PROVE Goal
  BY <1>1
<1>2. ASSUME Fail(v) PROVE Goal
  BY <1>1, <1>2 DEF Fail
<1>3. ASSUME \/ DescribeInstances(v) \/ DescribeLoadBalancers(v) \/ Redescribe(v)
             \/ ReconcileListener(v) \/ Return(v) \/ CheckExists(v)
             \/ FindListeners(v) \/ Confirm(v)
      PROVE  Goal
  BY <1>1, <1>3
  DEF DescribeInstances, DescribeLoadBalancers, Redescribe, ReconcileListener,
      Return, CheckExists, FindListeners, Confirm, cloud, Fail
<1>4. ASSUME CreateListener(v) PROVE Goal
  <2>1. ASSUME NEW l, l \notin DOMAIN lb, AddListener(l) PROVE Goal
    BY <2>1 DEF AddListener
  <2>2. ASSUME NEW l, CanCreate(l) \/ CanRegisterPort(l) PROVE l \notin DOMAIN lb
    BY <2>2 DEF CanCreate, CanRegisterPort, Exists, PortFree
  <2> QED
    BY <1>2, <1>4, <2>1, <2>2 DEF CreateListener
<1>5. ASSUME ConfigureHealthCheck(v) PROVE Goal
  BY <1>2, <1>5
  DEF ConfigureHealthCheck, SetHealth, WellTyped, IsLoadBalancer, Settings
<1>6. ASSUME RegisterAll(v) \/ RegisterInstances(v) PROVE Goal
  <2>1. ASSUME NEW l, NEW is, AddTargets(l, is) PROVE Goal
    BY <2>1 DEF AddTargets, WellTyped, IsLoadBalancer, Settings
  <2> QED
    BY <1>2, <1>6, <2>1 DEF RegisterAll, RegisterInstances
<1>7. ASSUME SetAllFilters(v) \/ SetFilter(v) PROVE Goal
  <2>1. ASSUME NEW l, NEW add, NEW drop, ChangeFilters(l, add, drop) PROVE Goal
    BY <2>1 DEF ChangeFilters, WellTyped, IsLoadBalancer, Settings
  <2> QED
    BY <1>2, <1>7, <2>1 DEF SetAllFilters, SetFilter
<1>8. ASSUME DeleteListener(v) \/ DeleteFound(v) PROVE Goal
  <2>1. PICK l \in todo[v] : RemoveListener(l) \/ Fail(v)
    BY <1>8 DEF DeleteListener, DeleteFound
  <2>2. ASSUME RemoveListener(l) PROVE \A m \in DOMAIN lb' : lb'[m] = lb[m]
    BY <2>2, RemoveListenerType DEF WellTyped
  <2> QED
    BY <1>2, <1>8, <2>1, <2>2 DEF DeleteListener, DeleteFound
<1>9. ASSUME DeregisterInstances(v) PROVE Goal
  <2>1. CASE ~Fail(v)
    BY <1>9, <2>1 DEF DeregisterInstances, RemoveTargets, WellTyped, IsLoadBalancer
  <2> QED
    BY <1>2, <2>1
<1> QED
  BY <1>3, <1>4, <1>5, <1>6, <1>7, <1>8, <1>9 DEF Step

\* A step never removes the last listener when its caller wants some: who deletes
\* listeners has created those it wants.
LEMMA StepKeepsExisting ==
    ASSUME WellTyped, NEW w \in Worker, CallerInv(w), Step(w), Wanted(w) # {}, Exists
    PROVE  Exists'
<1>1. Progress(request[w])
  BY CallerIsLocal, Guarantee
<1>2. CASE DOMAIN lb \intersect Wanted(w) # {}
  BY <1>1, <1>2 DEF Progress, Wanted, Exists
<1>3. CASE DOMAIN lb \subseteq DOMAIN lb'
  BY <1>3 DEF Exists
<1>4. CASE ~(DOMAIN lb \subseteq DOMAIN lb') /\ DOMAIN lb \intersect Wanted(w) = {}
  <2>1. pc[w] = "delete" \/ pc[w] = "remove"
    BY <1>4, StepRemoves
  <2>2. pc[w] = "delete"
    BY <2>1 DEF CallerInv, KindInv, Deleting, Wanted, Listeners, NoRequest
  <2>3. Wanted(w) \subseteq DOMAIN lb
    BY <2>2 DEF CallerInv, DeleteInv
  <2> QED
    BY <1>4, <2>3
<1> QED
  BY <1>2, <1>3, <1>4

\* A caller moves only by itself.
LEMMA Mover ==
    ASSUME Inv, [Next]_vars, NEW w \in Worker \ opposed, Moves(w), lb' # lb
    PROVE  WellTyped /\ CallerInv(w) /\ Step(w)
<1>1. WellTyped /\ CallerInv(w)
  BY DEF Inv, CallersInv, TypeOK
<1>2. PICK v \in Worker : Step(v)
  BY <1>1, CallInv DEF Next, Fault, Fail, OutageEnds, vars
<1>3. v = w
  BY <1>1, <1>2, Untouched DEF Moves
<1> QED
  BY <1>1, <1>2, <1>3

LEMMA StepsKeepExisting ==
    ASSUME Inv, [Next]_vars
    PROVE  KeepsExisting
<1> SUFFICES ASSUME NEW w \in Worker \ opposed, pc[w] \in Ensuring, Moves(w), Exists,
                    lb' # lb
             PROVE  Exists'
  BY DEF KeepsExisting, Exists
<1>1. WellTyped /\ CallerInv(w) /\ Step(w)
  BY Mover
<1>2. Wanted(w) # {}
  BY <1>1 DEF CallerInv, KindInv, Proper, Wanted, Listeners
<1> QED
  BY <1>1, <1>2, StepKeepsExisting

\* Who withdraws targets has registered those it wants, and it wants some.
LEMMA StepsKeepTargets ==
    ASSUME Inv, [Next]_vars
    PROVE  KeepsTargets
<1> SUFFICES ASSUME NEW w \in Worker \ opposed, Moves(w), lb' # lb,
                    NEW l \in DOMAIN lb \intersect DOMAIN lb', lb[l].targets # {}
             PROVE  lb'[l].targets # {}
  BY DEF KeepsTargets
<1>1. WellTyped /\ CallerInv(w) /\ Step(w)
  BY Mover
<1>2. CASE DeregisterInstances(w) /\ ~Fail(w)
  <2>1. PICK is : /\ is \intersect Targets(request[w]) = {}
                  /\ at[w] \in DOMAIN lb
                  /\ RemoveTargets(at[w], is)
    BY <1>2 DEF DeregisterInstances, CanDeregister, ToDeregister
  <2>2. pc[w] = "withdraw"
    BY <1>2 DEF DeregisterInstances
  <2>3. Targets(request[w]) \subseteq lb[at[w]].targets /\ AllFound(request[w])
    BY <1>1, <2>2
    DEF CallerInv, ReconcileInv, KindInv, Proper, Reconciling, Ensuring
  <2>4. Targets(request[w]) # {}
    BY <2>3, InstanceAssumption DEF Targets, AllFound
  <2>5. /\ lb'[at[w]].targets = lb[at[w]].targets \ is
        /\ \A m \in DOMAIN lb \ {at[w]} : lb'[m] = lb[m]
    BY <1>1, <2>1 DEF RemoveTargets, WellTyped, IsLoadBalancer, Settings
  <2> QED
    BY <2>1, <2>3, <2>4, <2>5
<1>3. CASE ~(DeregisterInstances(w) /\ ~Fail(w))
  BY <1>1, <1>3, StepRemoves
<1> QED
  BY <1>2, <1>3

\* Nobody but a caller that asks for something else takes away, even for a while,
\* what is there and what a running Ensure or Update asks for.
THEOREM EnsureNeverDisrupts == Spec => NoDisruption
<1>1. Init => Inv
  BY InitInv
<1>2. Inv /\ [Next]_vars => Inv'
  BY NextInv
<1>3. Inv /\ [Next]_vars => [KeepsWanted]_vars
  <2> SUFFICES ASSUME Inv, [Next]_vars, NEW w \in Worker \ opposed', pc[w] \in Ensuring,
                      NEW l \in DOMAIN lb \intersect Wanted(w)
               PROVE  /\ l \in DOMAIN lb'
                      /\ lb[l].targets \intersect Targets(request[w]) \subseteq lb'[l].targets
                      /\ lb[l].filters \intersect Filters(request[w]) \subseteq lb'[l].filters
    BY DEF KeepsWanted
  <2>1. Progress(request[w])
    BY EndsProgress
  <2> QED
    BY <2>1 DEF Progress, Closer, Wanted
<1> QED
  BY <1>1, <1>2, <1>3, PTL DEF Spec, NoDisruption

\* What matches the request of a running Ensure or Update goes on matching it
\* until a caller that asks for something else changes it.
THEOREM EnsureStaysMatched == Spec => StaysMatched
<1>1. Init => Inv
  BY InitInv
<1>2. Inv /\ [Next]_vars => Inv'
  BY NextInv
<1>3. Inv /\ [Next]_vars => [KeepsMatching]_vars
  <2> SUFFICES ASSUME Inv, [Next]_vars, NEW w \in Worker \ opposed',
                      pc[w] \in Ensuring, Matches(lb, request[w])
               PROVE  Matches(lb', request[w])
    BY DEF KeepsMatching
  <2>1. Progress(request[w])
    BY EndsProgress
  <2> QED
    BY <2>1, ProgressKeepsMatch
<1> QED
  BY <1>1, <1>2, <1>3, PTL DEF Spec, StaysMatched

\* The load balancer of an Ensure or Update never goes away.
THEOREM EnsureKeepsExisting == Spec => NeverVanishes
<1>1. Init => Inv
  BY InitInv
<1>2. Inv /\ [Next]_vars => Inv'
  BY NextInv
<1>3. Inv /\ [Next]_vars => [KeepsExisting]_vars
  BY StepsKeepExisting
<1> QED
  BY <1>1, <1>2, <1>3, PTL DEF Spec, NeverVanishes

\* No listener is ever stripped of its last target.
THEOREM TargetsKept == Spec => TargetsNeverEmptied
<1>1. Init => Inv
  BY InitInv
<1>2. Inv /\ [Next]_vars => Inv'
  BY NextInv
<1>3. Inv /\ [Next]_vars => [KeepsTargets]_vars
  BY StepsKeepTargets
<1> QED
  BY <1>1, <1>2, <1>3, PTL DEF Spec, TargetsNeverEmptied

-----------------------------------------------------------------------------
(* The refinement: the calls implement LoadBalancerContract.               *)

\* The parts of a load balancer and of a request.
LEMMA InParts ==
    ASSUME NEW c, NEW r, NEW x
    PROVE  /\ x \in Parts(c) <=>
                \E l \in DOMAIN c :
                  \/ x = <<l, <<"listener", Unset>>>>
                  \/ \E i \in c[l].targets : x = <<l, <<"target", i>>>>
                  \/ \E a \in c[l].filters : x = <<l, <<"filter", a>>>>
           /\ x \in Asks(r) <=>
                \E l \in Listeners(r) :
                  \/ x = <<l, <<"listener", Unset>>>>
                  \/ \E i \in Targets(r) : x = <<l, <<"target", i>>>>
                  \/ \E a \in Filters(r) : x = <<l, <<"filter", a>>>>
<1>1. ASSUME NEW S, NEW T
      PROVE  ({"listener"} \X {Unset}) \union ({"target"} \X S) \union ({"filter"} \X T)
               = {<<"listener", Unset>>} \union {<<"target", i>> : i \in S}
                   \union {<<"filter", a>> : a \in T}
  OBVIOUS
<1>2. x \in Parts(c) <=>
        \E l \in DOMAIN c :
          \/ x = <<l, <<"listener", Unset>>>>
          \/ \E i \in c[l].targets : x = <<l, <<"target", i>>>>
          \/ \E a \in c[l].filters : x = <<l, <<"filter", a>>>>
  BY DEF Parts
<1>3. x \in Asks(r) <=>
        \E l \in Listeners(r) :
          \/ x = <<l, <<"listener", Unset>>>>
          \/ \E i \in Targets(r) : x = <<l, <<"target", i>>>>
          \/ \E a \in Filters(r) : x = <<l, <<"filter", a>>>>
  BY DEF Asks
<1> QED
  BY <1>2, <1>3

LEMMA PartsOfLeftovers ==
    ASSUME IsLoadBalancer(lb)
    PROVE  Parts(lb) \in SUBSET Part
  BY DEF Parts, Part, IsLoadBalancer, Settings

LEMMA MatchMaps ==
    ASSUME NEW r, Matches(lb, r)
    PROVE  Parts(lb) = Asks(r)
<1>1. ASSUME NEW x PROVE x \in Parts(lb) <=> x \in Asks(r)
  <2>1. /\ DOMAIN lb = Listeners(r)
        /\ \A l \in DOMAIN lb : lb[l].targets = Targets(r) /\ lb[l].filters = Filters(r)
    BY DEF Matches
  <2>2. x \in Parts(lb) <=>
          \E l \in DOMAIN lb :
            \/ x = <<l, <<"listener", Unset>>>>
            \/ \E i \in lb[l].targets : x = <<l, <<"target", i>>>>
            \/ \E a \in lb[l].filters : x = <<l, <<"filter", a>>>>
    BY InParts
  <2>3. x \in Asks(r) <=>
          \E l \in Listeners(r) :
            \/ x = <<l, <<"listener", Unset>>>>
            \/ \E i \in Targets(r) : x = <<l, <<"target", i>>>>
            \/ \E a \in Filters(r) : x = <<l, <<"filter", a>>>>
    BY InParts
  <2> QED
    BY <2>1, <2>2, <2>3
<1> QED
  BY <1>1

LEMMA ProgressMaps ==
    ASSUME NEW r, Progress(r)
    PROVE  /\ Parts(lb') \subseteq Parts(lb) \union Asks(r)
           /\ Parts(lb) \intersect Asks(r) \subseteq Parts(lb')
<1>1. ASSUME NEW l \in DOMAIN lb'
      PROVE  /\ l \in DOMAIN lb \/ l \in Listeners(r)
             /\ \A i \in lb'[l].targets :
                  \/ l \in DOMAIN lb /\ i \in lb[l].targets
                  \/ l \in Listeners(r) /\ i \in Targets(r)
             /\ \A a \in lb'[l].filters :
                  \/ l \in DOMAIN lb /\ a \in lb[l].filters
                  \/ l \in Listeners(r) /\ a \in Filters(r)
  BY <1>1 DEF Progress, Closer
<1>2. ASSUME NEW x \in Parts(lb') PROVE x \in Parts(lb) \union Asks(r)
  <2>1. PICK l \in DOMAIN lb' :
          \/ x = <<l, <<"listener", Unset>>>>
          \/ \E i \in lb'[l].targets : x = <<l, <<"target", i>>>>
          \/ \E a \in lb'[l].filters : x = <<l, <<"filter", a>>>>
    BY <1>2, InParts
  <2> QED
    BY <1>1, <2>1, InParts
<1>3. ASSUME NEW x \in Parts(lb), x \in Asks(r) PROVE x \in Parts(lb')
  <2>1. PICK l \in DOMAIN lb :
          \/ x = <<l, <<"listener", Unset>>>>
          \/ \E i \in lb[l].targets : x = <<l, <<"target", i>>>>
          \/ \E a \in lb[l].filters : x = <<l, <<"filter", a>>>>
    BY <1>3, InParts
  <2>2. PICK m \in Listeners(r) :
          \/ x = <<m, <<"listener", Unset>>>>
          \/ \E i \in Targets(r) : x = <<m, <<"target", i>>>>
          \/ \E a \in Filters(r) : x = <<m, <<"filter", a>>>>
    BY <1>3, InParts
  <2>3. l \in Listeners(r) /\ l \in DOMAIN lb' /\ Closer(lb[l], lb'[l], r)
    BY <2>1, <2>2 DEF Progress
  <2> QED
    BY <2>1, <2>2, <2>3, InParts DEF Closer
<1> QED
  BY <1>2, <1>3

\* What a step is seen from outside: a failure, a return, or work.
LEMMA StepShape ==
    ASSUME WellTyped, NEW w \in Worker, Step(w)
    PROVE  /\ pc[w] \notin Idle
           /\ \/ Fail(w)
              \/ Return(w) \/ Confirm(w)
              \/ pc'[w] \notin Idle /\ request' = request
<1> DEFINE Goal == /\ pc[w] \notin Idle
                   /\ \/ Fail(w)
                      \/ Return(w) \/ Confirm(w)
                      \/ pc'[w] \notin Idle /\ request' = request
<1>1. /\ \A ls : /\ NextCreate(w, ls) \in Control \ Idle
                 /\ NextDelete(ls) \in Control \ Idle
      /\ \A r, s, ls : /\ NextReconcile(ls) \in Control \ Idle
                       /\ FromFilter(r, s, ls) \in Control \ Idle
                       /\ FromWithdraw(r, s, ls) \in Control \ Idle
                       /\ FromEnroll(r, s, ls) \in Control \ Idle
  BY DEF Control, Idle, Ensuring, Provisioning, Reconciling, NextCreate, NextDelete,
         NextReconcile, FromFilter, FromWithdraw, FromEnroll
<1>2. ASSUME NEW label \in Control \ Idle, Goto(w, label)
      PROVE  pc'[w] \notin Idle
  BY <1>2, GotoType
<1>3. {"lookup", "describe", "create", "health", "register", "filter", "delete",
       "redescribe", "reconcile", "check", "remove", "confirm"} \subseteq Control \ Idle
  BY DEF Control, Idle, Ensuring, Provisioning, Reconciling, Deleting
<1>4. ASSUME \/ DescribeInstances(w) \/ DescribeLoadBalancers(w) \/ CreateListener(w)
             \/ ConfigureHealthCheck(w) \/ RegisterAll(w)
      PROVE  Goal
  <2>1. pc[w] \in {"lookup", "describe", "create", "health", "register"}
    BY <1>4
    DEF DescribeInstances, DescribeLoadBalancers, CreateListener,
        ConfigureHealthCheck, RegisterAll
  <2>2. Fail(w) \/ (request' = request /\
          \E label \in {"describe", "create", "delete", "reconcile", "health",
                        "register", "filter"} : Goto(w, label))
    BY <1>4
    DEF DescribeInstances, DescribeLoadBalancers, CreateListener,
        ConfigureHealthCheck, RegisterAll, locals
  <2> QED
    BY <1>2, <1>3, <2>1, <2>2 DEF Idle
<1>5. ASSUME SetAllFilters(w) \/ DeleteListener(w) \/ Redescribe(w)
      PROVE  Goal
  BY <1>1, <1>2, <1>3, <1>5 DEF SetAllFilters, DeleteListener, Redescribe, Idle
<1>6. ASSUME \/ ReconcileListener(w) \/ RegisterInstances(w)
             \/ DeregisterInstances(w) \/ SetFilter(w)
      PROVE  Goal
  BY <1>1, <1>2, <1>6
  DEF ReconcileListener, RegisterInstances, DeregisterInstances, SetFilter, locals, Idle
<1>7. ASSUME Return(w) \/ Confirm(w) PROVE Goal
  BY <1>7 DEF Return, Confirm, Idle
<1>8. ASSUME CheckExists(w) \/ FindListeners(w) \/ DeleteFound(w) PROVE Goal
  BY <1>2, <1>3, <1>8 DEF CheckExists, FindListeners, DeleteFound, locals, Idle
<1> QED
  BY <1>4, <1>5, <1>6, <1>7, <1>8 DEF Step

\* Which callers the contract takes for calling.
LEMMA CallingMaps ==
    ASSUME WellTyped, NEW w \in Worker
    PROVE  /\ Status(w) = "calling" <=> pc[w] \notin Idle
           /\ w \in Contract!Calling <=> pc[w] \notin Idle
<1>1. Status(w) = "calling" <=> pc[w] \notin Idle
  BY DEF Status, Idle
<1> QED
  BY <1>1 DEF Contract!Calling

\* What the contract sees of the other callers does not change.
LEMMA OthersMap ==
    ASSUME WellTyped, NEW w \in Worker, Call(w) \/ Step(w) \/ Fault(w),
           NEW v \in Worker, v # w
    PROVE  /\ pc'[v] = pc[v] /\ Status(v)' = Status(v)
           /\ Asks(request'[v]) = Asks(request[v])
  BY Untouched DEF Status, Suspended

LEMMA EndMaps ==
    ASSUME Inv, NEW w \in Worker, NEW label \in Idle \ {"idle"}, Leave(w, label), lb' = lb,
           Opposes(w), Call(w) \/ Step(w) \/ Fault(w)
    PROVE  Contract!End(w, IF label = "failed" THEN "error" ELSE "ok")
<1>1. WellTyped /\ opposed \subseteq {v \in Worker : pc[v] \notin Idle}
  BY DEF Inv, TypeOK
<1>2. pc'[w] = label /\ request'[w] = NoRequest
  BY <1>1, GotoType DEF Leave, WellTyped, Control
<1>3. Asks(request'[w]) = {}
  BY <1>2 DEF Asks, Listeners, NoRequest
<1>4. Status(w)' = IF label = "failed" THEN "error" ELSE "ok"
  BY <1>2 DEF Status, Idle
<1>5. opposed' = opposed \ {w}
  BY <1>1, <1>2, OthersMap DEF Opposes
<1> QED
  BY <1>1, <1>3, <1>4, <1>5, OthersMap DEF Contract!End

LEMMA BeginMaps ==
    ASSUME Inv, NEW w \in Worker, NEW r \in Requests \union {NoRequest},
           NEW label \in Control \ Idle, Accept(w, r, label), pc[w] \in Idle,
           Opposes(w), Call(w)
    PROVE  Contract!Next
<1>1. WellTyped /\ opposed \subseteq {v \in Worker : pc[v] \notin Idle}
  BY DEF Inv, TypeOK
<1>2. pc'[w] = label /\ request'[w] = r /\ lb' = lb
  BY <1>1, GotoType DEF Accept, WellTyped
<1>3. Status(w)' = "calling"
  BY <1>2 DEF Status, Idle
<1>4. opposed' = opposed
  BY <1>1, <1>2, OthersMap DEF Opposes
<1>5. Asks(r) \subseteq Part
  BY RequestTypes DEF Asks, Part
<1>6. Contract!Begin(w, Asks(r))
  BY <1>1, <1>2, <1>3, <1>4, OthersMap, CallingMaps DEF Contract!Begin
<1> QED
  BY <1>2, <1>5, <1>6 DEF Contract!Next

LEMMA WorkMaps ==
    ASSUME Inv, NEW w \in Worker, Step(w), Opposes(w), request' = request,
           pc'[w] \notin Idle
    PROVE  [Contract!Next]_(Contract!vars)
<1>1. /\ WellTyped /\ opposed \subseteq {v \in Worker : pc[v] \notin Idle}
      /\ LocalInv(w) /\ (w \notin opposed => CallerInv(w))
  BY DEF Inv, CallersInv, TypeOK
<1>2. pc[w] \notin Idle
  BY <1>1, StepShape
<1>3. \A v \in Worker : /\ Status(v)' = Status(v)
                        /\ Asks(request'[v]) = Asks(request[v])
                        /\ pc'[v] \notin Idle <=> pc[v] \notin Idle
  BY <1>1, <1>2, OthersMap DEF Status, Idle
<1>4. CASE Parts(lb') = Parts(lb)
  <2>1. opposed' = opposed
    BY <1>1, <1>3, <1>4 DEF Opposes
  <2> QED
    BY <1>3, <1>4, <2>1 DEF Contract!vars
<1>5. CASE Parts(lb') # Parts(lb)
  <2>1. opposed' = opposed \union {v \in Contract!Calling :
                                     Asks(request[v]) # Asks(request[w])}
    BY <1>1, <1>3, <1>5, CallingMaps DEF Opposes, Contract!Calling
  <2>2. Progress(request[w])
    BY <1>1, Guarantee
  <2>3. Parts(lb') \subseteq Parts(lb) \union Asks(request[w])
    BY <2>2, ProgressMaps
  <2>4. Parts(lb) \intersect Asks(request[w]) \subseteq Parts(lb')
    BY <2>2, ProgressMaps
  <2>5. ASSUME w \notin opposed, Asks(request[w]) # {}, Parts(lb) # {}
        PROVE  Parts(lb') # {}
    <3>1. Wanted(w) # {}
      BY <2>5 DEF Asks, Wanted
    <3>2. Exists
      BY <2>5 DEF Parts, Exists
    <3>3. Exists'
      BY <1>1, <2>5, <3>1, <3>2, StepKeepsExisting
    <3>4. PICK l \in DOMAIN lb' : TRUE
      BY <3>3 DEF Exists
    <3>5. <<l, <<"listener", Unset>>>> \in Parts(lb')
      BY DEF Parts
    <3> QED
      BY <3>5
  <2>6. /\ [v \in Worker |-> Status(v)]' = [v \in Worker |-> Status(v)]
        /\ [v \in Worker |-> Asks(request[v])]' = [v \in Worker |-> Asks(request[v])]
    BY <1>3
  <2>7. \A v \in Worker : [u \in Worker |-> Asks(request[u])][v] = Asks(request[v])
    OBVIOUS
  <2>8. Contract!Calling \subseteq Worker /\ w \in Contract!Calling
    BY <1>1, <1>2, CallingMaps DEF Contract!Calling
  <2>9. opposed' = opposed \union
                     {v \in Contract!Calling : [u \in Worker |-> Asks(request[u])][v]
                                              # [u \in Worker |-> Asks(request[u])][w]}
    BY <2>1, <2>7, <2>8
  <2>10. Contract!Work(w)
    BY <2>3, <2>4, <2>5, <2>6, <2>7, <2>8, <2>9 DEF Contract!Work
  <2> QED
    BY <2>10 DEF Contract!Next
<1> QED
  BY <1>4, <1>5

\* The calls, with everything that fails and everybody who gets in the way, are
\* an implementation of the contract.
THEOREM ContractImplemented == Spec => ImplementsContract
<1>1. Init => Inv
  BY InitInv
<1>2. Inv /\ [Next]_vars => Inv'
  BY NextInv
<1>3. Init => Contract!Init
  <2> SUFFICES ASSUME Init PROVE Contract!Init
    OBVIOUS
  <2>1. Parts(lb) \in SUBSET Part
    BY ConstantsAssumption, PartsOfLeftovers DEF ConstantsAssumption, Init
  <2>2. \A w \in Worker : Status(w) = "idle" /\ Asks(request[w]) = {}
    BY DEF Init, Status, Asks, Listeners, NoRequest
  <2> QED
    BY <2>1, <2>2 DEF Init, Contract!Init
<1>4. Inv /\ [Next]_vars => [Contract!Next]_(Contract!vars)
  <2> SUFFICES ASSUME Inv, [Next]_vars
               PROVE  [Contract!Next]_(Contract!vars)
    OBVIOUS
  <2>1. WellTyped /\ \A w \in Worker : w \notin opposed => CallerInv(w)
    BY DEF Inv, CallersInv, TypeOK
  <2>2. ASSUME NEW w \in Worker, Fail(w), Opposes(w), Call(w) \/ Step(w) \/ Fault(w)
        PROVE  Contract!Next
    <3>1. Contract!End(w, "error")
      BY <2>2, EndMaps DEF Fail, Idle
    <3> QED
      BY <3>1 DEF Contract!Next, Contract!Fail
  <2>3. ASSUME NEW w \in Worker, Call(w), Opposes(w), ~Fail(w)
        PROVE  Contract!Next
    <3>1. pc[w] \in Idle /\ \E r \in Requests \union {NoRequest} :
            \E label \in {"lookup", "check", "find"} : Accept(w, r, label)
      BY <2>3
      DEF Call, EnsureLoadBalancer, UpdateLoadBalancer, EnsureLoadBalancerDeleted
    <3>2. {"lookup", "check", "find"} \subseteq Control \ Idle
      BY DEF Control, Idle, Ensuring, Deleting
    <3> QED
      BY <2>3, <3>1, <3>2, BeginMaps
  <2>4. ASSUME NEW w \in Worker, Return(w) \/ Confirm(w), Step(w), Opposes(w)
        PROVE  Contract!Next
    <3>1. Contract!End(w, "ok")
      BY <2>4, EndMaps DEF Return, Confirm, cloud, Idle
    <3>2. w \notin opposed => Parts(lb) = Asks(request[w])
      <4> SUFFICES ASSUME CallerInv(w) PROVE Parts(lb) = Asks(request[w])
        BY <2>1
      <4>1. CASE Return(w)
        BY <4>1, MatchMaps DEF Return, CallerInv, ReturnInv
      <4>2. CASE Confirm(w)
        BY <4>2
        DEF Confirm, CallerInv, DeletingInv, KindInv, Deleting, Parts, Asks,
            Listeners, NoRequest
      <4> QED
        BY <2>4, <4>1, <4>2
    <3>3. w \in Contract!Calling
      BY <2>1, <2>4, StepShape, CallingMaps
    <3>4. Contract!Succeed(w)
      BY <3>1, <3>2, <3>3 DEF Contract!Succeed
    <3> QED
      BY <3>4 DEF Contract!Next
  <2>5. ASSUME NEW w \in Worker, Step(w), Opposes(w)
        PROVE  [Contract!Next]_(Contract!vars)
    BY <2>1, <2>2, <2>4, <2>5, StepShape, WorkMaps
  <2>6. ASSUME UNCHANGED <<lb, pc, request, opposed>>
        PROVE  UNCHANGED Contract!vars
    BY <2>6 DEF Contract!vars, Status
  <2>7. CASE OutageEnds /\ UNCHANGED opposed
    BY <2>6, <2>7 DEF OutageEnds, locals
  <2>8. CASE UNCHANGED vars
    BY <2>6, <2>8 DEF vars
  <2> QED
    BY <2>2, <2>3, <2>5, <2>7, <2>8 DEF Next, Fault
<1> QED
  BY <1>1, <1>2, <1>3, <1>4, PTL DEF Spec, ImplementsContract, Contract!Spec
=============================================================================
