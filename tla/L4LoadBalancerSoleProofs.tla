---------------------- MODULE L4LoadBalancerSoleProofs ----------------------
(***************************************************************************)
(* What the requests of a single caller meet: proof that NIFCLOUD refuses  *)
(* one only because of the ports that are there already.                   *)
(***************************************************************************)
EXTENDS L4LoadBalancerProofs

(***************************************************************************)
(* The inductive invariant.  Nobody else changes the load balancer, so the *)
(* listeners, targets and filters the caller has not come to yet are those *)
(* it described; a listener it creates lacks what it is about to add.      *)
(***************************************************************************)
SameSettings(s, t) == s.targets = t.targets /\ s.filters = t.filters

SoleProvisioning(w) == pc[w] \in Provisioning =>
    /\ DOMAIN lb = DOMAIN current[w] \union (Wanted(w) \ todo[w])
    /\ todo[w] \subseteq Wanted(w) \ DOMAIN lb
    /\ pc[w] # "create" => at[w] \in DOMAIN lb /\ lb[at[w]].filters = {}
    /\ pc[w] \in {"health", "register"} => lb[at[w]].targets = {}

SoleDeleting(w) ==
    /\ pc[w] = "delete" => DOMAIN lb = Wanted(w) \union todo[w]
    /\ pc[w] = "redescribe" => DOMAIN lb = Wanted(w)

SoleReconciling(w) == pc[w] \in Reconciling =>
    /\ DOMAIN current[w] = DOMAIN lb
    /\ todo[w] \subseteq DOMAIN lb \intersect Wanted(w)
    /\ \A l \in todo[w] : SameSettings(lb[l], current[w][l])
    /\ pc[w] # "reconcile" =>
         /\ at[w] \in DOMAIN lb \ todo[w]
         /\ lb[at[w]].filters = current[w][at[w]].filters
    /\ pc[w] = "enroll" => lb[at[w]].targets = current[w][at[w]].targets
    /\ pc[w] = "withdraw" => current[w][at[w]].targets \subseteq lb[at[w]].targets

SoleInv(w) == SoleProvisioning(w) /\ SoleDeleting(w) /\ SoleReconciling(w)
SoleIInv == IsFiniteSet(DOMAIN lb) /\ \A w \in Worker : SoleInv(w)

-----------------------------------------------------------------------------
(* What a caller wants, and where a step of it leads.                      *)

LEMMA WantedFinite ==
    ASSUME WellTyped, NEW w \in Worker
    PROVE  IsFiniteSet(Wanted(w))
<1> DEFINE r == request[w]
           listenerOf(p) == IF p.nodePort = Unset THEN UnsetListener
                            ELSE [port |-> p.port, nodePort |-> p.nodePort]
<1>1. IsFiniteSet(r.ports)
  <2>1. CASE r \in Requests
    BY <2>1, ListsAssumption DEF ListsAssumption
  <2>2. CASE r = NoRequest
    BY <2>2, FS_EmptySet DEF NoRequest
  <2> QED
    BY <2>1, <2>2 DEF WellTyped
<1>2. Wanted(w) = {listenerOf(p) : p \in r.ports}
  BY DEF Wanted, Listeners
<1> DEFINE translate == [p \in r.ports |-> listenerOf(p)]
<1>3. translate \in Surjection(r.ports, {listenerOf(p) : p \in r.ports})
  <2> HIDE DEF listenerOf, r
  <2> QED
    BY DEF Surjection
<1>4. IsFiniteSet({listenerOf(p) : p \in r.ports})
  <2> HIDE DEF listenerOf, r, translate
  <2> QED
    BY <1>1, <1>3, FS_Surjection
<1> QED
  BY <1>2, <1>4

\* A request names a port.
LEMMA WantedNonempty ==
    ASSUME NEW w \in Worker, KindInv(w), pc[w] \in Ensuring \ {"lookup"}
    PROVE  Wanted(w) # {}
  BY DEF KindInv, Proper, Wanted, Listeners

LEMMA FromLabels ==
    ASSUME NEW r, NEW s, NEW ls
    PROVE  /\ NextReconcile(ls) \in {"reconcile", "return"}
           /\ FromFilter(r, s, ls) \in {"refilter", "reconcile", "return"}
           /\ FromWithdraw(r, s, ls) \in {"withdraw", "refilter", "reconcile", "return"}
           /\ FromEnroll(r, s, ls) \in {"enroll", "withdraw", "refilter", "reconcile", "return"}
  BY DEF NextReconcile, FromFilter, FromWithdraw, FromEnroll

\* Outside the loops there is nothing to be right about.
LEMMA SoleElsewhere ==
    ASSUME NEW w \in Worker,
           pc'[w] \notin Provisioning \union Reconciling \union {"delete", "redescribe"}
    PROVE  SoleInv(w)'
  BY DEF SoleInv, SoleProvisioning, SoleDeleting, SoleReconciling

LEMMA SoleFail ==
    ASSUME WellTyped, NEW w \in Worker, NEW label \in Idle, Leave(w, label)
    PROVE  SoleInv(w)' /\ pc'[w] = label
<1>1. pc'[w] = label
  BY DEF Leave, Goto, WellTyped
<1> QED
  BY <1>1, SoleElsewhere DEF Idle, Provisioning, Reconciling

-----------------------------------------------------------------------------
(* The steps of the caller: each keeps the invariant, and is refused only  *)
(* on a conflict.                                                          *)

Sole(w) ==
    /\ IsFiniteSet(DOMAIN lb) => IsFiniteSet(DOMAIN lb')
    /\ SoleInv(w)'
    /\ pc[w] \in Ensuring \ {"lookup"} /\ ~Conflict(w) /\ IsFiniteSet(DOMAIN lb)
         => pc'[w] # "failed"

LEMMA SoleDescribe ==
    ASSUME WellTyped, NEW w \in Worker, DescribeLoadBalancers(w)
    PROVE  Sole(w)
<1>1. /\ lb' = lb /\ request' = request /\ current'[w] = lb
      /\ \/ /\ Wanted(w) \ DOMAIN lb # {}
            /\ pc'[w] = "create" /\ todo'[w] = Wanted(w) \ DOMAIN lb
         \/ /\ Wanted(w) \subseteq DOMAIN lb
            /\ pc'[w] = "delete" /\ todo'[w] = DOMAIN lb \ Wanted(w)
         \/ /\ Wanted(w) = DOMAIN lb
            /\ pc'[w] = "reconcile" /\ todo'[w] = DOMAIN lb
  BY DEF DescribeLoadBalancers, cloud, WellTyped, Goto
<1>2. Wanted(w)' = Wanted(w)
  BY <1>1 DEF Wanted
<1>3. SoleInv(w)'
  BY <1>1, <1>2 DEF SoleInv, SoleProvisioning, SoleDeleting, SoleReconciling, SameSettings,
     Provisioning, Reconciling
<1> QED
  BY <1>1, <1>3 DEF Sole

LEMMA SoleCreate ==
    ASSUME WellTyped, NEW w \in Worker, SoleInv(w), CreateListener(w)
    PROVE  Sole(w)
<1>1. PICK l \in todo[w] :
         IF IF Fresh(w) /\ todo[w] = Wanted(w) THEN CanCreate(l) ELSE CanRegisterPort(l)
           THEN /\ AddListener(l)
                /\ Goto(w, "health")
                /\ todo' = [todo EXCEPT ![w] = @ \ {l}]
                /\ at' = [at EXCEPT ![w] = l]
                /\ UNCHANGED <<request, current>>
           ELSE Fail(w)
  BY DEF CreateListener
<1>2. /\ pc[w] = "create"
      /\ DOMAIN lb = DOMAIN current[w] \union (Wanted(w) \ todo[w])
      /\ todo[w] \subseteq Wanted(w) \ DOMAIN lb
  BY DEF CreateListener, SoleInv, SoleProvisioning, Provisioning
<1>3. CASE ~Conflict(w) /\ IsFiniteSet(DOMAIN lb) /\ Fail(w)
  <2>1. l \in Wanted(w) \ DOMAIN lb
    BY <1>2
  <2>2. PortFree(l) /\ l # UnsetListener
    BY <1>3, <2>1 DEF Conflict, PortFree
  <2>3. Cardinality(DOMAIN lb) < MaxPorts
    <3>1. IsFiniteSet(DOMAIN lb \union Wanted(w))
      BY <1>3, WantedFinite, FS_Union
    <3>2. /\ IsFiniteSet(DOMAIN lb \union {l})
          /\ Cardinality(DOMAIN lb \union {l}) = Cardinality(DOMAIN lb) + 1
      BY <1>3, <2>1, FS_AddElement
    <3>3. Cardinality(DOMAIN lb \union {l}) <= Cardinality(DOMAIN lb \union Wanted(w))
      BY <2>1, <3>1, FS_Subset
    <3>4. ~(Cardinality(DOMAIN lb \union Wanted(w)) > MaxPorts)
      BY <1>3 DEF Conflict
    <3>5. /\ Cardinality(DOMAIN lb) \in Nat
          /\ Cardinality(DOMAIN lb \union Wanted(w)) \in Nat
          /\ MaxPorts \in Nat
      BY <1>3, <3>1, FS_CardinalityType, ConstantsAssumption DEF ConstantsAssumption
    <3> QED
      BY <3>2, <3>3, <3>4, <3>5
  <2>4. CASE Fresh(w) /\ todo[w] = Wanted(w)
    <3>1. ~Exists
      BY <1>2, <2>4 DEF Exists, Fresh
    <3>2. Goto(w, "health")
      BY <1>1, <2>2, <2>4, <3>1 DEF CanCreate
    <3> QED
      BY <1>3, <3>2 DEF Fail, Leave, Goto, WellTyped
  <2>5. CASE ~(Fresh(w) /\ todo[w] = Wanted(w))
    <3>1. Exists
      BY <1>2, <2>5 DEF Exists, Fresh
    <3>2. Goto(w, "health")
      BY <1>1, <2>2, <2>3, <2>5, <3>1 DEF CanRegisterPort
    <3> QED
      BY <1>3, <3>2 DEF Fail, Leave, Goto, WellTyped
  <2> QED
    BY <2>4, <2>5
<1>4. CASE Fail(w) /\ (Conflict(w) \/ ~IsFiniteSet(DOMAIN lb))
  BY <1>4, SoleFail DEF Fail, Sole, Idle
<1>5. CASE ~Fail(w)
  <2>1. /\ AddListener(l)
        /\ pc'[w] = "health" /\ todo'[w] = todo[w] \ {l} /\ at'[w] = l
        /\ UNCHANGED <<request, current>>
    BY <1>1, <1>5 DEF WellTyped, Goto
  <2>2. DOMAIN lb' = DOMAIN lb \union {l} /\ lb'[l] = NewSettings
    BY <2>1 DEF AddListener
  <2>3. Wanted(w)' = Wanted(w)
    BY <2>1 DEF Wanted
  <2>4. SoleInv(w)'
    BY <1>2, <2>1, <2>2, <2>3
    DEF SoleInv, SoleProvisioning, SoleDeleting, SoleReconciling, NewSettings,
        Provisioning, Reconciling
  <2>5. IsFiniteSet(DOMAIN lb) => IsFiniteSet(DOMAIN lb')
    BY <2>2, FS_AddElement
  <2> QED
    BY <2>1, <2>4, <2>5 DEF Sole
<1> QED
  BY <1>3, <1>4, <1>5

LEMMA SoleNewListener ==
    ASSUME WellTyped, NEW w \in Worker, SoleInv(w), LocalInv(w),
           ConfigureHealthCheck(w) \/ RegisterAll(w)
    PROVE  Sole(w)
<1> DEFINE r == request[w]
           l == at[w]
<1>1. /\ pc[w] \in {"health", "register"}
      /\ DOMAIN lb = DOMAIN current[w] \union (Wanted(w) \ todo[w])
      /\ todo[w] \subseteq Wanted(w) \ DOMAIN lb
      /\ l \in DOMAIN lb /\ lb[l].filters = {} /\ lb[l].targets = {}
  BY DEF ConfigureHealthCheck, RegisterAll, SoleInv, SoleProvisioning, Provisioning
<1>2. CanRegister(l, Targets(r))
  BY <1>1 DEF CanRegister
<1>3. /\ UNCHANGED <<request, current, todo, at>>
      /\ \/ SetHealth(l, r.health) /\ pc'[w] = "register"
         \/ AddTargets(l, Targets(r)) /\ pc'[w] = "filter"
  BY <1>1, <1>2 DEF ConfigureHealthCheck, RegisterAll, locals, Goto, WellTyped
<1>4. DOMAIN lb' = DOMAIN lb /\ lb'[l].filters = {}
      /\ (pc'[w] = "register" => lb'[l].targets = {})
  BY <1>1, <1>3 DEF SetHealth, AddTargets, WellTyped, IsLoadBalancer, Settings
<1>5. Wanted(w)' = Wanted(w)
  BY <1>3 DEF Wanted
<1>6. SoleInv(w)'
  BY <1>1, <1>3, <1>4, <1>5
  DEF SoleInv, SoleProvisioning, SoleDeleting, SoleReconciling, Provisioning, Reconciling
<1> QED
  BY <1>3, <1>4, <1>6 DEF Sole

LEMMA SoleFilters ==
    ASSUME WellTyped, NEW w \in Worker, SoleInv(w), SetAllFilters(w)
    PROVE  Sole(w)
<1> DEFINE r == request[w]
           l == at[w]
<1>1. /\ pc[w] = "filter"
      /\ DOMAIN lb = DOMAIN current[w] \union (Wanted(w) \ todo[w])
      /\ todo[w] \subseteq Wanted(w) \ DOMAIN lb
      /\ l \in DOMAIN lb /\ lb[l].filters = {}
  BY DEF SetAllFilters, SoleInv, SoleProvisioning, Provisioning
<1>2. CanSetFilter(l, Filters(r), {})
  BY <1>1 DEF CanSetFilter
<1>3. /\ UNCHANGED <<request, current>>
      /\ ChangeFilters(l, Filters(r), {})
      /\ pc'[w] = NextCreate(w, todo[w])
      /\ todo'[w] = IF todo[w] = {} /\ ~Fresh(w) THEN Unwanted(w) ELSE todo[w]
  BY <1>1, <1>2 DEF SetAllFilters, Goto, WellTyped
<1>4. DOMAIN lb' = DOMAIN lb
  BY <1>3 DEF ChangeFilters
<1>5. Wanted(w)' = Wanted(w)
  BY <1>3 DEF Wanted
<1>6. SoleInv(w)'
  <2>1. CASE todo[w] # {}
    BY <1>1, <1>3, <1>4, <1>5, <2>1
    DEF NextCreate, SoleInv, SoleProvisioning, SoleDeleting, SoleReconciling, Provisioning,
        Reconciling
  <2>2. CASE todo[w] = {}
    BY <1>1, <1>3, <1>4, <1>5, <2>2
    DEF NextCreate, SoleInv, SoleProvisioning, SoleDeleting, SoleReconciling, Provisioning,
        Reconciling, Unwanted
  <2> QED
    BY <2>1, <2>2
<1> QED
  BY <1>3, <1>4, <1>6 DEF Sole, NextCreate

LEMMA SoleDelete ==
    ASSUME WellTyped, NEW w \in Worker, SoleInv(w), LocalInv(w), DeleteListener(w)
    PROVE  Sole(w)
<1>1. /\ pc[w] = "delete"
      /\ DOMAIN lb = Wanted(w) \union todo[w]
      /\ todo[w] \intersect Wanted(w) = {}
  BY DEF DeleteListener, SoleInv, SoleDeleting, LocalInv
<1>2. PICK l \in todo[w] :
         /\ RemoveListener(l)
         /\ Goto(w, NextDelete(todo[w] \ {l}))
         /\ todo' = [todo EXCEPT ![w] = @ \ {l}]
         /\ UNCHANGED <<request, current, at>>
  BY <1>1 DEF DeleteListener
<1>3. DOMAIN lb' = DOMAIN lb \ {l}
  BY <1>2, RemoveListenerType DEF WellTyped
<1>4. /\ pc'[w] = NextDelete(todo[w] \ {l})
      /\ todo'[w] = todo[w] \ {l}
  BY <1>2 DEF Goto, WellTyped
<1>5. Wanted(w)' = Wanted(w)
  BY <1>2 DEF Wanted
<1>6. SoleInv(w)'
  BY <1>1, <1>3, <1>4, <1>5
  DEF NextDelete, SoleInv, SoleProvisioning, SoleDeleting, SoleReconciling, Provisioning,
      Reconciling
<1>7. IsFiniteSet(DOMAIN lb) => IsFiniteSet(DOMAIN lb')
  BY <1>3, FS_Subset
<1> QED
  BY <1>4, <1>6, <1>7 DEF Sole, NextDelete

LEMMA SoleRedescribe ==
    ASSUME WellTyped, NEW w \in Worker, SoleInv(w), LocalInv(w), Redescribe(w)
    PROVE  Sole(w)
<1>1. DOMAIN lb = Wanted(w) /\ DOMAIN lb # {}
  BY WantedNonempty DEF Redescribe, SoleInv, SoleDeleting, LocalInv, Ensuring
<1>2. /\ lb' = lb /\ request' = request
      /\ pc'[w] = "reconcile" /\ current'[w] = lb /\ todo'[w] = DOMAIN lb
  BY <1>1 DEF Redescribe, Exists, Goto, WellTyped
<1>3. Wanted(w)' = Wanted(w)
  BY <1>2 DEF Wanted
<1>4. SoleInv(w)'
  BY <1>1, <1>2, <1>3
  DEF SoleInv, SoleProvisioning, SoleDeleting, SoleReconciling, SameSettings, Provisioning,
      Reconciling
<1> QED
  BY <1>2, <1>4 DEF Sole

LEMMA SoleReconcileListener ==
    ASSUME WellTyped, NEW w \in Worker, SoleInv(w), ReconcileListener(w)
    PROVE  Sole(w)
<1>1. /\ pc[w] = "reconcile"
      /\ DOMAIN current[w] = DOMAIN lb
      /\ todo[w] \subseteq DOMAIN lb \intersect Wanted(w)
      /\ \A l \in todo[w] : SameSettings(lb[l], current[w][l])
  BY DEF ReconcileListener, SoleInv, SoleReconciling, Reconciling
<1>2. PICK l \in todo[w] :
         /\ Goto(w, FromEnroll(request[w], current[w][l], todo[w] \ {l}))
         /\ todo' = [todo EXCEPT ![w] = todo[w] \ {l}]
         /\ at' = [at EXCEPT ![w] = l]
         /\ UNCHANGED <<lb, request, current>>
  BY <1>1 DEF ReconcileListener
<1>3. /\ pc'[w] \in {"enroll", "withdraw", "refilter", "reconcile", "return"}
      /\ todo'[w] = todo[w] \ {l} /\ at'[w] = l
  BY <1>2, FromLabels DEF Goto, WellTyped
<1>4. Wanted(w)' = Wanted(w)
  BY <1>2 DEF Wanted
<1>5. SoleInv(w)'
  BY <1>1, <1>2, <1>3, <1>4
  DEF SoleInv, SoleProvisioning, SoleDeleting, SoleReconciling, SameSettings, Provisioning,
      Reconciling
<1> QED
  BY <1>2, <1>3, <1>5 DEF Sole

LEMMA SoleSettle ==
    ASSUME WellTyped, NEW w \in Worker, SoleInv(w),
           RegisterInstances(w) \/ DeregisterInstances(w) \/ SetFilter(w)
    PROVE  Sole(w)
<1> DEFINE r == request[w]
           l == at[w]
           described == current[w][l]
<1>1. /\ pc[w] \in {"enroll", "withdraw", "refilter"}
      /\ DOMAIN current[w] = DOMAIN lb
      /\ todo[w] \subseteq DOMAIN lb \intersect Wanted(w)
      /\ \A m \in todo[w] : SameSettings(lb[m], current[w][m])
      /\ l \in DOMAIN lb \ todo[w]
      /\ lb[l].filters = described.filters
      /\ pc[w] = "enroll" => lb[l].targets = described.targets
      /\ pc[w] = "withdraw" => described.targets \subseteq lb[l].targets
  BY DEF RegisterInstances, DeregisterInstances, SetFilter, SoleInv, SoleReconciling,
     Reconciling
<1>2. /\ UNCHANGED <<request, current, todo, at>>
      /\ \/ /\ AddTargets(l, ToRegister(r, described))
            /\ pc[w] = "enroll"
            /\ pc'[w] = FromWithdraw(r, described, todo[w])
         \/ /\ RemoveTargets(l, ToDeregister(r, described))
            /\ pc'[w] = FromFilter(r, described, todo[w])
         \/ /\ ChangeFilters(l, ToAuthorize(r, described), ToRevoke(r, described))
            /\ pc'[w] = NextReconcile(todo[w])
  <2>1. CASE RegisterInstances(w)
    <3>1. CanRegister(l, ToRegister(r, described)) /\ pc[w] = "enroll"
      BY <1>1, <2>1 DEF RegisterInstances, CanRegister, ToRegister
    <3> QED
      BY <2>1, <3>1 DEF RegisterInstances, locals, Goto, WellTyped
  <2>2. CASE DeregisterInstances(w)
    <3>1. CanDeregister(l, ToDeregister(r, described))
      BY <1>1, <2>2 DEF DeregisterInstances, CanDeregister, ToDeregister
    <3> QED
      BY <2>2, <3>1 DEF DeregisterInstances, locals, Goto, WellTyped
  <2>3. CASE SetFilter(w)
    <3>1. CanSetFilter(l, ToAuthorize(r, described), ToRevoke(r, described))
      BY <1>1, <2>3 DEF SetFilter, CanSetFilter, ToAuthorize, ToRevoke
    <3> QED
      BY <2>3, <3>1 DEF SetFilter, locals, Goto, WellTyped
  <2> QED
    BY <2>1, <2>2, <2>3
<1>3. /\ DOMAIN lb' = DOMAIN lb
      /\ \A m \in DOMAIN lb \ {l} : lb'[m] = lb[m]
  BY <1>2 DEF AddTargets, RemoveTargets, ChangeFilters, WellTyped, IsLoadBalancer
<1>4. /\ pc'[w] \in {"withdraw", "refilter", "reconcile", "return"}
      /\ pc'[w] = "withdraw" => AddTargets(l, ToRegister(r, described)) /\ pc[w] = "enroll"
      /\ pc'[w] \in {"withdraw", "refilter"} =>
           AddTargets(l, ToRegister(r, described))
             \/ RemoveTargets(l, ToDeregister(r, described))
  BY <1>2, FromLabels
<1>5. /\ pc'[w] \in {"withdraw", "refilter"} => lb'[l].filters = lb[l].filters
      /\ pc'[w] = "withdraw" => described.targets \subseteq lb'[l].targets
  BY <1>1, <1>4 DEF AddTargets, RemoveTargets, WellTyped, IsLoadBalancer, Settings
<1>6. Wanted(w)' = Wanted(w)
  BY <1>2 DEF Wanted
<1>7. SoleInv(w)'
  BY <1>1, <1>2, <1>3, <1>4, <1>5, <1>6
  DEF SoleInv, SoleProvisioning, SoleDeleting, SoleReconciling, Provisioning, Reconciling
<1> QED
  BY <1>3, <1>4, <1>7 DEF Sole

\* The other steps are in no loop, or end the call.
LEMMA SoleOther ==
    ASSUME WellTyped, NEW w \in Worker,
           \/ DescribeInstances(w) \/ Return(w) \/ CheckExists(w)
           \/ FindListeners(w) \/ DeleteFound(w) \/ Confirm(w)
    PROVE  Sole(w)
<1>1. /\ pc'[w] \in {"describe", "lookup", "remove", "confirm", "done", "deleted", "failed"}
      /\ pc'[w] = "failed" => pc[w] \notin Ensuring \ {"lookup"}
  BY DEF DescribeInstances, Return, CheckExists, FindListeners, DeleteFound, Confirm,
     Fail, Leave, Goto, WellTyped, Ensuring, Provisioning, Reconciling
<1>2. IsFiniteSet(DOMAIN lb) => IsFiniteSet(DOMAIN lb')
  <2>1. lb' = lb \/ \E l : RemoveListener(l)
    BY DEF DescribeInstances, Return, CheckExists, FindListeners, DeleteFound, Confirm,
       Fail, cloud
  <2>2. DOMAIN lb' \subseteq DOMAIN lb
    BY <2>1, RemoveListenerType DEF WellTyped
  <2> QED
    BY <2>2, FS_Subset
<1> QED
  BY <1>1, <1>2, SoleElsewhere DEF Sole, Provisioning, Reconciling

LEMMA SoleStep ==
    ASSUME Inv, NEW w \in Worker, SoleInv(w), Step(w)
    PROVE  Sole(w)
<1>1. WellTyped /\ LocalInv(w)
  BY DEF Inv, TypeOK, CallersInv
<1> QED
  BY <1>1, SoleDescribe, SoleCreate, SoleNewListener, SoleFilters, SoleDelete,
     SoleRedescribe, SoleReconcileListener, SoleSettle, SoleOther DEF Step

-----------------------------------------------------------------------------
(* The theorem.                                                            *)

LEMMA SoleInit == Init => SoleIInv
<1> SUFFICES ASSUME Init PROVE SoleIInv
  OBVIOUS
<1>1. IsFiniteSet(DOMAIN lb)
  BY ListsAssumption DEF ListsAssumption, Init
<1>2. \A w \in Worker : SoleInv(w)
  BY DEF Init, SoleInv, SoleProvisioning, SoleDeleting, SoleReconciling, Provisioning,
     Reconciling
<1> QED
  BY <1>1, <1>2 DEF SoleIInv

LEMMA SoleNext ==
    ASSUME \A v, w \in Worker : v = w, Inv, SoleIInv, [Next]_vars
    PROVE  /\ SoleIInv'
           /\ \A w \in Worker : Answered(w) /\ ~Conflict(w) => pc'[w] # "failed"
<1>1. WellTyped
  BY DEF Inv, TypeOK
<1>2. ASSUME NEW w \in Worker, Step(w)
      PROVE  SoleIInv' /\ (Answered(w) /\ ~Conflict(w) => pc'[w] # "failed")
  <2>1. Sole(w)
    BY <1>2, SoleStep DEF SoleIInv
  <2> QED
    BY <2>1 DEF Sole, SoleIInv, Answered
<1>3. ASSUME NEW w \in Worker, Call(w) \/ Fault(w)
      PROVE  SoleIInv' /\ ~Answered(w)
  <2>1. /\ lb' = lb
        /\ pc'[w] \in {"lookup", "check", "find", "failed"}
    BY <1>1, <1>3 DEF Call, Fault, EnsureLoadBalancer, UpdateLoadBalancer,
       EnsureLoadBalancerDeleted, Accept, Fail, Leave, Goto, WellTyped
  <2>2. SoleInv(w)'
    BY <2>1, SoleElsewhere DEF Provisioning, Reconciling
  <2>3. ~Answered(w)
    BY <1>3 DEF Call, Fault, EnsureLoadBalancer, UpdateLoadBalancer,
       EnsureLoadBalancerDeleted, Answered, Idle, Ensuring, Provisioning, Reconciling
  <2> QED
    BY <2>1, <2>2, <2>3 DEF SoleIInv
<1>4. CASE OutageEnds \/ UNCHANGED vars
  <2>1. UNCHANGED <<lb, pc, request, current, todo, at>>
    BY <1>4 DEF OutageEnds, locals, vars
  <2>2. SoleIInv'
    BY <2>1 DEF SoleIInv, SoleInv, SoleProvisioning, SoleDeleting, SoleReconciling, Wanted
  <2>3. \A w \in Worker : Answered(w) => pc[w] # "failed"
    BY DEF Answered, Ensuring, Provisioning, Reconciling
  <2> QED
    BY <2>1, <2>2, <2>3
<1> QED
  BY <1>2, <1>3, <1>4 DEF Next

\* When NIFCLOUD answers every request, an Ensure or an Update of a single caller
\* that has found its instances fails only when a port it asks for is taken by a
\* listener of another node port, has no node port, or makes too many, whatever
\* load balancer, however misshapen, earlier calls and their failures left.
THEOREM RefusedOnlyOnConflict ==
    ASSUME \A v, w \in Worker : v = w
    PROVE  Spec => RefusedOnConflictOnly
<1>1. Init => Inv /\ SoleIInv
  BY InitInv, SoleInit
<1>2. Inv /\ SoleIInv /\ [Next]_vars => Inv' /\ SoleIInv'
  BY NextInv, SoleNext
<1>3. Inv /\ SoleIInv /\ [Next]_vars
        => [\A w \in Worker : Answered(w) /\ ~Conflict(w) => pc'[w] # "failed"]_vars
  BY SoleNext
<1> QED
  BY <1>1, <1>2, <1>3, PTL DEF Spec, RefusedOnConflictOnly
=============================================================================
