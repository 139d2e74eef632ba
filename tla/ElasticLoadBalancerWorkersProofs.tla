------------------ MODULE ElasticLoadBalancerWorkersProofs ------------------
(***************************************************************************)
(* Proof that two workers on one elastic load balancer implement the       *)
(* contract.  What each of them does is taken from the lemmas about one    *)
(* caller, by way of the instances; what is left is that a worker nobody   *)
(* opposed is undisturbed by the steps of the other one.                   *)
(***************************************************************************)
EXTENDS ElasticLoadBalancerWorkers, TLAPS

\* The two instances speak of the same data.
LEMMA SameData ==
    /\ ServiceWorker!Listener = NodeWorker!Listener
    /\ \A c : ServiceWorker!IsLoadBalancer(c) <=> NodeWorker!IsLoadBalancer(c)
    /\ ServiceWorker!Rule = NodeWorker!Rule
    /\ \A S : ServiceWorker!IsFiniteSet(S) <=> NodeWorker!IsFiniteSet(S)
  BY DEF ServiceWorker!IsFiniteSet, NodeWorker!IsFiniteSet,
     ServiceWorker!Listener, NodeWorker!Listener,
     ServiceWorker!IsLoadBalancer, NodeWorker!IsLoadBalancer,
     ServiceWorker!Settings, NodeWorker!Settings,
     ServiceWorker!HealthProtocol, NodeWorker!HealthProtocol,
     ServiceWorker!Rule, NodeWorker!Rule, ServiceWorker!Ping, NodeWorker!Ping

\* What is assumed of the constants for one worker holds for the other.
LEMMA NodeAssumptions == NodeWorker!ConstantsAssumption /\ NodeWorker!ServiceAssumption
  BY CallerAssumptions, SameData
  DEF CallerAssumptions, ServiceWorker!ConstantsAssumption, NodeWorker!ConstantsAssumption,
      ServiceWorker!ServiceAssumption, NodeWorker!ServiceAssumption,
      ServiceWorker!Request, NodeWorker!Request,
      ServiceWorker!HealthProtocol, NodeWorker!HealthProtocol

\* The invariant: each worker is in a state of its code, finds what it takes to
\* be there as long as nobody opposed it, and only calls are opposed.
CallerInvOf(w) == IF w = "service" THEN ServiceWorker!CallerInv ELSE NodeWorker!CallerInv
Calling == {w \in Worker : statusOf[w] = "calling"}

IInv ==
    /\ ServiceWorker!Inv
    /\ NodeWorker!Inv
    /\ \A w \in Worker \ opposed : CallerInvOf(w)
    /\ opposed \subseteq Calling

-----------------------------------------------------------------------------
(* The effects of a step of worker w, as the contract sees them.           *)

\* The listeners come no further from what worker v wants.
Helps(v) ==
    /\ DOMAIN elb' \subseteq DOMAIN elb \union wanted[v]
    /\ DOMAIN elb \intersect wanted[v] \subseteq DOMAIN elb'

Works(w) ==
    /\ statusOf[w] = "calling" /\ statusOf'[w] = "calling"
    /\ wanted'[w] = wanted[w]
    /\ Helps(w)
    /\ w \notin opposed /\ wanted[w] # {} /\ DOMAIN elb # {} => DOMAIN elb' # {}
Begins(w) ==
    /\ statusOf[w] # "calling" /\ statusOf'[w] = "calling"
    /\ wanted'[w] \subseteq ServiceWorker!Listener
    /\ elb' = elb
Ends(w, outcome) == statusOf'[w] = outcome /\ wanted'[w] = {} /\ elb' = elb
Succeeds(w) ==
    /\ statusOf[w] = "calling"
    /\ w \notin opposed => DOMAIN elb = wanted[w]
    /\ Ends(w, "ok")
Effect(w) == Works(w) \/ Begins(w) \/ Ends(w, "error") \/ Succeeds(w)

LEMMA ServiceEffect ==
    ASSUME IInv, ServiceWorker!Call \/ ServiceWorker!Step \/ ServiceWorker!Fault
    PROVE  ServiceWorker!Kept /\ Effect("service")
<1> USE CallerAssumptions DEF CallerAssumptions, ServiceWorker!ConstantsAssumption,
        ServiceWorker!ServiceAssumption
<1>1. ServiceWorker!Inv
  BY DEF IInv
<1>2. ServiceWorker!Kept
  BY <1>1, ServiceWorker!StepInv
<1>3. \/ ServiceWorker!Beginning \/ ServiceWorker!Ending("error")
      \/ ServiceWorker!Working \/ ServiceWorker!Succeeding
  BY <1>1, ServiceWorker!CallEffect, ServiceWorker!StepEffect
<1>4. "service" \notin opposed => ServiceWorker!CallerInv
  BY DEF IInv, Worker, CallerInvOf
<1>5. Effect("service")
  BY <1>3, <1>4
  DEF Effect, Works, Begins, Ends, Succeeds, Helps, statusOf, wanted, Worker,
      ServiceWorker!Beginning, ServiceWorker!Ending, ServiceWorker!Working,
      ServiceWorker!Succeeding, ServiceWorker!Helpful, ServiceWorker!Exists
<1> QED
  BY <1>2, <1>5

LEMMA NodeEffect ==
    ASSUME IInv, NodeWorker!Call \/ NodeWorker!Step \/ NodeWorker!Fault
    PROVE  NodeWorker!Kept /\ Effect("nodes")
<1> USE NodeAssumptions DEF NodeWorker!ConstantsAssumption, NodeWorker!ServiceAssumption
<1>1. NodeWorker!Inv
  BY DEF IInv
<1>2. NodeWorker!Kept
  BY <1>1, NodeWorker!StepInv
<1>3. \/ NodeWorker!Beginning \/ NodeWorker!Ending("error")
      \/ NodeWorker!Working \/ NodeWorker!Succeeding
  BY <1>1, NodeWorker!CallEffect, NodeWorker!StepEffect
<1>4. "nodes" \notin opposed => NodeWorker!CallerInv
  BY DEF IInv, Worker, CallerInvOf
<1>5. Effect("nodes")
  BY <1>3, <1>4, SameData
  DEF Effect, Works, Begins, Ends, Succeeds, Helps, statusOf, wanted, Worker,
      NodeWorker!Beginning, NodeWorker!Ending, NodeWorker!Working,
      NodeWorker!Succeeding, NodeWorker!Helpful, NodeWorker!Exists
<1> QED
  BY <1>2, <1>5

-----------------------------------------------------------------------------
(* The worker that does not step.                                          *)

LEMMA NodeUndisturbed ==
    ASSUME IInv, UNCHANGED nodeVars, ServiceWorker!Inv'
    PROVE  /\ NodeWorker!Inv'
           /\ NodeWorker!CallerInv /\ Helps("nodes") => NodeWorker!CallerInv'
           /\ statusOf'["nodes"] = statusOf["nodes"]
           /\ wanted'["nodes"] = wanted["nodes"]
<1> USE NodeAssumptions DEF NodeWorker!ConstantsAssumption, NodeWorker!ServiceAssumption
<1>1. UNCHANGED <<nodePc, nodeRequest, nodeCurrent, nodeTodo, nodeAt, nodeGrants>>
  BY DEF nodeVars
<1>2. ServiceWorker!IsLoadBalancer(elb') /\ rules' \subseteq Group \X ServiceWorker!Rule
        /\ outage' \in BOOLEAN
  BY DEF ServiceWorker!Inv, ServiceWorker!TypeOK
<1>3. NodeWorker!Inv' /\ (NodeWorker!CallerInv /\ NodeWorker!Helpful => NodeWorker!CallerInv')
  BY <1>1, <1>2, SameData, NodeWorker!OthersInv DEF IInv
<1>4. statusOf'["nodes"] = statusOf["nodes"] /\ wanted'["nodes"] = wanted["nodes"]
  BY <1>1 DEF statusOf, wanted, Worker, NodeWorker!Status, NodeWorker!Wanted
<1>5. Helps("nodes") <=> NodeWorker!Helpful
  BY DEF Helps, NodeWorker!Helpful, wanted, Worker
<1> QED
  BY <1>3, <1>4, <1>5

LEMMA ServiceUndisturbed ==
    ASSUME IInv, UNCHANGED serviceVars, NodeWorker!Inv'
    PROVE  /\ ServiceWorker!Inv'
           /\ ServiceWorker!CallerInv /\ Helps("service") => ServiceWorker!CallerInv'
           /\ statusOf'["service"] = statusOf["service"]
           /\ wanted'["service"] = wanted["service"]
<1> USE CallerAssumptions DEF CallerAssumptions, ServiceWorker!ConstantsAssumption,
        ServiceWorker!ServiceAssumption
<1>1. UNCHANGED <<servicePc, serviceRequest, serviceCurrent, serviceTodo, serviceAt,
                  serviceGrants>>
  BY DEF serviceVars
<1>2. NodeWorker!IsLoadBalancer(elb') /\ rules' \subseteq Group \X NodeWorker!Rule
        /\ outage' \in BOOLEAN
  BY DEF NodeWorker!Inv, NodeWorker!TypeOK
<1>3. /\ ServiceWorker!Inv'
      /\ ServiceWorker!CallerInv /\ ServiceWorker!Helpful => ServiceWorker!CallerInv'
  BY <1>1, <1>2, SameData, ServiceWorker!OthersInv DEF IInv
<1>4. statusOf'["service"] = statusOf["service"] /\ wanted'["service"] = wanted["service"]
  BY <1>1 DEF statusOf, wanted, Worker, ServiceWorker!Status, ServiceWorker!Wanted
<1>5. Helps("service") <=> ServiceWorker!Helpful
  BY DEF Helps, ServiceWorker!Helpful, wanted, Worker
<1> QED
  BY <1>3, <1>4, <1>5

\* Outside a call there is nothing to be right about.
LEMMA AtRest ==
    ASSUME NEW w \in Worker, statusOf'[w] # "calling"
    PROVE  CallerInvOf(w)'
<1>1. CASE w = "service"
  BY <1>1, ServiceWorker!RestInv, CallerAssumptions
  DEF statusOf, Worker, CallerInvOf, CallerAssumptions, ServiceWorker!ConstantsAssumption,
      ServiceWorker!ServiceAssumption
<1>2. CASE w = "nodes"
  BY <1>2, NodeWorker!RestInv, NodeAssumptions
  DEF statusOf, Worker, CallerInvOf, NodeWorker!ConstantsAssumption,
      NodeWorker!ServiceAssumption
<1> QED
  BY <1>1, <1>2 DEF Worker

\* Nobody is left wrong by a step of w: whoever it gets in the way of is opposed.
LEMMA OpposesInv ==
    ASSUME IInv, NEW w \in Worker, NEW v \in Worker, Worker = {w, v},
           Opposes(w), Effect(w),
           CallerInvOf(w) => CallerInvOf(w)',
           CallerInvOf(v) /\ Helps(v) => CallerInvOf(v)',
           statusOf'[v] = statusOf[v]
    PROVE  /\ \A u \in Worker \ opposed' : CallerInvOf(u)'
           /\ opposed' \subseteq Calling'
<1>1. opposed' \subseteq Calling'
  BY DEF Opposes, Calling
<1>2. ASSUME NEW u \in Worker, u \notin opposed' PROVE CallerInvOf(u)'
  <2>1. CASE statusOf'[u] # "calling"
    BY <2>1, AtRest
  <2>2. CASE statusOf'[u] = "calling"
    <3>1. u \notin opposed /\ (DOMAIN elb' = DOMAIN elb \/ wanted[u] = wanted[w])
      BY <1>2, <2>2 DEF Opposes
    <3>2. CallerInvOf(u)
      BY <3>1 DEF IInv
    <3>3. Helps(u)
      BY <3>1 DEF Helps, Effect, Works, Begins, Ends, Succeeds
    <3> QED
      BY <3>2, <3>3
  <2> QED
    BY <2>1, <2>2
<1> QED
  BY <1>1, <1>2

\* What a step of w does to the listeners and to the calls, the contract allows.
LEMMA EffectContract ==
    ASSUME IInv, NEW w \in Worker, NEW v \in Worker, Worker = {w, v}, w # v,
           Opposes(w), Effect(w),
           statusOf'[v] = statusOf[v], wanted'[v] = wanted[v]
    PROVE  [Contract!Next]_(Contract!vars)
<1>1. /\ statusOf = [u \in Worker |-> statusOf[u]] /\ wanted = [u \in Worker |-> wanted[u]]
      /\ statusOf' = [u \in Worker |-> statusOf'[u]] /\ wanted' = [u \in Worker |-> wanted'[u]]
  BY DEF statusOf, wanted
<1>2. /\ statusOf' = [statusOf EXCEPT ![w] = statusOf'[w]]
      /\ wanted' = [wanted EXCEPT ![w] = wanted'[w]]
  BY <1>1
<1>3. opposed \subseteq Calling /\ opposed' \subseteq Worker
  BY DEF IInv, Opposes
<1>4. CASE Works(w)
  <2>1. UNCHANGED <<statusOf, wanted>>
    BY <1>1, <1>4 DEF Works
  <2>2. CASE DOMAIN elb' = DOMAIN elb
    <3>1. opposed' = opposed
      BY <1>3, <2>1, <2>2 DEF Opposes, Calling
    <3> QED
      BY <2>1, <2>2, <3>1 DEF Contract!vars
  <2>3. CASE DOMAIN elb' # DOMAIN elb
    <3>1. opposed' = opposed \union {u \in Contract!Calling : wanted[u] # wanted[w]}
      BY <1>3, <2>1, <2>3 DEF Opposes, Calling, Contract!Calling
    <3>2. Contract!Work(w)
      BY <1>4, <2>1, <3>1 DEF Works, Helps, Contract!Work, Contract!Calling
    <3> QED
      BY <3>2 DEF Contract!Next
  <2> QED
    BY <2>2, <2>3
<1>5. CASE Begins(w)
  <2>1. opposed' = opposed
    BY <1>3, <1>5 DEF Opposes, Begins, Calling
  <2>2. Contract!Begin(w, wanted'[w])
    BY <1>2, <1>5, <2>1 DEF Begins, Contract!Begin, Contract!Calling
  <2> QED
    BY <1>5, <2>2 DEF Begins, Contract!Next
<1>6. ASSUME NEW outcome \in {"ok", "error"}, Ends(w, outcome)
      PROVE  Contract!End(w, outcome)
  <2>1. opposed' = opposed \ {w}
    BY <1>3, <1>6 DEF Opposes, Ends, Calling
  <2> QED
    BY <1>2, <1>6, <2>1 DEF Ends, Contract!End
<1>7. CASE Ends(w, "error")
  BY <1>6, <1>7 DEF Contract!Next, Contract!Fail
<1>8. CASE Succeeds(w)
  <2>1. Contract!Succeed(w)
    BY <1>6, <1>8 DEF Succeeds, Contract!Succeed, Contract!Calling
  <2> QED
    BY <2>1 DEF Contract!Next
<1> QED
  BY <1>4, <1>5, <1>7, <1>8 DEF Effect

-----------------------------------------------------------------------------
(* The steps of each worker, and the theorems.                             *)

LEMMA ServiceMoves ==
    ASSUME IInv, ServiceStep \/ ((ServiceCall \/ ServiceWorker!Fault)
                                   /\ UNCHANGED nodeVars /\ Opposes("service"))
    PROVE  IInv' /\ [Contract!Next]_(Contract!vars)
<1>1. UNCHANGED nodeVars /\ Opposes("service")
  BY DEF ServiceStep
<1>2. ServiceWorker!Call \/ ServiceWorker!Step \/ ServiceWorker!Fault
  BY DEF ServiceStep, ServiceCall, ServiceWorker!Call
<1>3. ServiceWorker!Kept /\ Effect("service")
  BY <1>2, ServiceEffect
<1>4. ServiceWorker!Inv' /\ (ServiceWorker!CallerInv => ServiceWorker!CallerInv')
  BY <1>3 DEF ServiceWorker!Kept
<1>5. /\ NodeWorker!Inv'
      /\ NodeWorker!CallerInv /\ Helps("nodes") => NodeWorker!CallerInv'
      /\ statusOf'["nodes"] = statusOf["nodes"]
      /\ wanted'["nodes"] = wanted["nodes"]
  BY <1>1, <1>4, NodeUndisturbed
<1>6. /\ CallerInvOf("service") => CallerInvOf("service")'
      /\ CallerInvOf("nodes") /\ Helps("nodes") => CallerInvOf("nodes")'
  BY <1>4, <1>5 DEF CallerInvOf
<1>7. IInv'
  BY <1>1, <1>3, <1>4, <1>5, <1>6, OpposesInv DEF IInv, Worker
<1>8. [Contract!Next]_(Contract!vars)
  BY <1>1, <1>3, <1>5, EffectContract DEF Worker
<1> QED
  BY <1>7, <1>8

LEMMA NodeMoves ==
    ASSUME IInv, NodeStep \/ ((NodeCall \/ NodeWorker!Fault)
                                /\ UNCHANGED serviceVars /\ Opposes("nodes"))
    PROVE  IInv' /\ [Contract!Next]_(Contract!vars)
<1>1. UNCHANGED serviceVars /\ Opposes("nodes")
  BY DEF NodeStep
<1>2. NodeWorker!Call \/ NodeWorker!Step \/ NodeWorker!Fault
  BY DEF NodeStep, NodeCall, NodeWorker!Call
<1>3. NodeWorker!Kept /\ Effect("nodes")
  BY <1>2, NodeEffect
<1>4. NodeWorker!Inv' /\ (NodeWorker!CallerInv => NodeWorker!CallerInv')
  BY <1>3 DEF NodeWorker!Kept
<1>5. /\ ServiceWorker!Inv'
      /\ ServiceWorker!CallerInv /\ Helps("service") => ServiceWorker!CallerInv'
      /\ statusOf'["service"] = statusOf["service"]
      /\ wanted'["service"] = wanted["service"]
  BY <1>1, <1>4, ServiceUndisturbed
<1>6. /\ CallerInvOf("nodes") => CallerInvOf("nodes")'
      /\ CallerInvOf("service") /\ Helps("service") => CallerInvOf("service")'
  BY <1>4, <1>5 DEF CallerInvOf
<1>7. IInv'
  BY <1>1, <1>3, <1>4, <1>5, <1>6, OpposesInv DEF IInv, Worker
<1>8. [Contract!Next]_(Contract!vars)
  BY <1>1, <1>3, <1>5, EffectContract DEF Worker
<1> QED
  BY <1>7, <1>8

\* The end of an outage, or nothing at all.
LEMMA Stutters ==
    ASSUME IInv, (ServiceWorker!OutageEnds /\ UNCHANGED <<nodeVars, opposed>>)
                   \/ UNCHANGED vars
    PROVE  IInv' /\ UNCHANGED Contract!vars
<1>1. /\ UNCHANGED <<elb, rules, opposed>> /\ outage' \in BOOLEAN
      /\ UNCHANGED <<servicePc, serviceRequest, serviceCurrent, serviceTodo, serviceAt,
                     serviceGrants>>
      /\ UNCHANGED <<nodePc, nodeRequest, nodeCurrent, nodeTodo, nodeAt, nodeGrants>>
  BY DEF ServiceWorker!OutageEnds, ServiceWorker!locals, vars, serviceVars, nodeVars, IInv,
     ServiceWorker!Inv, ServiceWorker!TypeOK
<1>2. ServiceWorker!IsLoadBalancer(elb') /\ rules' \subseteq Group \X ServiceWorker!Rule
  BY <1>1 DEF IInv, ServiceWorker!Inv, ServiceWorker!TypeOK
<1>3. ServiceWorker!Helpful /\ NodeWorker!Helpful
  BY <1>1 DEF ServiceWorker!Helpful, NodeWorker!Helpful
<1>4. ServiceWorker!Inv' /\ (ServiceWorker!CallerInv => ServiceWorker!CallerInv')
  BY <1>1, <1>2, <1>3, ServiceWorker!OthersInv, CallerAssumptions
  DEF IInv, CallerAssumptions, ServiceWorker!ConstantsAssumption,
      ServiceWorker!ServiceAssumption
<1>5. NodeWorker!Inv' /\ (NodeWorker!CallerInv => NodeWorker!CallerInv')
  BY <1>1, <1>2, <1>3, SameData, NodeWorker!OthersInv, NodeAssumptions
  DEF IInv, NodeWorker!ConstantsAssumption, NodeWorker!ServiceAssumption
<1>6. UNCHANGED <<statusOf, wanted>>
  BY <1>1 DEF statusOf, wanted, ServiceWorker!Status, NodeWorker!Status,
     ServiceWorker!Wanted, NodeWorker!Wanted
<1>7. IInv'
  BY <1>1, <1>4, <1>5, <1>6 DEF IInv, CallerInvOf, Calling
<1> QED
  BY <1>1, <1>6, <1>7 DEF Contract!vars

LEMMA InitIInv == Init => IInv /\ Contract!Init
<1> SUFFICES ASSUME Init PROVE IInv /\ Contract!Init
  OBVIOUS
<1>1. ServiceWorker!Inv /\ ServiceWorker!CallerInv
  BY ServiceWorker!InitInv, CallerAssumptions
  DEF Init, CallerAssumptions, ServiceWorker!ConstantsAssumption,
      ServiceWorker!ServiceAssumption
<1>2. NodeWorker!Inv /\ NodeWorker!CallerInv
  BY NodeWorker!InitInv, NodeAssumptions
  DEF Init, NodeWorker!ConstantsAssumption, NodeWorker!ServiceAssumption
<1>3. IInv
  BY <1>1, <1>2 DEF Init, IInv, CallerInvOf
<1>4. statusOf = [w \in Worker |-> "idle"] /\ wanted = [w \in Worker |-> {}]
  BY DEF Init, statusOf, wanted, ServiceWorker!Init, NodeWorker!Init, ServiceWorker!Status,
     NodeWorker!Status, ServiceWorker!Wanted, NodeWorker!Wanted, ServiceWorker!Listeners,
     NodeWorker!Listeners, ServiceWorker!NoRequest, NodeWorker!NoRequest
<1>5. DOMAIN elb \subseteq ServiceWorker!Listener
  BY <1>1 DEF ServiceWorker!Inv, ServiceWorker!TypeOK, ServiceWorker!IsLoadBalancer
<1> QED
  BY <1>3, <1>4, <1>5 DEF Init, Contract!Init

LEMMA StepIInv ==
    ASSUME IInv, [Next]_vars
    PROVE  IInv' /\ [Contract!Next]_(Contract!vars)
  BY ServiceMoves, NodeMoves, Stutters DEF Next

\* A worker whose call nobody opposed finds at every point of it the listeners its
\* code takes to be there, whatever the other one does at the time; two workers
\* that want the same listeners create and delete them side by side.
THEOREM UnopposedUndisturbed ==
    Spec => [](\A w \in Worker \ opposed : CallerInvOf(w))
<1>1. IInv => \A w \in Worker \ opposed : CallerInvOf(w)
  BY DEF IInv
<1> QED
  BY <1>1, InitIInv, StepIInv, PTL DEF Spec

\* The service worker and the node worker on one elastic load balancer, in any
\* order of their requests and with any of them failing, do to its listeners what
\* the contract says of any number of callers.
THEOREM ContractImplemented == Spec => ImplementsContract
  BY InitIInv, StepIInv, PTL DEF Spec, ImplementsContract, Contract!Spec
=============================================================================
