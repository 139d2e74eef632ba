------------------------- MODULE NodeLifecycleProofs -------------------------
(***************************************************************************)
(* Theorems of NodeLifecycle, for any machines, names and ProviderIDs.     *)
(***************************************************************************)
EXTENDS NodeLifecycle, FiniteSetTheorems, TLAPS

(***************************************************************************)
(* The inductive invariant.  A Node's machine has its name at least until  *)
(* the Node is initialised, and nobody else has it as long as the Node is  *)
(* there.  So the machine found by name is the Node's own, and so is the   *)
(* one in its ProviderID from then on.                                     *)
(***************************************************************************)
HostsOwn ==
    /\ \A n \in Nodes : state[node[n].host] # "unborn"
    /\ \A k, n \in Nodes : node[k].host = node[n].host => k = n

NamesOwn ==
    /\ \A k, m \in Existing : name[k] = name[m] => k = m
    /\ \A n \in Nodes : \A m \in Existing : name[m] = n => m = node[n].host
    /\ \A n \in Nodes :
         ~node[n].initialised /\ node[n].host \in Existing => name[node[n].host] = n

ProviderIDsOwn ==
    \A n \in Nodes :
      /\ node[n].initialised => node[n].providerID # Unset
      /\ Readable(node[n].providerID) =>
           getInstanceUniqueIDFromProviderID(node[n].providerID) = node[n].host

PatchOwn ==
    node_controller # Resting =>
      \E m \in Machine :
        /\ node_controller.providerID = <<ZoneOf[m], m>>
        /\ node_controller.node \in Nodes =>
             (node[node_controller.node].providerID = Unset
                => m = node[node_controller.node].host)

DeleteGone ==
    lifecycle.does = "delete" => node[lifecycle.node].host \notin Existing

IInv == TypeOK /\ HostsOwn /\ NamesOwn /\ ProviderIDsOwn /\ PatchOwn /\ DeleteGone

-----------------------------------------------------------------------------
(* What the lookups return.                                                *)

\* Either the reply is right, or it says so.
LEMMA RepliesRight ==
  ASSUME NEW ns, NEW r \in Replies(ns)
  PROVE  \/ /\ ns \subseteq {name[m] : m \in Existing}
            /\ r.code = "none" /\ r.hollow = FALSE
            /\ r.found = {m \in Existing : ns = {} \/ name[m] \in ns}
         \/ /\ ~(ns \subseteq {name[m] : m \in Existing})
            /\ r.code = "Client.InvalidParameterNotFound.Instance"
         \/ r.code = "other"
         \/ r.code = "none" /\ r.hollow = TRUE
<1> DEFINE asked == {m \in Existing : ns = {} \/ name[m] \in ns}
           named == {name[m] : m \in Existing}
           right == IF ns \subseteq named
                      THEN [code |-> "none", found |-> asked, hollow |-> FALSE]
                      ELSE [code |-> "Client.InvalidParameterNotFound.Instance",
                            found |-> {}, hollow |-> FALSE]
           wrong == {[code |-> "other", found |-> {}, hollow |-> FALSE]}
                      \union [code : {"none"}, found : SUBSET asked, hollow : {TRUE}]
<1>1. r \in {right} \union (IF outage THEN wrong ELSE {})
  BY Zenon DEF Replies
<1>2. r = right \/ r \in wrong
  <2> HIDE DEF right, wrong
  <2> QED
    BY <1>1
<1>3. CASE r = right
  <2> HIDE DEF asked, named
  <2>1. \/ ns \subseteq named /\ r.code = "none" /\ r.hollow = FALSE /\ r.found = asked
        \/ ~(ns \subseteq named) /\ r.code = "Client.InvalidParameterNotFound.Instance"
    BY <1>3
  <2> QED
    BY <2>1 DEF asked, named
<1>4. CASE r \in wrong
  <2>1. CASE r = [code |-> "other", found |-> {}, hollow |-> FALSE]
    BY <2>1
  <2>2. CASE r \in [code : {"none"}, found : SUBSET asked, hollow : {TRUE}]
    <3>1. r.code = "none" /\ r.hollow \in {TRUE}
      <4> HIDE DEF asked
      <4> QED
        BY <2>2
    <3> QED
      BY <3>1
  <2> QED
    BY <1>4, <2>1, <2>2
<1> QED
  BY <1>2, <1>3, <1>4

LEMMA NamesAnswered ==
  ASSUME NEW ns, ns # {}, NEW a \in DescribeInstancesByInstanceID(ns)
  PROVE  /\ a.found \subseteq {m \in Existing : name[m] \in ns}
         /\ a.err = "none" => /\ a.found = {m \in Existing : name[m] \in ns}
                              /\ ns \subseteq {name[m] : m \in Existing}
         /\ a.err = "InstanceNotFound" => ~(ns \subseteq {name[m] : m \in Existing})
<1>1. PICK r \in Replies(ns) : a = Read(r, r.found)
  BY DEF DescribeInstancesByInstanceID
<1>2. CASE /\ ns \subseteq {name[m] : m \in Existing}
           /\ r.code = "none" /\ r.hollow = FALSE
           /\ r.found = {m \in Existing : ns = {} \/ name[m] \in ns}
  <2>1. r.found = {m \in Existing : name[m] \in ns}
    BY <1>2
  <2>2. r.found # {}
    BY <1>2, <2>1
  <2>3. a = Found(r.found)
    BY <1>1, <1>2, <2>2 DEF Read
  <2> QED
    BY <1>2, <2>1, <2>3 DEF Found
<1>3. CASE r.code = "none" /\ r.hollow = TRUE
  BY <1>1, <1>3 DEF Read, Failed
<1>4. CASE r.code = "other"
  BY <1>1, <1>4 DEF Read, Failed
<1>5. CASE /\ ~(ns \subseteq {name[m] : m \in Existing})
           /\ r.code = "Client.InvalidParameterNotFound.Instance"
  <2>1. a = InstanceNotFound
    BY <1>1, <1>5 DEF Read
  <2> QED
    BY <1>5, <2>1 DEF InstanceNotFound
<1> QED
  BY <1>2, <1>3, <1>4, <1>5, RepliesRight

LEMMA UniqueIDsAnswered ==
  ASSUME NEW ids, NEW a \in DescribeInstancesByInstanceUniqueID(ids)
  PROVE  /\ a.found \subseteq Existing \intersect ids
         /\ a.err = "InstanceNotFound" => Existing \intersect ids = {}
<1>1. PICK r \in Replies({}) : a = Read(r, r.found \intersect ids)
  BY DEF DescribeInstancesByInstanceUniqueID
<1>2. CASE /\ r.code = "none" /\ r.hollow = FALSE
           /\ r.found = {m \in Existing : {} = {} \/ name[m] \in {}}
  <2>1. r.found = Existing
    BY <1>2
  <2> QED
    BY <1>1, <1>2, <2>1 DEF Read, Found, InstanceNotFound
<1>3. CASE r.code = "none" /\ r.hollow = TRUE
  BY <1>1, <1>3 DEF Read, Failed
<1>4. CASE r.code = "other"
  BY <1>1, <1>4 DEF Read, Failed
<1> QED
  BY <1>2, <1>3, <1>4, RepliesRight

LEMMA FoundByName ==
  ASSUME NEW n, NEW a \in ByName(n)
  PROVE  /\ a.found \subseteq {m \in Existing : name[m] = n}
         /\ a.err = "InstanceNotFound" => \A m \in Existing : name[m] # n
<1>1. PICK b \in DescribeInstancesByInstanceID({n}) : a = isSingleInstance(b)
  BY DEF ByName
<1>2. /\ b.found \subseteq {m \in Existing : name[m] \in {n}}
      /\ b.err = "InstanceNotFound" => ~({n} \subseteq {name[m] : m \in Existing})
  <2>1. {n} # {}
    OBVIOUS
  <2> QED
    BY <2>1, NamesAnswered
<1>3. a = b \/ a = Failed
  BY <1>1 DEF isSingleInstance
<1> QED
  BY <1>2, <1>3 DEF Failed

LEMMA FoundByProviderID ==
  ASSUME NEW p, NEW a \in ByProviderID(p)
  PROVE  /\ a.found \subseteq Existing
         /\ a.err = "InstanceNotFound" =>
              Readable(p) /\ getInstanceUniqueIDFromProviderID(p) \notin Existing
<1>1. CASE ~Readable(p)
  BY <1>1 DEF ByProviderID, Failed
<1>2. CASE Readable(p)
  <2>1. PICK b \in DescribeInstancesByInstanceUniqueID({getInstanceUniqueIDFromProviderID(p)}) :
          a = isSingleInstance(b)
    BY <1>2 DEF ByProviderID
  <2>2. /\ b.found \subseteq Existing \intersect {getInstanceUniqueIDFromProviderID(p)}
        /\ b.err = "InstanceNotFound" =>
             Existing \intersect {getInstanceUniqueIDFromProviderID(p)} = {}
    BY <2>1, UniqueIDsAnswered
  <2>3. a = b \/ a = Failed
    BY <2>1 DEF isSingleInstance
  <2> QED
    BY <1>2, <2>2, <2>3 DEF Failed
<1> QED
  BY <1>1, <1>2

LEMMA FoundForNode ==
  ASSUME NEW n \in Nodes, NEW a \in getInstance(n)
  PROVE  /\ a.found \subseteq Existing
         /\ node[n].providerID = Unset => a.found \subseteq {m \in Existing : name[m] = n}
         /\ a.err = "InstanceNotFound" =>
              \/ node[n].providerID = Unset /\ \A m \in Existing : name[m] # n
              \/ /\ node[n].providerID # Unset
                 /\ Readable(node[n].providerID)
                 /\ getInstanceUniqueIDFromProviderID(node[n].providerID) \notin Existing
<1>1. CASE node[n].providerID = Unset
  <2>1. a \in ByName(n)
    BY <1>1 DEF getInstance
  <2> QED
    BY <1>1, <2>1, FoundByName
<1>2. CASE node[n].providerID # Unset
  <2>1. a \in ByProviderID(node[n].providerID)
    BY <1>2 DEF getInstance
  <2> QED
    BY <1>2, <2>1, FoundByProviderID
<1> QED
  BY <1>1, <1>2
-----------------------------------------------------------------------------
(* The invariant is inductive.                                             *)

LEMMA InitInv == Init => IInv
<1> SUFFICES ASSUME Init PROVE IInv
  OBVIOUS
<1> USE DEF Init
<1>1. TypeOK
  BY DEF TypeOK, Nodes, NodeObject, Resting
<1>2. HostsOwn /\ NamesOwn /\ ProviderIDsOwn
  BY DEF HostsOwn, NamesOwn, ProviderIDsOwn, Nodes, Existing
<1>3. PatchOwn /\ DeleteGone
  BY DEF PatchOwn, DeleteGone, Resting
<1> QED
  BY <1>1, <1>2, <1>3 DEF IInv

USE MachineAssumption

\* What machines do, the Nodes and the controllers left alone.
LEMMA CreateMachineInv ==
  ASSUME IInv, NEW m \in Machine, NEW n \in Name, CreateMachine(m, n)
  PROVE  IInv'
<1> USE DEF IInv, CreateMachine, controllers, Free
<1>1. Existing' = Existing \union {m} /\ Nodes' = Nodes /\ m \notin Existing
  BY DEF TypeOK, Existing, Nodes
<1>2. /\ \A k \in Machine \ {m} : name'[k] = name[k] /\ state'[k] = state[k]
      /\ name'[m] = n /\ state'[m] = "running"
  BY DEF TypeOK
<1>3. TypeOK'
  BY <1>1 DEF TypeOK
<1>4. \A k \in Nodes : node[k].host \in Machine \ {m}
  BY DEF TypeOK, HostsOwn, NodeObject
<1>5. HostsOwn'
  BY <1>1, <1>2, <1>4 DEF HostsOwn
<1>6. NamesOwn'
  <2> Existing \subseteq Machine
    BY DEF Existing
  <2> QED
    BY <1>1, <1>2, <1>4 DEF NamesOwn
<1>7. ProviderIDsOwn' /\ PatchOwn'
  BY <1>1 DEF ProviderIDsOwn, PatchOwn
<1>8. DeleteGone'
  <2>1. lifecycle.does = "delete" => lifecycle.node \in Nodes
    BY DEF TypeOK, Resting
  <2> QED
    BY <1>1, <1>4, <2>1 DEF DeleteGone
<1> QED
  BY <1>3, <1>5, <1>6, <1>7, <1>8

LEMMA RenameMachineInv ==
  ASSUME IInv, NEW m \in Machine, NEW n \in Name, RenameMachine(m, n)
  PROVE  IInv'
<1> USE DEF IInv, RenameMachine, controllers, Free
<1>1. Existing' = Existing /\ Nodes' = Nodes
  BY DEF Existing, Nodes
<1>2. \A k \in Machine : name'[k] = IF k = m THEN n ELSE name[k]
  BY DEF TypeOK
<1>3. TypeOK'
  BY <1>1 DEF TypeOK
<1>4. HostsOwn' /\ ProviderIDsOwn' /\ PatchOwn' /\ DeleteGone'
  BY <1>1 DEF HostsOwn, ProviderIDsOwn, PatchOwn, DeleteGone
<1>5. \A k \in Nodes : node[k].host = m => node[k].initialised
  BY DEF HostsOwn
<1>6. NamesOwn'
  <2> Existing \subseteq Machine
    BY DEF Existing
  <2> QED
    BY <1>1, <1>2, <1>5 DEF NamesOwn
<1> QED
  BY <1>3, <1>4, <1>6

LEMMA MachineStateInv ==
  ASSUME IInv, NEW m \in Machine,
         StopMachine(m) \/ StartMachine(m) \/ DeleteMachine(m)
  PROVE  IInv'
<1> USE DEF IInv, StopMachine, StartMachine, DeleteMachine, controllers
<1>1. /\ state' \in [Machine -> {"unborn", "running", "stopped", "gone"}]
      /\ Existing' \subseteq Existing
      /\ \A k \in Machine : state'[k] = "unborn" => state[k] = "unborn"
  BY DEF TypeOK, Existing
<1>2. UNCHANGED <<name, node, outage, node_controller, lifecycle, Nodes>>
  BY DEF Nodes
<1>3. TypeOK'
  BY <1>1, <1>2 DEF TypeOK
<1>4. \A n \in Nodes : node[n].host \in Machine
  BY DEF TypeOK, NodeObject
<1>5. HostsOwn' /\ NamesOwn'
  BY <1>1, <1>2, <1>4 DEF HostsOwn, NamesOwn
<1>6. ProviderIDsOwn' /\ PatchOwn' /\ DeleteGone'
  BY <1>1, <1>2 DEF ProviderIDsOwn, PatchOwn, DeleteGone
<1> QED
  BY <1>3, <1>5, <1>6

LEMMA RegistrableIsProviderID ==
  ASSUME NEW m \in Machine, NEW p \in Registrable(m)
  PROVE  /\ p \in ProviderID
         /\ Readable(p) => getInstanceUniqueIDFromProviderID(p) = m
<1> USE DEF ProviderID, Readable, getInstanceUniqueIDFromProviderID
<1>1. CASE p = Unset
  BY <1>1 DEF Unset
<1>2. CASE p = <<m>>
  BY <1>2
<1>3. CASE p = <<ZoneOf[m], m>>
  BY <1>3
<1>4. CASE \E a \in Alien : p = <<a>>
  BY <1>4
<1> QED
  BY <1>1, <1>2, <1>3, <1>4 DEF Registrable

LEMMA RegisterNodeInv ==
  ASSUME IInv, NEW m \in Machine, NEW p \in Registrable(m), RegisterNode(m, p)
  PROVE  IInv'
<1> DEFINE new == [host |-> m, providerID |-> p,
                   initialised |-> FALSE, shutdown |-> FALSE]
<1> USE DEF IInv
<1>1. /\ Nodes' = Nodes \union {name[m]}
      /\ name[m] \notin Nodes
      /\ node'[name[m]] = new
      /\ \A k \in Nodes : node'[k] = node[k]
      /\ node' = [k \in Nodes' |-> node'[k]]
  BY DEF RegisterNode, Nodes
<1>2. /\ UNCHANGED <<state, name, outage, node_controller, lifecycle, Existing>>
      /\ m \in Existing
  BY DEF RegisterNode, machines, controllers, Existing
<1>3. TypeOK'
  <2>1. new \in NodeObject
    BY RegistrableIsProviderID DEF NodeObject
  <2>2. node' \in [Nodes' -> NodeObject]
    BY <1>1, <2>1 DEF TypeOK
  <2> QED
    BY <1>1, <1>2, <2>2 DEF TypeOK
<1>4. HostsOwn'
  <2>1. \A k \in Nodes : node[k].host # m
    BY DEF RegisterNode
  <2> QED
    BY <1>1, <1>2, <2>1 DEF HostsOwn, Existing
<1>5. NamesOwn'
  BY <1>1, <1>2 DEF NamesOwn
<1>6. ProviderIDsOwn'
  BY <1>1, RegistrableIsProviderID DEF ProviderIDsOwn
<1>7. PatchOwn'
  <2>1. node_controller # Resting => node_controller.node # name[m]
    BY DEF RegisterNode
  <2> QED
    BY <1>1, <1>2, <2>1 DEF PatchOwn
<1>8. DeleteGone'
  <2>1. lifecycle.does = "delete" => lifecycle.node \in Nodes
    BY DEF TypeOK, Resting
  <2> QED
    BY <1>1, <1>2, <2>1 DEF DeleteGone
<1> QED
  BY <1>3, <1>4, <1>5, <1>6, <1>7, <1>8

\* The cloud node controller: the answer is about the Node's own machine when
\* it goes by name, and it is not used otherwise.
LEMMA MetadataOwn ==
  ASSUME IInv, NEW n \in Nodes, NEW p \in InstanceMetadata(n)
  PROVE  \E m \in Machine :
           /\ p = <<ZoneOf[m], m>>
           /\ node[n].providerID = Unset => m = node[n].host
<1>1. PICK a \in getInstance(n) : p \in ProviderIDsOf(a)
  BY DEF InstanceMetadata
<1>2. PICK m \in a.found : p = <<ZoneOf[m], m>>
  BY <1>1 DEF ProviderIDsOf
<1>3. /\ a.found \subseteq Existing
      /\ node[n].providerID = Unset => a.found \subseteq {k \in Existing : name[k] = n}
  BY FoundForNode
<1>4. m \in Machine
  BY <1>3 DEF Existing
<1>5. node[n].providerID = Unset => m = node[n].host
  BY <1>3 DEF IInv, NamesOwn
<1> QED
  BY <1>2, <1>4, <1>5

LEMMA DescribeNodeInv ==
  ASSUME IInv, NEW n \in Name, DescribeNode(n)
  PROVE  IInv'
<1> USE DEF IInv
<1>1. /\ UNCHANGED <<state, name, node, outage, lifecycle, Nodes, Existing>>
      /\ n \in Nodes
  BY DEF DescribeNode, machines, Nodes, Existing
<1>2. PICK p \in InstanceMetadata(n) :
        node_controller' = [does |-> "patch", node |-> n, providerID |-> p]
  BY DEF DescribeNode
<1>3. PICK m \in Machine :
        /\ p = <<ZoneOf[m], m>>
        /\ node[n].providerID = Unset => m = node[n].host
  BY <1>1, MetadataOwn
<1>4. TypeOK'
  <2>1. p \in ProviderID
    BY <1>3 DEF ProviderID
  <2>2. node_controller' \in Initialising
    BY <1>2, <2>1 DEF Initialising
  <2> QED
    BY <1>1, <2>2 DEF TypeOK
<1>5. PatchOwn'
  BY <1>1, <1>2, <1>3 DEF PatchOwn
<1>6. HostsOwn' /\ NamesOwn' /\ ProviderIDsOwn' /\ DeleteGone'
  BY <1>1 DEF HostsOwn, NamesOwn, ProviderIDsOwn, DeleteGone
<1> QED
  BY <1>4, <1>5, <1>6

LEMMA InitialiseNodeInv ==
  ASSUME IInv, InitialiseNode
  PROVE  IInv'
<1> DEFINE n == node_controller.node
           old == node[n].providerID
<1> USE DEF IInv
<1>1. UNCHANGED <<state, name, outage, lifecycle, Existing>> /\ node_controller' = Resting
  BY DEF InitialiseNode, machines, Existing
<1>2. node_controller \in Initialising /\ node_controller # Resting
  BY DEF TypeOK, InitialiseNode, Resting
<1>3. CASE n \notin Nodes
  <2>1. node' = node /\ Nodes' = Nodes
    BY <1>3 DEF InitialiseNode, Nodes
  <2> QED
    BY <1>1, <2>1
    DEF TypeOK, HostsOwn, NamesOwn, ProviderIDsOwn, PatchOwn, DeleteGone
<1>4. CASE n \in Nodes
  <2> DEFINE p == IF old = Unset THEN node_controller.providerID ELSE old
  <2>1. node' = [node EXCEPT ![n] = [[@ EXCEPT !.providerID = p] EXCEPT !.initialised = TRUE]]
    BY <1>4 DEF InitialiseNode, TypeOK, NodeObject
  <2>2. p \in ProviderID /\ node[n] \in NodeObject
    BY <1>2, <1>4 DEF TypeOK, NodeObject, Initialising
  <2>3. /\ Nodes' = Nodes
        /\ node' \in [Nodes -> NodeObject]
        /\ \A k \in Nodes \ {n} : node'[k] = node[k]
        /\ node'[n].host = node[n].host
        /\ node'[n].initialised = TRUE
        /\ node'[n].providerID = p
    <3> HIDE DEF p, n
    <3> QED
      BY <1>4, <2>1, <2>2 DEF TypeOK, NodeObject, Nodes
  <2>4. TypeOK'
    BY <1>1, <2>3 DEF TypeOK
  <2>5. HostsOwn' /\ NamesOwn' /\ DeleteGone'
    <3>1. \A k \in Nodes : node'[k].host = node[k].host
      BY <2>3
    <3>2. \A k \in Nodes : ~node'[k].initialised => ~node[k].initialised
      BY <2>3
    <3>3. lifecycle.does = "delete" => lifecycle.node \in Nodes
      BY DEF TypeOK, Resting
    <3> HIDE DEF n
    <3> QED
      BY <1>1, <2>3, <3>1, <3>2, <3>3 DEF HostsOwn, NamesOwn, DeleteGone
  <2>6. PICK m \in Machine : /\ node_controller.providerID = <<ZoneOf[m], m>>
                             /\ old = Unset => m = node[n].host
    BY <1>2, <1>4 DEF PatchOwn
  <2>7. ProviderIDsOwn'
    <3>1. p # Unset /\ (Readable(p) => getInstanceUniqueIDFromProviderID(p) = node[n].host)
      <4>1. CASE old = Unset
        BY <4>1, <2>6 DEF Unset, Readable, getInstanceUniqueIDFromProviderID
      <4>2. CASE old # Unset
        BY <4>2, <1>4 DEF ProviderIDsOwn
      <4> QED
        BY <4>1, <4>2
    <3> HIDE DEF p, n
    <3> QED
      BY <2>3, <3>1 DEF ProviderIDsOwn
  <2>8. PatchOwn'
    BY <1>1 DEF PatchOwn
  <2> QED
    BY <2>4, <2>5, <2>7, <2>8
<1> QED
  BY <1>3, <1>4

\* The node lifecycle controller: what it is about to do stays right, because
\* machines that are gone do not come back.
LEMMA NotFoundIsGone ==
  ASSUME IInv, NEW n \in Nodes, NEW a \in getInstance(n), a.err = "InstanceNotFound"
  PROVE  node[n].host \notin Existing
<1>1. CASE node[n].providerID = Unset
  <2>1. \A m \in Existing : name[m] # n
    BY <1>1, FoundForNode
  <2>2. ~node[n].initialised
    BY <1>1 DEF IInv, ProviderIDsOwn
  <2> QED
    BY <2>1, <2>2 DEF IInv, NamesOwn
<1>2. CASE node[n].providerID # Unset
  BY <1>2, FoundForNode DEF IInv, ProviderIDsOwn
<1> QED
  BY <1>1, <1>2

LEMMA MonitorNodeInv ==
  ASSUME IInv, NEW n \in Name, MonitorNode(n)
  PROVE  IInv'
<1> USE DEF IInv
<1>1. UNCHANGED <<state, name, node, outage, node_controller, Nodes, Existing>> /\ n \in Nodes
  BY DEF MonitorNode, machines, Nodes, Existing
<1>2. PICK exists \in InstanceExists(n) :
        \/ exists = "false" /\ lifecycle' = [does |-> "delete", node |-> n]
        \/ exists = "true" /\ lifecycle' = [does |-> "ask", node |-> n]
  BY DEF MonitorNode
<1>3. PICK a \in getInstance(n) : exists = Exists(a)
  BY DEF InstanceExists
<1>4. exists = "false" => node[n].host \notin Existing
  <2>1. exists = "false" => a.err = "InstanceNotFound"
    BY <1>3 DEF Exists
  <2> QED
    BY <1>1, <2>1, NotFoundIsGone
<1>5. TypeOK'
  BY <1>1, <1>2 DEF TypeOK, Monitoring
<1>6. DeleteGone'
  BY <1>1, <1>2, <1>4 DEF DeleteGone
<1>7. HostsOwn' /\ NamesOwn' /\ ProviderIDsOwn' /\ PatchOwn'
  BY <1>1 DEF HostsOwn, NamesOwn, ProviderIDsOwn, PatchOwn
<1> QED
  BY <1>5, <1>6, <1>7

LEMMA AskShutdownInv ==
  ASSUME IInv, AskShutdown
  PROVE  IInv'
<1> USE DEF IInv
<1>1. UNCHANGED <<state, name, node, outage, node_controller, Nodes, Existing>>
  BY DEF AskShutdown, machines, Nodes, Existing
<1>2. \/ lifecycle' = [does |-> "taint", node |-> lifecycle.node]
      \/ lifecycle' = Resting
  BY DEF AskShutdown
<1>3. lifecycle \in Monitoring /\ lifecycle.node \in Nodes
  BY DEF TypeOK, AskShutdown, Resting
<1>4. TypeOK'
  BY <1>1, <1>2, <1>3 DEF TypeOK, Monitoring
<1>5. DeleteGone'
  BY <1>2 DEF DeleteGone, Resting
<1>6. HostsOwn' /\ NamesOwn' /\ ProviderIDsOwn' /\ PatchOwn'
  BY <1>1 DEF HostsOwn, NamesOwn, ProviderIDsOwn, PatchOwn
<1> QED
  BY <1>4, <1>5, <1>6

\* A taint is all that changes.
LEMMA TaintInv ==
  ASSUME IInv, TaintNode \/ \E n \in Name : UntaintNode(n)
  PROVE  IInv'
<1> USE DEF IInv
<1>1. UNCHANGED <<state, name, outage, node_controller, Existing>>
  BY DEF TaintNode, UntaintNode, machines, controllers, Existing
<1>2. lifecycle' = lifecycle \/ lifecycle' = Resting
  BY DEF TaintNode, UntaintNode, controllers
<1>3. PICK n \in Nodes, b \in BOOLEAN : node' = [node EXCEPT ![n].shutdown = b]
  <2>1. CASE TaintNode
    <3>1. lifecycle.node \in Nodes
      BY <2>1 DEF TaintNode, TypeOK, Resting
    <3>2. node' = [node EXCEPT ![lifecycle.node].shutdown = TRUE]
      BY <2>1 DEF TaintNode
    <3> QED
      BY <3>1, <3>2
  <2>2. CASE \E n \in Name : UntaintNode(n)
    BY <2>2 DEF UntaintNode
  <2> QED
    BY <2>1, <2>2
<1>4. /\ Nodes' = Nodes
      /\ node' \in [Nodes -> NodeObject]
      /\ \A k \in Nodes : /\ node'[k].host = node[k].host
                          /\ node'[k].providerID = node[k].providerID
                          /\ node'[k].initialised = node[k].initialised
  BY <1>3 DEF TypeOK, NodeObject, Nodes
<1>5. TypeOK'
  BY <1>1, <1>2, <1>4 DEF TypeOK
<1>6. HostsOwn' /\ NamesOwn' /\ ProviderIDsOwn'
  BY <1>1, <1>4 DEF HostsOwn, NamesOwn, ProviderIDsOwn
<1>7. PatchOwn'
  BY <1>1, <1>4 DEF PatchOwn
<1>8. DeleteGone'
  <2>1. lifecycle.does = "delete" => lifecycle.node \in Nodes
    BY DEF TypeOK, Resting
  <2> QED
    BY <1>1, <1>2, <1>4, <2>1 DEF DeleteGone, Resting
<1> QED
  BY <1>5, <1>6, <1>7, <1>8

LEMMA DeleteNodeInv ==
  ASSUME IInv, DeleteNode
  PROVE  IInv'
<1> USE DEF IInv
<1>1. /\ UNCHANGED <<state, name, outage, node_controller, Existing>>
      /\ lifecycle' = Resting
  BY DEF DeleteNode, machines, Existing
<1>2. /\ Nodes' \subseteq Nodes
      /\ node' \in [Nodes' -> NodeObject]
      /\ \A k \in Nodes' : node'[k] = node[k]
  BY DEF DeleteNode, Nodes, TypeOK
<1>3. TypeOK'
  BY <1>1, <1>2 DEF TypeOK
<1>4. HostsOwn' /\ NamesOwn' /\ ProviderIDsOwn' /\ PatchOwn' /\ DeleteGone'
  BY <1>1, <1>2 DEF HostsOwn, NamesOwn, ProviderIDsOwn, PatchOwn, DeleteGone, Resting
<1> QED
  BY <1>3, <1>4

LEMMA RestInv ==
  ASSUME IInv, Restart \/ OutageEnds \/ UNCHANGED vars
  PROVE  IInv'
<1> USE DEF IInv
<1>1. /\ UNCHANGED <<state, name, node, Nodes, Existing>>
      /\ outage' \in BOOLEAN
      /\ node_controller' = node_controller \/ node_controller' = Resting
      /\ lifecycle' = lifecycle \/ lifecycle' = Resting
  BY DEF Restart, OutageEnds, vars, machines, controllers, Nodes, Existing, TypeOK
<1>2. TypeOK'
  BY <1>1 DEF TypeOK
<1>3. HostsOwn' /\ NamesOwn' /\ ProviderIDsOwn'
  BY <1>1 DEF HostsOwn, NamesOwn, ProviderIDsOwn
<1>4. PatchOwn' /\ DeleteGone'
  BY <1>1 DEF PatchOwn, DeleteGone, Resting
<1> QED
  BY <1>2, <1>3, <1>4

LEMMA Inductive == IInv /\ [Next]_vars => IInv'
<1> SUFFICES ASSUME IInv, [Next]_vars PROVE IInv'
  OBVIOUS
<1>1. CASE Owner
  BY <1>1, CreateMachineInv, RenameMachineInv, MachineStateInv, RegisterNodeInv DEF Owner
<1>2. CASE Controllers
  BY <1>2, DescribeNodeInv, InitialiseNodeInv, MonitorNodeInv, AskShutdownInv, TaintInv,
     DeleteNodeInv DEF Controllers
<1>3. CASE Restart \/ OutageEnds \/ UNCHANGED vars
  BY <1>3, RestInv
<1> QED
  BY <1>1, <1>2, <1>3 DEF Next

THEOREM Invariant == Spec => []IInv
<1> QED
  BY InitInv, Inductive, PTL DEF Spec

-----------------------------------------------------------------------------
(* The theorems.                                                           *)

\* Every reachable state is well-formed, and the controller never goes back to
\* a Node that is no longer there.
THEOREM TypeCorrect == Spec => []TypeOK
<1>1. IInv => TypeOK
  BY DEF IInv
<1> QED
  BY <1>1, Invariant, PTL

\* An initialised Node is bound to its own machine by its ProviderID, through
\* renames, reused names, restarts and stale answers (InstanceMetadata,
\* getInstance).
THEOREM BoundToItsMachine == Spec => []InitialisedBound
<1>1. IInv => InitialisedBound
  BY DEF IInv, ProviderIDsOwn, InitialisedBound, Bound
<1> QED
  BY <1>1, Invariant, PTL

\* A load balancer that asks for Nodes by name gets the Nodes' own machines, all
\* of them, or an error (DescribeInstancesByInstanceID).
THEOREM LookupsFindHosts == Spec => []TargetsAreHosts
<1>1. ASSUME IInv PROVE TargetsAreHosts
  <2> SUFFICES ASSUME NEW ns \in (SUBSET Nodes) \ {{}},
                      NEW a \in DescribeInstancesByInstanceID(ns), a.err = "none"
               PROVE  a.found = {node[n].host : n \in ns}
    BY DEF TargetsAreHosts
  <2>1. /\ a.found = {m \in Existing : name[m] \in ns}
        /\ ns \subseteq {name[m] : m \in Existing}
    BY NamesAnswered
  <2>2. \A n \in ns : \A m \in Existing : name[m] = n => m = node[n].host
    BY <1>1 DEF IInv, NamesOwn
  <2> QED
    BY <2>1, <2>2
<1> QED
  BY <1>1, Invariant, PTL

\* The node lifecycle controller deletes no Node whose machine is there, however
\* old the answer it acts on (InstanceExists).
THEOREM NoLivingNodeDeleted == Spec => NodesSurvive
<1>1. ASSUME IInv, [Next]_vars PROVE KeepsLiving
  <2> SUFFICES ASSUME NEW n \in Nodes \ DOMAIN node' PROVE node[n].host \notin Existing
    BY DEF KeepsLiving
  <2>1. CASE DeleteNode
    <3>1. n = lifecycle.node
      BY <2>1 DEF DeleteNode, Nodes
    <3> QED
      BY <1>1, <2>1, <3>1 DEF IInv, DeleteGone, DeleteNode
  <2>2. CASE ~DeleteNode
    <3>1. DOMAIN node \subseteq DOMAIN node'
      BY <1>1, <2>2
      DEF Next, Owner, Controllers, CreateMachine, RenameMachine, StopMachine, StartMachine,
          DeleteMachine, RegisterNode, DescribeNode, InitialiseNode, MonitorNode, AskShutdown,
          TaintNode, UntaintNode, Restart, OutageEnds, vars, Nodes
    <3> QED
      BY <3>1 DEF Nodes
  <2> QED
    BY <2>1, <2>2
<1>2. Spec => [][KeepsLiving]_vars
  BY <1>1, Invariant, PTL DEF Spec
<1> QED
  BY <1>2 DEF NodesSurvive

-----------------------------------------------------------------------------
(* The interfaces v1, v2 and zones tell of the same machine.               *)

\* One machine found is a single one.
LEMMA SingleFound ==
  ASSUME NEW m
  PROVE  isSingleInstance(Found({m})) = Found({m})
<1>1. Cardinality({m}) = 1
  BY FS_Singleton
<1>2. Found({m}).found = {m}
  BY DEF Found
<1>3. ~(Cardinality(Found({m}).found) > 1)
  BY <1>1, <1>2
<1> QED
  BY <1>3 DEF isSingleInstance

\* A reply that is right is always among those that can come.
LEMMA RightReply ==
  ASSUME NEW ns, ns \subseteq {name[m] : m \in Existing}
  PROVE  \E r \in Replies(ns) :
           /\ r.code = "none" /\ r.hollow = FALSE
           /\ r.found = {m \in Existing : ns = {} \/ name[m] \in ns}
<1> DEFINE asked == {m \in Existing : ns = {} \/ name[m] \in ns}
           reply == [code |-> "none", found |-> asked, hollow |-> FALSE]
<1>1. reply \in Replies(ns)
  BY DEF Replies
<1>2. reply.code = "none" /\ reply.hollow = FALSE /\ reply.found = asked
  <2> HIDE DEF asked
  <2> QED
    OBVIOUS
<1> QED
  BY <1>1, <1>2

\* By name: the one machine that has the name, if it is there.
LEMMA AnsweredByName ==
  ASSUME NEW n \in Name, NEW h \in Machine,
         \A m \in Existing : name[m] = n <=> m = h
  PROVE  Answered(ByName(n)) = IF h \in Existing THEN {Found({h})} ELSE {}
<1>1. ASSUME NEW a \in ByName(n), a.err = "none"
      PROVE  h \in Existing /\ a = Found({h})
  <2>1. PICK b \in DescribeInstancesByInstanceID({n}) : a = isSingleInstance(b)
    BY DEF ByName
  <2>2. a = b /\ b.err = "none"
    BY <1>1, <2>1 DEF isSingleInstance, Failed
  <2>3. /\ b.found = {m \in Existing : name[m] \in {n}}
        /\ {n} \subseteq {name[m] : m \in Existing}
    BY <2>2, NamesAnswered
  <2>4. h \in Existing /\ b.found = {h}
    BY <2>3
  <2>5. PICK r \in Replies({n}) : b = Read(r, r.found)
    BY DEF DescribeInstancesByInstanceID
  <2>6. b = Found(b.found)
    BY <2>2, <2>5 DEF Read, Found, InstanceNotFound, Failed
  <2> QED
    BY <2>2, <2>4, <2>6
<1>2. ASSUME h \in Existing PROVE Found({h}) \in Answered(ByName(n))
  <2> {n} \subseteq {name[m] : m \in Existing}
    BY <1>2
  <2>1. PICK r \in Replies({n}) :
          /\ r.code = "none" /\ r.hollow = FALSE
          /\ r.found = {m \in Existing : {n} = {} \/ name[m] \in {n}}
    BY RightReply
  <2>2. r.found = {h}
    BY <1>2, <2>1
  <2>3. Read(r, r.found) = Found({h})
    BY <2>1, <2>2 DEF Read
  <2>4. isSingleInstance(Found({h})) = Found({h})
    BY SingleFound
  <2>5. Found({h}) \in ByName(n)
    BY <2>3, <2>4 DEF ByName, DescribeInstancesByInstanceID
  <2> QED
    BY <2>5 DEF Answered, Found
<1>3. CASE h \in Existing
  BY <1>1, <1>2, <1>3 DEF Answered
<1>4. CASE h \notin Existing
  BY <1>1, <1>4 DEF Answered
<1> QED
  BY <1>3, <1>4

\* By ProviderID: the machine with the unique id, if it is there.
LEMMA AnsweredByProviderID ==
  ASSUME NEW p, NEW h \in Machine, Readable(p), getInstanceUniqueIDFromProviderID(p) = h
  PROVE  Answered(ByProviderID(p)) = IF h \in Existing THEN {Found({h})} ELSE {}
<1> DEFINE answers == {isSingleInstance(a) : a \in DescribeInstancesByInstanceUniqueID({h})}
<1>1. ByProviderID(p) = answers
  BY DEF ByProviderID
<1>2. ASSUME NEW a \in answers, a.err = "none"
      PROVE  h \in Existing /\ a = Found({h})
  <2>1. PICK b \in DescribeInstancesByInstanceUniqueID({h}) : a = isSingleInstance(b)
    OBVIOUS
  <2>2. a = b /\ b.err = "none"
    BY <1>2, <2>1 DEF isSingleInstance, Failed
  <2>3. PICK r \in Replies({}) : b = Read(r, r.found \intersect {h})
    BY DEF DescribeInstancesByInstanceUniqueID
  <2>4. r.found \intersect {h} # {} /\ b = Found(r.found \intersect {h})
    BY <2>2, <2>3 DEF Read, Found, InstanceNotFound, Failed
  <2>5. b.found = {h} /\ b.found \subseteq Existing
    BY <2>4, UniqueIDsAnswered DEF Found
  <2> QED
    BY <2>2, <2>4, <2>5
<1>3. ASSUME h \in Existing PROVE Found({h}) \in Answered(answers)
  <2>1. PICK r \in Replies({}) :
          /\ r.code = "none" /\ r.hollow = FALSE
          /\ r.found = {m \in Existing : {} = {} \/ name[m] \in {}}
    BY RightReply
  <2>2. r.found \intersect {h} = {h}
    BY <1>3, <2>1
  <2>3. Read(r, r.found \intersect {h}) = Found({h})
    BY <2>1, <2>2 DEF Read
  <2>4. isSingleInstance(Found({h})) = Found({h})
    BY SingleFound
  <2>5. Found({h}) \in answers
    BY <2>3, <2>4 DEF DescribeInstancesByInstanceUniqueID
  <2> QED
    BY <2>5 DEF Answered, Found
<1>4. CASE h \in Existing
  BY <1>1, <1>2, <1>3, <1>4 DEF Answered
<1>5. CASE h \notin Existing
  BY <1>1, <1>2, <1>5 DEF Answered
<1> QED
  BY <1>4, <1>5

\* An error comes without a machine, so only answers without one count.
LEMMA ErrorsFindNothing ==
  ASSUME NEW n, NEW a \in ByName(n) \union getInstance(n), a.err # "none"
  PROVE  a.found = {}
<1>1. ASSUME NEW r, NEW ms, isSingleInstance(Read(r, ms)).err # "none"
      PROVE  isSingleInstance(Read(r, ms)).found = {}
  BY <1>1 DEF isSingleInstance, Read, Found, InstanceNotFound, Failed
<1>2. CASE a = Failed
  BY <1>2 DEF Failed
<1>3. CASE \E r, ms : a = isSingleInstance(Read(r, ms))
  BY <1>1, <1>3
<1>4. a \in ByName(n) \/ a \in ByProviderID(node[n].providerID)
  BY DEF getInstance
<1>5. a = Failed \/ \E r, ms : a = isSingleInstance(Read(r, ms))
  BY <1>4 DEF ByName, ByProviderID, DescribeInstancesByInstanceID,
     DescribeInstancesByInstanceUniqueID
<1> QED
  BY <1>2, <1>3, <1>5

\* Whatever interface is asked about a Node, v1 and zones by ProviderID or by
\* name or v2, it tells of the same machine, although machines may have been
\* renamed and names reused.
THEOREM InterfacesTellTheSame == Spec => []InterfacesAgree
<1>1. ASSUME IInv PROVE InterfacesAgree
  <2> SUFFICES ASSUME NEW n \in Nodes
               PROVE  LET p == node[n].providerID
                          v2 == Answered(getInstance(n))
                      IN /\ p # Unset =>
                              \A v1 \in {NodeAddressesByProviderID(p),
                                         InstanceTypeByProviderID(p),
                                         GetZoneByProviderID(p)} : Answered(v1) = v2
                         /\ p # Unset =>
                              ("true" \in InstanceExistsByProviderID(p)
                                 <=> "true" \in InstanceExists(n))
                         /\ name[node[n].host] = n /\ (p = Unset \/ Readable(p)) =>
                              /\ \A v1 \in {NodeAddresses(n), InstanceType(n), GetZone(n),
                                            GetZoneByNodeName(n)} : Answered(v1) = v2
                              /\ InstanceID(n) = InstanceMetadata(n)
    BY DEF InterfacesAgree
  <2> DEFINE p == node[n].providerID
             h == node[n].host
  <2>1. n \in Name /\ h \in Machine
    BY <1>1 DEF IInv, TypeOK, NodeObject
  <2>2. ASSUME p # Unset PROVE getInstance(n) = ByProviderID(p)
    BY <2>2 DEF getInstance
  <2>3. ASSUME p # Unset
        PROVE  "true" \in InstanceExistsByProviderID(p) <=> "true" \in InstanceExists(n)
    <3>1. "true" \in InstanceExists(n) <=> \E a \in ByProviderID(p) : a.err = "none"
      BY <2>2, <2>3 DEF InstanceExists, Exists
    <3>2. "true" \in InstanceExistsByProviderID(p)
            <=> \E a \in ByProviderID(p) : a.err = "none"
      BY DEF InstanceExistsByProviderID
    <3> QED
      BY <3>1, <3>2
  <2>4. ASSUME name[h] = n, p = Unset \/ Readable(p)
        PROVE  Answered(ByName(n)) = Answered(getInstance(n))
    <3>1. CASE p = Unset
      BY <3>1 DEF getInstance
    <3>2. CASE p # Unset
      <4>1. Readable(p) /\ getInstanceUniqueIDFromProviderID(p) = h
        BY <1>1, <2>4, <3>2 DEF IInv, ProviderIDsOwn
      <4>2. \A m \in Existing : name[m] = n <=> m = h
        BY <1>1, <2>4 DEF IInv, NamesOwn
      <4> HIDE DEF p, h
      <4> QED
        BY <2>1, <2>2, <3>2, <4>1, <4>2, AnsweredByName, AnsweredByProviderID
    <3> QED
      BY <3>1, <3>2
  <2>5. ASSUME Answered(ByName(n)) = Answered(getInstance(n))
        PROVE  InstanceID(n) = InstanceMetadata(n)
    <3>1. ASSUME NEW a \in ByName(n) \union getInstance(n), NEW q \in ProviderIDsOf(a)
          PROVE  a.err = "none"
      BY <3>1, ErrorsFindNothing DEF ProviderIDsOf
    <3>2. InstanceID(n) = UNION {ProviderIDsOf(a) : a \in Answered(ByName(n))}
      BY <3>1 DEF InstanceID, Answered
    <3>3. InstanceMetadata(n) = UNION {ProviderIDsOf(a) : a \in Answered(getInstance(n))}
      BY <3>1 DEF InstanceMetadata, Answered
    <3> QED
      BY <2>5, <3>2, <3>3
  <2> QED
    BY <2>2, <2>3, <2>4, <2>5
    DEF NodeAddressesByProviderID, InstanceTypeByProviderID, GetZoneByProviderID,
        NodeAddresses, InstanceType, GetZone, GetZoneByNodeName
<1> QED
  BY <1>1, Invariant, PTL
=============================================================================
