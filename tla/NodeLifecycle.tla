---------------------------- MODULE NodeLifecycle ----------------------------
(***************************************************************************)
(* Instances (v1 and v2) and zones: what the cloud provider tells the      *)
(* cloud node controller and the node lifecycle controller of a Node's     *)
(* machine, while machines are created, renamed, stopped and deleted.      *)
(*                                                                         *)
(* A machine has a unique id for life, the elements of Machine, and an     *)
(* instance id its owner chose and may change.  A Node is named after the  *)
(* instance id its machine had when it registered, and names the unique id *)
(* in its ProviderID from the moment it is initialised.  The lookups go by *)
(* one or the other.                                                       *)
(*                                                                         *)
(* A controller asks in one step and acts on the answer in a later one.    *)
(***************************************************************************)
EXTENDS Naturals, Sequences, FiniteSets

CONSTANTS
    Machine,    \* unique ids of machines
    Name,       \* instance ids, hence names of Nodes
    Zone,       \* availability zones
    ZoneOf,     \* the zone each machine is in
    Alien       \* what is no unique id, where a ProviderID should have one

ASSUME MachineAssumption ==
    /\ ZoneOf \in [Machine -> Zone]
    /\ Machine \intersect (Zone \union Alien) = {}

-----------------------------------------------------------------------------
(* Data.                                                                   *)

\* A ProviderID, as the parts of its path: of nifcloud:///zone/id, both; of
\* nifcloud:////id and of id, one.  A Node without one has no parts.
ProviderID == Seq(Machine \union Zone \union Alien)
Unset == << >>

\* The ProviderIDs a machine's kubelet may register with, of its own accord.
Registrable(m) == {Unset, <<m>>, <<ZoneOf[m], m>>} \union {<<a>> : a \in Alien}

\* A Node: the machine its kubelet runs on, which only the model knows, and
\* what the API server has of it.
NodeObject == [host        : Machine,
               providerID  : ProviderID,
               initialised : BOOLEAN,   \* the taint "uninitialized" is gone
               shutdown    : BOOLEAN]   \* the taint "shutdown" is there

\* What DescribeInstances answers: the machines in its reservations, and
\* whether one of the reservations has none in it.
ErrorCode == {"none", "Client.InvalidParameterNotFound.Instance", "other"}
Reply == [code : ErrorCode, found : SUBSET Machine, hollow : BOOLEAN]

\* What a lookup returns: machines, InstanceNotFound, or any other error.
Result == [err : {"none", "InstanceNotFound", "error"}, found : SUBSET Machine]
Found(ms) == [err |-> "none", found |-> ms]
InstanceNotFound == [err |-> "InstanceNotFound", found |-> {}]
Failed == [err |-> "error", found |-> {}]

-----------------------------------------------------------------------------
VARIABLES
    state,      \* what has become of each machine
    name,       \* the instance id of each machine
    node,       \* the Nodes: name |-> NodeObject
    outage,     \* while TRUE requests may fail or be answered badly
    node_controller,    \* what the cloud node controller is about to do
    lifecycle           \* what the node lifecycle controller is about to do

machines == <<state, name>>
controllers == <<node_controller, lifecycle>>
vars == <<state, name, node, outage, node_controller, lifecycle>>

Existing == {m \in Machine : state[m] \in {"running", "stopped"}}
Nodes == DOMAIN node

\* What a controller is about to do: nothing, or something to a Node.
Resting == [does |-> "rest"]
Initialising == [does : {"patch"}, node : Name, providerID : ProviderID]
Monitoring == [does : {"delete", "ask", "taint"}, node : Name]

Init ==
    /\ state = [m \in Machine |-> "unborn"]
    /\ name \in [Machine -> Name]
    /\ node = [n \in {} |-> [host |-> n]]
    /\ outage = TRUE
    /\ node_controller = Resting
    /\ lifecycle = Resting

-----------------------------------------------------------------------------
(* The lookups.                                                            *)

\* DescribeInstances: asked for no name it describes every machine.
Replies(names) ==
    LET asked == {m \in Existing : names = {} \/ name[m] \in names}
        right == IF names \subseteq {name[m] : m \in Existing}
                   THEN [code |-> "none", found |-> asked, hollow |-> FALSE]
                   ELSE [code |-> "Client.InvalidParameterNotFound.Instance",
                         found |-> {}, hollow |-> FALSE]
        wrong == {[code |-> "other", found |-> {}, hollow |-> FALSE]}
                   \union [code : {"none"}, found : SUBSET asked, hollow : {TRUE}]
    IN  {right} \union (IF outage THEN wrong ELSE {})

\* What the client makes of a reply.  Mutant: an empty reservation is passed over.
ReadHollow(r, ms) ==
    IF r.code = "Client.InvalidParameterNotFound.Instance" THEN InstanceNotFound
    ELSE IF r.code # "none" THEN Failed
    ELSE IF ms = {} THEN InstanceNotFound ELSE Found(ms)
Read(r, ms) ==
    IF r.code = "Client.InvalidParameterNotFound.Instance" THEN InstanceNotFound
    ELSE IF r.code # "none" \/ r.hollow THEN Failed
    ELSE IF ms = {} THEN InstanceNotFound ELSE Found(ms)

\* Mutant: the names are left out of the request.
DescribeAnyInstances(names) == {Read(r, r.found) : r \in Replies({})}
DescribeInstancesByInstanceID(names) == {Read(r, r.found) : r \in Replies(names)}
DescribeInstancesByInstanceUniqueID(ids) ==
    {Read(r, r.found \intersect ids) : r \in Replies({})}

isSingleInstance(result) ==
    IF result.err = "none" /\ Cardinality(result.found) > 1 THEN Failed ELSE result

\* The unique id a ProviderID names.
Readable(p) == Len(p) \in {1, 2} /\ p[Len(p)] \in Machine
getInstanceUniqueIDFromProviderID(p) == p[Len(p)]

ByName(n) == {isSingleInstance(a) : a \in DescribeInstancesByInstanceID({n})}
ByProviderID(p) ==
    IF ~Readable(p) THEN {Failed}
    ELSE {isSingleInstance(a) :
            a \in DescribeInstancesByInstanceUniqueID({getInstanceUniqueIDFromProviderID(p)})}

\* Mutant: the name is good enough.
getInstanceByName(n) == ByName(n)
getInstance(n) ==
    IF node[n].providerID # Unset THEN ByProviderID(node[n].providerID) ELSE ByName(n)

-----------------------------------------------------------------------------
(* Instances v2.                                                           *)

\* TRUE, FALSE or an error.  Mutant: "not found" is an error like any other.
ExistsOrError(result) == IF result.err = "none" THEN "true" ELSE "error"
Exists(result) ==
    CASE result.err = "none" -> "true"
      [] result.err = "InstanceNotFound" -> "false"
      [] OTHER -> "error"
InstanceExists(n) == {Exists(a) : a \in getInstance(n)}

\* Mutant: as in v1, not implemented.
InstanceShutdownUnknown(n) == {"error"}
InstanceShutdown(n) ==
    {IF a.err # "none" THEN "error"
     ELSE IF \A m \in a.found : state[m] = "stopped" THEN "true" ELSE "false" :
       a \in getInstance(n)}

\* The ProviderID of the one machine found, or an error.
ProviderIDsOf(result) == {<<ZoneOf[m], m>> : m \in result.found}
InstanceMetadata(n) == UNION {ProviderIDsOf(a) : a \in getInstance(n)}

-----------------------------------------------------------------------------
(* Instances v1 and zones, which the controllers leave alone as long as v2 *)
(* is there.  Addresses, types and zones are told by the machine they are  *)
(* those of.                                                               *)

NodeAddresses(n) == ByName(n)
NodeAddressesByProviderID(p) == ByProviderID(p)
InstanceType(n) == ByName(n)
InstanceTypeByProviderID(p) == ByProviderID(p)
\* The zone and the unique id, to which the caller prepends nifcloud://.
\* Mutant: the unique id alone.
InstanceIDAlone(n) == UNION {{<<m>> : m \in a.found} : a \in ByName(n)}
InstanceID(n) == UNION {ProviderIDsOf(a) : a \in ByName(n)}
InstanceShutdownByProviderID(p) == {"error"}
\* Unlike InstanceExists it returns "not found" as an error.
InstanceExistsByProviderID(p) ==
    {IF a.err = "none" THEN "true" ELSE "error" : a \in ByProviderID(p)}
GetZone(n) == ByName(n)
GetZoneByNodeName(n) == ByName(n)
GetZoneByProviderID(p) == ByProviderID(p)

-----------------------------------------------------------------------------
(* Machines and their kubelets.                                            *)

\* An instance id is free when no machine has it.  The model does not give a
\* new machine the name of a Node that is still there.
Free(n) == n \notin Nodes /\ \A m \in Existing : name[m] # n

CreateMachine(m, n) ==
    /\ state[m] = "unborn"
    /\ Free(n)
    /\ state' = [state EXCEPT ![m] = "running"]
    /\ name' = [name EXCEPT ![m] = n]
    /\ UNCHANGED <<node, outage, controllers>>

\* Node names have to match instance ids until the Node is initialised.
RenameMachine(m, n) ==
    /\ m \in Existing
    /\ Free(n)
    /\ \E k \in Nodes : node[k].host = m /\ node[k].initialised
    /\ name' = [name EXCEPT ![m] = n]
    /\ UNCHANGED <<state, node, outage, controllers>>

StopMachine(m) ==
    /\ state[m] = "running"
    /\ state' = [state EXCEPT ![m] = "stopped"]
    /\ UNCHANGED <<name, node, outage, controllers>>

StartMachine(m) ==
    /\ state[m] = "stopped"
    /\ state' = [state EXCEPT ![m] = "running"]
    /\ UNCHANGED <<name, node, outage, controllers>>

DeleteMachine(m) ==
    /\ m \in Existing
    /\ state' = [state EXCEPT ![m] = "gone"]
    /\ UNCHANGED <<name, node, outage, controllers>>

\* A machine takes longer to come up than the node controller to act on an answer.
RegisterNode(m, p) ==
    /\ state[m] = "running"
    /\ node_controller # Resting => node_controller.node # name[m]
    /\ \A k \in Nodes : k # name[m] /\ node[k].host # m
    /\ node' = [k \in Nodes \union {name[m]} |->
                  IF k \in Nodes THEN node[k]
                  ELSE [host |-> m, providerID |-> p,
                        initialised |-> FALSE, shutdown |-> FALSE]]
    /\ UNCHANGED <<machines, outage, controllers>>

-----------------------------------------------------------------------------
(* The cloud node controller.                                              *)

DescribeNode(n) ==
    /\ node_controller = Resting
    /\ n \in Nodes /\ ~node[n].initialised
    /\ \E p \in InstanceMetadata(n) :
         node_controller' = [does |-> "patch", node |-> n, providerID |-> p]
    /\ UNCHANGED <<machines, node, outage, lifecycle>>

\* A ProviderID that is set stays.
InitialiseNode ==
    /\ node_controller.does = "patch"
    /\ LET n == node_controller.node IN
         node' = IF n \notin Nodes THEN node
                 ELSE [node EXCEPT
                         ![n].providerID = IF @ = Unset THEN node_controller.providerID ELSE @,
                         ![n].initialised = TRUE]
    /\ node_controller' = Resting
    /\ UNCHANGED <<machines, outage, lifecycle>>

-----------------------------------------------------------------------------
(* The node lifecycle controller.  It asks about Nodes that are not ready, *)
(* which the Node of a running machine may be too.                         *)

MonitorNode(n) ==
    /\ lifecycle = Resting
    /\ n \in Nodes
    /\ \E exists \in InstanceExists(n) :
         \/ exists = "false" /\ lifecycle' = [does |-> "delete", node |-> n]
         \/ exists = "true" /\ lifecycle' = [does |-> "ask", node |-> n]
    /\ UNCHANGED <<machines, node, outage, node_controller>>

AskShutdown ==
    /\ lifecycle.does = "ask"
    /\ \E shutdown \in InstanceShutdown(lifecycle.node) :
         lifecycle' = IF shutdown = "true"
                        THEN [does |-> "taint", node |-> lifecycle.node] ELSE Resting
    /\ UNCHANGED <<machines, node, outage, node_controller>>

TaintNode ==
    /\ lifecycle.does = "taint"
    /\ node' = [node EXCEPT ![lifecycle.node].shutdown = TRUE]
    /\ lifecycle' = Resting
    /\ UNCHANGED <<machines, outage, node_controller>>

\* A Node that is ready loses the taint.
UntaintNode(n) ==
    /\ lifecycle = Resting
    /\ n \in Nodes /\ node[n].shutdown /\ state[node[n].host] = "running"
    /\ node' = [node EXCEPT ![n].shutdown = FALSE]
    /\ UNCHANGED <<machines, outage, controllers>>

\* Mutant: what was about to be done stays to be done.
DeleteNodeAgain ==
    /\ lifecycle.does = "delete"
    /\ node' = [k \in Nodes \ {lifecycle.node} |-> node[k]]
    /\ UNCHANGED <<machines, outage, controllers>>
DeleteNode ==
    /\ lifecycle.does = "delete"
    /\ node' = [k \in Nodes \ {lifecycle.node} |-> node[k]]
    /\ lifecycle' = Resting
    /\ UNCHANGED <<machines, outage, node_controller>>

-----------------------------------------------------------------------------
\* The process dies, or another one is elected: what was about to be done is
\* forgotten.
Restart ==
    /\ controllers # <<Resting, Resting>>
    /\ node_controller' = Resting
    /\ lifecycle' = Resting
    /\ UNCHANGED <<machines, node, outage>>

OutageEnds ==
    /\ outage
    /\ outage' = FALSE
    /\ UNCHANGED <<machines, node, controllers>>

Owner ==
    \/ \E m \in Machine, n \in Name : CreateMachine(m, n) \/ RenameMachine(m, n)
    \/ \E m \in Machine :
         \/ StopMachine(m) \/ StartMachine(m) \/ DeleteMachine(m)
         \/ \E p \in Registrable(m) : RegisterNode(m, p)

Controllers ==
    \/ \E n \in Name : DescribeNode(n) \/ MonitorNode(n) \/ UntaintNode(n)
    \/ InitialiseNode
    \/ AskShutdown \/ TaintNode \/ DeleteNode

Next == Owner \/ Controllers \/ Restart \/ OutageEnds

Spec == Init /\ [][Next]_vars

\* The lifecycle controller comes round to every Node again and again, and the
\* process is not killed again and again: no Restart after the outage.
FairSpec ==
    /\ Init /\ [][Next /\ (Restart => outage)]_vars
    /\ \A n \in Name : SF_vars(MonitorNode(n))
    /\ WF_vars(AskShutdown) /\ WF_vars(TaintNode) /\ WF_vars(DeleteNode)

-----------------------------------------------------------------------------
(* Properties.                                                             *)

TypeOK ==
    /\ state \in [Machine -> {"unborn", "running", "stopped", "gone"}]
    /\ name \in [Machine -> Name]
    /\ Nodes \subseteq Name
    /\ node \in [Nodes -> NodeObject]
    /\ outage \in BOOLEAN
    /\ node_controller \in {Resting} \union Initialising
    /\ lifecycle \in {Resting} \union Monitoring
    /\ lifecycle # Resting => lifecycle.node \in Nodes

\* A Node is deleted only when its own machine is gone: not because a request
\* failed or was answered badly, not because its machine was renamed or is
\* stopped, and not because the answer has grown old.
KeepsLiving == \A n \in Nodes \ DOMAIN node' : node[n].host \notin Existing
NodesSurvive == [][KeepsLiving]_vars

\* A Node that is initialised is bound to its own machine, whoever had or has
\* its name, unless its kubelet registered it with another ProviderID.
Bound(n) ==
    /\ node[n].providerID # Unset
    /\ Readable(node[n].providerID) =>
         getInstanceUniqueIDFromProviderID(node[n].providerID) = node[n].host
InitialisedBound == \A n \in Nodes : node[n].initialised => Bound(n)

\* Every machine a load balancer gets when it is asked for Nodes is one of
\* theirs, although it is asked for by name: a renamed machine or one that is
\* gone is an error, never another machine.
TargetsAreHosts ==
    \A ns \in (SUBSET Nodes) \ {{}} : \A a \in DescribeInstancesByInstanceID(ns) :
      a.err = "none" => a.found = {node[n].host : n \in ns}

\* Whatever interface is asked about a Node, it tells of the same machine: v1
\* and zones by ProviderID what v2 does, and by name too while the machine has
\* that name; the ProviderID composed from v1's InstanceID is that of v2.
Answered(answers) == {a \in answers : a.err = "none"}
InterfacesAgree ==
    \A n \in Nodes :
      LET p == node[n].providerID
          v2 == Answered(getInstance(n))
      IN /\ p # Unset =>
              \A v1 \in {NodeAddressesByProviderID(p), InstanceTypeByProviderID(p),
                         GetZoneByProviderID(p)} : Answered(v1) = v2
         /\ p # Unset =>
              ("true" \in InstanceExistsByProviderID(p) <=> "true" \in InstanceExists(n))
         /\ name[node[n].host] = n /\ (p = Unset \/ Readable(p)) =>
              /\ \A v1 \in {NodeAddresses(n), InstanceType(n), GetZone(n),
                            GetZoneByNodeName(n)} : Answered(v1) = v2
              /\ InstanceID(n) = InstanceMetadata(n)

\* Once requests are answered, the Node of a machine that is gone is deleted,
\* unless its ProviderID is unreadable; and that of a machine that is stopped
\* for good gets its taint.
Gone(n) == n \in Nodes /\ node[n].host \notin Existing
             /\ (node[n].providerID = Unset \/ Readable(node[n].providerID))
GoneNodesGo == <>[]~outage => \A n \in Name : Gone(n) ~> n \notin Nodes

Stopped(n) == n \in Nodes /\ state[node[n].host] = "stopped"
                /\ (node[n].providerID = Unset \/ Readable(node[n].providerID))
StoppedNodesTainted ==
    <>[]~outage =>
      \A n \in Name : <>[]Stopped(n) => <>[](n \in Nodes /\ node[n].shutdown)
=============================================================================
