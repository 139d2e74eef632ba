# Verification of the NIFCLOUD cloud controller manager

TLA+ models of `nifcloud-cloud-controller-manager`, the TLC configurations that
check them on small instances, and theorems about them checked by TLAPS.
File names below are relative to `src/pkg/cloudprovider/providers/nifcloud/`.

## The system

The program is a Kubernetes cloud controller manager: the generic controllers of
`k8s.io/cloud-provider` (external code) call the interfaces this repository
implements, and the implementation turns each call into a sequence of requests
to the NIFCLOUD API.  It keeps **no state of its own**: what it knows of a load
balancer it describes at the beginning of each call, and what it wants it
computes from the Service and the Nodes it is given.  All state is in NIFCLOUD
and in the local variables of the calls in progress, so everything that is hard
is in the order of the requests and in what happens between two of them.

| Component | Files | State | Operations |
|---|---|---|---|
| Load balancer front | `nifcloud_load_balancer.go` | none | `GetLoadBalancer`, `EnsureLoadBalancer`, `UpdateLoadBalancer`, `EnsureLoadBalancerDeleted`: check ports, look the Nodes' machines up, validate annotations, dispatch on the type annotation |
| L4 load balancer | `nifcloud_l4_load_balancer.go` | listeners, targets, filters and health checks in NIFCLOUD; the description a call works from | ensure (create loop, delete loop, second description, reconcile loop), update (existence check), delete |
| Elastic load balancer | `nifcloud_elastic_load_balancer.go` | the same in NIFCLOUD, plus the rules of the security groups of the machines | the same, with waits, and rules allowed before or after targets and denied when they leave |
| API client | `nifcloud_client.go` | none | one method per request; `CreateLoadBalancer` and `RegisterPortWithLoadBalancer` are sequences of four requests; two waits with time limits |
| Instances, zones | `nifcloud_instances.go`, `nifcloud_zones.go`, `util.go` | none | existence, shutdown and metadata of the machine of a Node, by provider id or by name |
| Registration, process | `nifcloud.go`, `main.go` | configuration | wiring |
| Errors, metrics | `nifcloud_error_code.go`, `nifcloud_metrics.go` | counters | an error code predicate; counting |

The callers are external.  The **service controller** runs several service
workers, one per Service at a time, and a node worker that calls
`UpdateLoadBalancer` for every Service when the Nodes change; nothing keeps a
service worker and the node worker from working on the same Service at once.
A call that returns an error is made again later.  The **node lifecycle
controller** deletes Nodes whose machine is reported not to exist.  The
Deployment elects a leader, so there is one process, which may die at any
point of any call.

### What is hard, and what makes each part correct

* *L4 load balancer.*  Partial failure anywhere in the sequences; requests that
  took effect and whose answer was lost; two calls at once; the order create,
  delete, register, deregister.  Correct when a call that returns without an
  error left what was asked for, whatever it started from; when it disrupts
  nothing on its way; when every call returns; when a retry can succeed.
* *Elastic load balancer.*  The same, and security group rules that belong to
  several listeners at once, are created after and removed after what they are
  for, and have no owner other than the listener.  Correct when every target
  can be reached, and no rule outlives the load balancer.
* *Front.*  The type annotation chooses which load balancer is looked at;
  validation and construction must accept the same Services.
* *Instances.*  Only a machine that is known not to exist may be reported so.

`PROJECT.json` lists the hazards one by one, at their lines.

## Modules

| Module | What it models | Built on |
|---|---|---|
| `L4LoadBalancer` | the calls for the L4 load balancer of one Service, request by request, for a set `Worker` of callers | implements `LoadBalancerContract` |
| `ElasticLoadBalancer` | the same for the elastic load balancer, one caller | implements `LoadBalancerContract` |
| `ElasticLoadBalancerWorkers` | the service worker and the node worker at one elastic load balancer | two `ElasticLoadBalancer`s; implements `LoadBalancerContract` |
| `LoadBalancerContract` | what a call for a load balancer promises, whatever its type | |
| `ServiceController` | one Service: the service worker, the node worker, the front's dispatch, users, Nodes and machines | two `LoadBalancerContract`s, one per type |
| `LoadBalancerAnnotations` | validation of the annotations and the code that reads them again | |
| `NodeLifecycle` | instance and zone lookups, machines, the cloud node controller and the node lifecycle controller | |

`MCX` gives the constants with which TLC checks module `X`, and `XProofs` holds
its theorems.  `L4LoadBalancerSoleProofs` (a single caller) and
`ElasticLoadBalancerRulesProofs` (targets and rules) go on from these;
`MCElasticLoadBalancerRules` is an instance of what the latter is about.  So the two layers meet at the contract: what the service
controller relies on is what the load balancers are shown to do; and the two
controllers meet at the Nodes: that a Node without a machine is deleted in the
end is shown in `NodeLifecycle` and assumed in `ServiceController`.

### L4LoadBalancer

`lb` is what NIFCLOUD holds: a function from listeners (port and node port, what
`LoadBalancer.Equals` compares) to targets, filters and health check.  A load
balancer exists as long as it has a listener: `CreateLoadBalancer` makes it
with its first port, `DeleteLoadBalancer` takes one port away.  `outage` says
whether requests may fail.  Per caller, `pc` is the request it makes next,
`request` its arguments, `current` the code's variable of that name, `todo` and
`at` the list a loop still has to work through and its current element.

Every action is **one request** with the local control flow up to the next one.

| Label | Request | Code |
|---|---|---|
| `lookup` | `DescribeInstances` | `nifcloud_load_balancer.go:129-161` |
| `describe` | `DescribeLoadBalancers` | `nifcloud_l4_load_balancer.go:46-101` |
| `create` | `CreateLoadBalancer` or `RegisterPortWithLoadBalancer` | `:48-81` |
| `health`, `register`, `filter` | the other requests for a new listener | `nifcloud_client.go:314-337`, `:372-394` |
| `delete` | `DeleteLoadBalancer` | `nifcloud_l4_load_balancer.go:82-89` |
| `redescribe` | `DescribeLoadBalancers` | `:91-97` |
| `reconcile` | none: next listener, not a wanted one is an error | `:101-105` |
| `enroll`, `withdraw`, `refilter` | register, deregister, set filter | `:107-152` |
| `return` | none | `:154` |
| `check` | `DescribeLoadBalancers` of an update | `:272-283` |
| `find`, `remove`, `confirm` | those of a delete | `:285-310` |

What NIFCLOUD accepts (`CanCreate`, `CanRegisterPort`, `CanRegister`,
`CanDeregister`, `CanSetFilter`) is external: taken from the error answers the
client's tests keep in `testdata` (a port in use, an instance registered
already, one not registered, an address set already, a load balancer not
found) and from the limits the code states.

`Fault` ends a call anywhere with an error: a request that failed, whose answer
was lost (the fault after the step), a cancelled context, or the death of the
process, which loses only locals.

The reconcile loops compare targets and filters, never health checks: one that was
not configured when its listener was made, or whose annotation changed, stays as
it is, and no property says otherwise.

Abstractions: a health check, an address, a machine are model values; the
accounting type, network volume, policy and balancing type, which NIFCLOUD only
takes at creation, and the returned status are left out; everything the
provider refuses about a Service apart from its ports is the one flag
`supported`; machines neither come nor go while calls run; lists are worked
through in any order.

### ElasticLoadBalancer

`elb` is what `lb` is above, with the protocol of the health check in place of
filters, and `rules` what the security groups of the account let in from this
load balancer: pairs of a group and a node port, or a group and ICMP.  The
locals are those of `L4LoadBalancer` and `grants`, the rules that are left to
open or close for one listener.

| Label | Request | Code |
|---|---|---|
| `lookup` | `DescribeInstances` | `nifcloud_load_balancer.go:129-161` |
| `describe` | `NiftyDescribeElasticLoadBalancers` | `nifcloud_elastic_load_balancer.go:56-116` |
| `create` | create the load balancer, or register a port | `:64-108` |
| `health`, `register` | the other requests for a new listener | `nifcloud_client.go:639-651`, `:715-730` |
| `locate` | the description after creation | `nifcloud_elastic_load_balancer.go:72-78` |
| `allow` | authorize, rule by rule | `:84`, `:110`, `:391-425` |
| `delete`, `deny` | delete a port, then revoke its rules | `:116-126` |
| `redescribe` | the second description | `:129-134` |
| `reconcile` | none: next listener | `:136-140` |
| `enroll`, `admit` | register, then authorize | `:142-155` |
| `withdraw`, `evict` | deregister, then revoke | `:157-168` |
| `return` | none | `:171` |
| `check` | the description of an update | `:587-601` |
| `find`, `remove`, `expel`, `confirm` | those of a delete | `:603-633` |

`Described` is how `DescribeElasticLoadBalancers` reads an answer: the targets of
every listener are those of the listener NIFCLOUD lists first
(`nifcloud_client.go:594`), and which one that is, is not known.
`DescribeSecurityGroups` changes nothing and is part of the step before it; that
it, a wait, or a single rule fails is a `Fault` at the label after.

Abstractions, beyond those above: the addresses rules name (the virtual address,
or that of the second interface, and the system addresses) are opened and closed
together and stand for one source; a health check is its protocol; the groups of
a machine do not change.  `Needed` is what the load balancer needs to reach its
targets: the node port, and ICMP when it checks with that.  It is not in the
code, and is what the code's rules are compared with.

### ElasticLoadBalancerWorkers

Two instances of `ElasticLoadBalancer` that share the load balancer, the rules
and the outage and have local variables of their own: the service worker, which
ensures and deletes, and the node worker, which updates.  Their requests
interleave freely, and each may work for another version of the Service.
`opposed` is the history of `L4LoadBalancer`, as to listeners.

### LoadBalancerContract

A load balancer is a set of parts (`have`: listeners, their targets, their
filters), a call the set of parts it wants (`want`; a delete wants none).  A
call (`Work`) only adds parts it wants and removes parts it does not, in any
order, never all of them when it wants some, and may fail at any time; if it
succeeds, the parts are the ones it wanted, unless a call that wanted others
worked at the same time.  `opposed`, a history variable of the contract and of
the modules with several callers, holds the callers to whom that happened.  Health checks are no
parts, since no call restores them; nor are the targets of an elastic load
balancer, which it does not always get right (`elb_first`).

### ServiceController

The generic controller is external; the module models how version 0.28.3 calls
the provider for one Service.  The *service worker* takes the Service up
(`Sync`) and either looks for its load balancer and deletes it (`Get`, then
`Unfinalize`), or adds the finalizer and ensures it (`Finalize`,
`EnsureLoadBalancer`); a Service that has vanished is deleted from what the
cache holds (`Reap`).  The *node worker* (`NodeSync`) updates the load balancer
when the Nodes change, from the cached Service; if that fails it asks whether
there is a load balancer at all before it has the Service synced again
(`Reget`).  `status`, `have` and `opposed`, with what a call wants, are for each kind
of load balancer the variables of its contract (`L4`, `Elastic`), and every step of
a call is one of the contract (`CallsKeepContract`).

The parts of a load balancer are its listeners, each a port with its node port,
and their targets; `Itself` stands for the listener without a target.  NIFCLOUD holds
no two listeners on one port, none on node port 0 and no more than its limit
(`Holdable`), and a call adds before it takes away, so a Service whose port
changes its node port, or that replaces ports at the limit, is in `Conflict`
with the load balancer it has.  A call fails (`Fail`) while NIFCLOUD does; when
another call was at the same load balancer meanwhile (`met`), whether it wanted
the same or not; or because it is refused (`Refused`), as every retry will be: in
a conflict, and, for an elastic load balancer with the right listeners, when it
mistook their targets.  That an undisturbed call is refused for nothing else is
what `RefusedOnConflictOnly` and `RefusedForCause` say of the load balancers, and
the two theorems about them prove.  A refusal is always allowed in these cases, and
never required.  What this repository decides is in
`EnsureLoadBalancer` (all machines found, annotations valid),
`UpdateLoadBalancer` (valid, and there), `EnsureLoadBalancerDeleted` and
`ExistsOrNot` (no validation) and in the dispatch on the type annotation, which
may be `lb` or absent, `elb`, empty, or unsupported.  Any request may fail while
`outage` lasts, and the process may die with the calls in progress (`Restart`).

Two things the code is known to leave behind are kept in the history variable
`excused`: the load balancer of a type the Service had before
(`nifcloud_load_balancer.go:190` looks at the present annotation only; the same
goes for an annotation that becomes unsupported, for which `GetLoadBalancer`
says "not found"), and one that an update put back because it was deleted after
`UpdateLoadBalancer` had found it (`:176`).  `crossed` is TRUE when the last
syncs of the two workers worked for different Nodes or Services at once: the
older Nodes may win, what the service worker made may be taken away before it
reports success (`Undone`), or an update may be refused before the load balancer
is created and is not repeated.

Abstractions: queues hold the Service or not; backoff and the periodic resync
of Nodes are left out (retries come at once or later); the Nodes a worker sees are those in the
API server.  Node ports are the API server's to give: they stay with a Service
while its type needs them, and may be others when it does again (`ChangeService`).

### LoadBalancerAnnotations

`EnsureLoadBalancer` evaluates the validation and then the code that builds the
request from the same annotations, while `Annotate` changes them.  Which texts
are IP addresses, numbers or lists is given by constants, so the theorems hold for any
reading of them.  The L4 and the elastic code read balancing type, volume,
threshold, interval and protocol alike (`Parses`); two interfaces share one
definition (`ValidInterface`, `NewInterface`).  The source ranges, which
`nifcloud_l4_load_balancer.go:252` reads after the validation and may refuse, are
left out: the validation does not look at them, and the API server admits only
ranges that can be read.  Some oddities hold by design of
the code and no property forbids them: the empty type is dispatched to the L4
load balancer and refused by the validation; the empty network id is taken for a
private LAN; an address without its interface is ignored; the VIP may be that of an
interface that is not there.

### NodeLifecycle

A machine has a unique id and a name (its instance id), a Node the name its
machine had when it registered.  `Replies` is what `DescribeInstances` may
answer, including failures and reservations without an instance, `Read` what the
client makes of it, and the lookups of `nifcloud_instances.go` and
`nifcloud_zones.go` are operators from a Node or ProviderID to the set of answers.  The two
controllers, external, ask in one step and act in a later one: the cloud node
controller sets the ProviderID of a new Node, the node lifecycle controller
deletes Nodes without a machine and taints those of stopped machines.  The
interfaces of v1 and the zones are not asked by them, since `nifcloud.go` offers
`InstancesV2`: they are compared with it (`InterfacesAgree`).

Assumptions: a new or renamed machine does not take the name of a Node that is
still there, and names change only after the Node is initialised (the
repository's README asks for names that match the instance ids); a machine does
not register between the node controller's answer about an older Node of its
name and its patch; Nodes are deleted by the controller only; a kubelet
registers with its own ProviderID, with none, or with one that is not readable.

## Runs

| Run | Question | Result |
|---|---|---|
| `l4_sequential` | One caller, any leftovers, every kind of request, failures | holds; refused on port conflicts only |
| `l4_callers` | Two callers at once, of the same or of different versions | holds for calls nobody opposed; the contract holds; every call returns |
| `l4_nodeless` | Are targets Nodes? | not when there are no Nodes |
| `elb_calls` | One caller, any leftovers, every kind of request, failures | listeners: holds, with the contract; targets: holds for one port; refused on conflicts and confused targets only |
| `elb_rules` | No failures: the rules, while ports or Nodes change | exactly those needed, at every step; nothing is refused |
| `elb_renumbered` | ... when a port gets another number? | no: the rule opened is closed again |
| `elb_shared_group` | ... when machines share a group? | no: one that leaves closes the rules of all |
| `elb_first` | ... when ports and Nodes change at once? | no: targets are read from the wrong listener |
| `elb_workers` | Service worker and node worker at once, of any versions | the contract holds, as to listeners; every call returns |
| `services` | A Service and its Nodes change, two workers, failures, restarts | nothing outlives it but what is excused; it is served in the end, but for a conflict or crossing |
| `nodes` | Machines come, go, stop and are renamed, bad answers | Nodes are deleted when their machine is gone, and only then |
| `annotations` | Can a validated Service be refused, or be incomplete? | no |

The properties:

* `Converged`: a call that returns without an error leaves exactly the
  listeners, targets and filters asked for; `NothingLeft` for a delete.
* `NeverVanishes`, `TargetsNeverEmptied`, `NoDisruption`, `StaysMatched`: what
  no step during a call may do, by whichever caller.
  All six are about calls that are not `opposed`: while another call works for
  something else nothing of the kind can hold, and the code has no lock.
* `RefusedOnConflictOnly`: with NIFCLOUD healthy an Ensure or Update of a single
  caller fails only when a port is to change its node port (it is asked for
  while the old one is there, and every retry is refused), ports are replaced at
  the limit, or one has no node port (it is asked for as port 0); so a retry
  after a failure succeeds in any other case.  `RefusedForCause` is the same for an
  elastic load balancer, whatever ports and Nodes change together; the one more
  refusal it allows is that of a target `Described` has confused, when all
  listeners are right (`Mistaken`).  `CallReturns`: calls return.
* `ImplementsContract`: the refinement, every step maps to one of the contract or
  to none.
* `CallersInv`: the inductive invariant of the proofs.
* `ListenersConverged`, `TargetsConverged`: the two halves of `Converged` for an
  elastic load balancer; `OnePortConverged`: the second for Services of one port,
  whatever was there before; `ListenersInv`: the inductive invariant.
* `Reachable`: at the end of a call every rule the listeners need is open;
  `NoStrayRules`: no other; `RulesStay`: no step closes a rule that is needed
  before and after it.
* `Guarded`: a load balancer that exists belongs to a Service that has its
  finalizer and its type, or is `excused`.  `EventuallySettled`: once nothing
  changes any more a Service that is being deleted is gone, and one that wants
  a load balancer and is valid has what it asks for, for good -- unless it is
  `InConflict` with what is there, which NIFCLOUD refuses for ever, or the last
  syncs have `crossed`.
* `NodesSurvive`: no Node of a machine that exists is deleted; `GoneNodesGo`,
  `StoppedNodesTainted`: the others are deleted or tainted in the end.
  `InitialisedBound`: a ProviderID is that of the Node's own machine.
  `TargetsAreHosts`: the machines found for Nodes are theirs.
  `InterfacesAgree`: v1, v2 and zones tell of the same machine.
* `ValidatedConstructs`: what is validated is not refused later;
  `InterfacesComplete`: each interface has the addresses its network needs, and no
  others.

Bounds.  Leftovers are *every* load balancer NIFCLOUD can hold, so a run covers
what any earlier sequence of calls and failures can have left, including calls
of older versions of the Service; two ports and two node ports give every way
two listeners can share a port, and three ports over a limit of two make the
limit bite; two machines tell "some", "all" and "other" apart.  Two callers are
what the service controller can put on one Service; in `l4_callers` they work
for two versions that share a listener, differ in another one and in their Nodes,
or delete, and begin with nothing: what they find is what the calls before
left.  The proofs remove these bounds.  `MCL4Sequential` and `MCElbCalls` use symmetry
of ports, node ports and machines, which their requests treat alike; runs with a
liveness property use none.

`services` has one port with two node ports, a limit of one, and two Nodes, one of
which is always there; the Service starts as `lb`, and users and machines make two
changes at any point of any call.  That is enough for a change of type while a call runs,
a deletion that meets an update, a machine that vanishes during either, a Service
whose last change goes back to the first, and one that loses its node port and gets
another (LoadBalancer, ClusterIP, LoadBalancer before a sync): the run reaches the
conflict, for without `InConflict` `EventuallySettled` is violated.  Two ports
that come and go and a limit of one or two, from either type, with one Node, give
larger instances of the same module (1.8 and 3.5 million states), which satisfy
the three properties too; they take longer than is convenient here.  `nodes` has two machines and two names:
one to be looked up, one to be taken for it.  A machine lives once, so its states
are finitely many.  `annotations` has for each key the
texts at the edges of what is accepted, and four changes, from a Service without
annotations and from one with two private interfaces.  `services` and `nodes`
may come to rest, so deadlock is not checked there.

`elb_workers` has two ports, so three versions of a Service: two that share nothing
and one that shares a port with each; the workers begin with nothing and make
what they find.  Its one machine is in no security group, for rules have no
influence on listeners, and is in every request, for neither have targets.

`elb_calls` starts from every load balancer as well, with the rules it needs.  One
group for all machines suffices there, for rules have no influence on listeners
and targets, and it has two interfaces.  `elb_rules` needs conditions:

* no failures, a group per machine, and ports and Nodes that do not change in one
  call (`SteadySpec`).  With failures, rules that could not be opened are never
  opened: the retry finds the targets registered (`:142`).  `elb_shared_group`
  and `elb_first` show what happens without the other conditions;
* ports that keep their node ports: a node port taken by another port number is
  `elb_renumbered`, a new node port for the same number is refused as it is by
  the L4 load balancer;
* one interface, for with two (`TwoArm = TRUE`) and ICMP checks the code opens ICMP
  and not the node port (`nifcloud_elastic_load_balancer.go:520-542`);
* ICMP checks for one port only: listeners share the rule for ICMP, and the first
  that is deleted closes it.

It starts from nothing: without failures, what calls leave is what earlier calls
of the run made.  Three ports let one come, one go and one stay; two machines
let one stay and one leave.  A failure between deleting a listener and closing
its rules leaves them open for good, since the retry finds no listener
(`:611`, `:628`): `NoStrayRules` is claimed without failures only.

Fairness.  `FairSpec` assumes weak fairness of each caller's steps: its goroutine
is scheduled and every request is answered or times out.  It does not assume
that requests succeed: an outage may last forever.

In `ServiceController` each worker keeps working, each call returns, with or
without an error (`Return` per worker; that calls return is `CallReturns`, and
without it two opposed calls could undo each other's parts forever), the outage ends, and a Node whose machine is gone is deleted
(`GoneNodesGo`).  In `NodeLifecycle` the lifecycle controller comes round to
every Node again and again, which it does by a timer (strong fairness of
`MonitorNode`, for it may be busy with another Node each time), finishes what it
has begun, and is not restarted forever.  Nothing else is fair: users, machines and
failures are free.

## Proofs

`L4LoadBalancerProofs` proves, for any finite or infinite sets of callers,
ports, machines and requests, any leftovers and callers that want whatever they want:

* `TypeCorrect`: `Spec => []TypeOK`.
* `CallersInvariant`: `Spec => []CallersInv`.
* from it `EnsureConverges`, `DeleteLeavesNothing`, `EnsureNeverDisrupts`,
  `EnsureStaysMatched`, `EnsureKeepsExisting`, `TargetsKept`.
* `ContractImplemented`: `Spec => ImplementsContract`.

`Converged` is not inductive: it speaks of the end of a call, and why it holds
there is the work done since the beginning, while another caller changes the
load balancer.  The argument is one of rely and guarantee.  `Progress(r)` says
what a step for request `r` may do: add only listeners, targets and filters that
`r` wants, and take away only ones it does not.  *Guarantee*: every step of a
caller makes progress for its request.  *Rely*: what a caller knows
(`CallerInv`: its description lags behind the load balancer only by progress,
the listeners it has finished with are settled, those it has left are in `todo`)
survives progress made by others that ask for the same.  A caller that meets
progress made for something else is `opposed` from that step on, and
`CallersInv` says less of it: only that it works on listeners its request is
about (`LocalInv`), which keeps its guarantee true.  So `CallersInv` is
inductive, and the step properties follow from `Progress`.

For the refinement the mapping is `Parts(lb)`, the parts `Asks(request)`, and the
outcome of a call read off `pc`.  A request is a `Work`, a return `Succeed`, whose
guard is `ReturnInv` and `DeletingInv` of a caller nobody opposed; steps that
only change locals are stutters.  That the load balancer does not vanish on the
way is `NeverVanishes`.

Assumptions: `ConstantsAssumption` (types of the constants, leftovers are load
balancers) and `InstanceAssumption` (the account has a machine), which only
`TargetsKept` needs.

`L4LoadBalancerSoleProofs` proves `RefusedOnlyOnConflict`
(`Spec => RefusedOnConflictOnly`) for a `Worker` with one element.  That nothing
is refused is more than that what succeeds is right: the load balancer has to be,
part by part, *exactly* what the local variables say.  `SoleIInv` says so for
each label: while it provisions, the listeners are those described and those of
the request no longer in `todo`, and the one being made has no filters and, until
they are registered, no targets; while it reconciles, the listeners of `todo` are
as described, and the one at work is but for the step just made.  Then a create
finds its port taken, or the limit reached, only in the cases the property excepts.
`ListsAssumption` (requests and leftovers have finitely many ports) is what makes
the limit a number to compare with.

`ElasticLoadBalancerProofs` proves, for any ports, machines, groups, requests and
leftovers, with one or two interfaces and failures anywhere: `TypeCorrect`,
`ListenersInvariant` (`Spec => []ListenersInv`) and from it `ListenersConverge`,
`DeleteLeavesNothing` and `EnsureKeepsExisting`.  What a call achieves is only
visible at its end; `ListenersInv` says for every label which listeners are there
already.  It has two parts.  `LocalInv` is about the variables of the caller and
holds whatever others do: what it creates is wanted, what it deletes is not.
`CallerInv` is about the load balancer and holds as long as nobody is in its way:
while it provisions, every wanted listener that is not in `todo` is there, and
none but those described and those wanted; while it deletes, the wanted ones are
there, and none but those and the ones in `todo`; while it reconciles, exactly the
wanted ones.
`EnsureKeepsExisting` needs the middle one, and that a Service has a port: when a
listener is deleted all wanted ones are there.
The assumption is `ConstantsAssumption`; what the API server guarantees of a
Service (`ServiceAssumption`) is not used so far.

`ContractImplemented` maps the listeners to parts, with one caller: lemmas
say of each step whether it begins, ends or goes on with a call and what it does
to the listeners meanwhile (`CallEffect`, `StepEffect`).

`ElasticLoadBalancerRulesProofs` is about targets and rules, and needs
`ServiceAssumption` (the ports of a Service are finitely many and differ).

*One port.*  `OnePortConverges` and `OnePortKeepsTargets` hold for `Spec`, with any
leftovers, however misshapen, and failures anywhere.  A description may give a
listener the targets of another; but once the old ones are deleted and there is
one listener, there is nothing to confuse (`OneDescribed`).  `OnePortInv` follows
its targets from the second description to the end, and those of a new listener
from their registration.

*Refusals.*  `RefusedOnlyForCause` (`Spec => RefusedForCause`) has the same leftovers
and failures and any number of ports.  Its invariant `ExpectedInv` says what the
local variables expect of the listeners: those left to create are not there, those
left to delete are, and while the call reconciles the listeners are the wanted
ones.  `FiniteInv`, that there are finitely many, makes the limit a number to
compare with; it needs `ConstantsAssumption` to say so of the leftovers.

*Any ports.*  `TargetsReachable`, `RulesAllNeeded`, `NeededRulesStay`,
`NothingRefused` and `TargetsConverge` hold for `SteadySpec` when the constants are
`Undisturbed`.  These are the conditions of `elb_rules`, as general as the
argument allows: a port keeps its node port and shares it with none; ICMP checks
for at most one port, and one interface if for any; no two machines share a group,
though each may be in several or in none; room for the ports of any two versions;
leftovers like those of calls that succeeded.  `elb_rules` evaluates `Undisturbed`
on its instance; `elb_renumbered` and `elb_shared_group` break it, `elb_first` the
other condition, `Steady`.  The invariant `SteadyInv` has two parts.  `TargetsInv`: between calls
all listeners have the same targets, so that it does not matter which one a
description reads them from, and during a call each is as described or as asked
for, except the one at work.  `RulesInv`: the rules needed are at every label the
ones open, together with those still to be opened (`grants`, while a call opens) or
without those still to be closed (while it closes).  So at the end of a call, with
`grants` empty, rules and needs are equal.  That closing a rule never hits another
listener is where the conditions come in: node ports are not shared, groups
belong to one machine, ICMP to one port.

`ElasticLoadBalancerWorkersProofs` proves the contract for two workers
(`ContractImplemented`) and that a call nobody opposed is undisturbed
(`UnopposedUndisturbed`).  What a worker does itself comes from the lemmas about
one caller, cited through the instances; `OthersInv` says what a caller bears: any
change that brings the listeners no further from those it wants.  A worker that
wants the same listeners makes no other change, one that wants others puts the
call in `opposed`.  The assumptions are those of `ElasticLoadBalancer`.

`ServiceControllerProofs` proves `TypeCorrect`, `Invariant` and
`LoadBalancersGuarded` (`Spec => []Guarded`), for any ports, Nodes and number of
changes.  `Guarded` speaks of load balancers that exist; what keeps it is what
the workers are about to do, so the invariant adds: a worker about to create a
load balancer of a kind that is not excused does so for a Service with the
finalizer and that type (`CreatingGuarded`); the Service a worker holds has the type it
has now (`SeenOfService`); and from the moment the service worker has found
nothing or has deleted, until the finalizer is gone, there is no load balancer and
nobody who creates one (`NoOther`).  Of the contract the proof uses only that a
call adds what it wants and that a delete nobody opposed leaves nothing.
`ContractKept` (`Spec => CallsKeepContract`) ties the layers together: what a call
does here is allowed by the contract that the three refinement theorems show both
kinds of load balancers to implement.

`NodeLifecycleProofs` proves `TypeCorrect`, `Invariant`, `BoundToItsMachine`,
`LookupsFindHosts`, `InterfacesTellTheSame` and `NoLivingNodeDeleted`, for any
machines, names, zones and ProviderIDs.  The invariant says that two machines never share a name, that the
machine with a Node's name is the Node's own (`NamesOwn`), that readable
ProviderIDs name it (`ProviderIDsOwn`), and that an answer not acted upon yet is
still right (`PatchOwn`, `DeleteGone`): a machine never comes back, so "gone"
cannot grow old.  `MachineAssumption`: unique ids are no zones.

`LoadBalancerAnnotationsProofs` proves `TypeCorrect`, `Invariant`,
`ValidatedNeverRefused` and `InterfacesAlwaysComplete` for any texts and any
reading of them; `AtoiAssumption` says that the allowed volumes, "1" and "2" are
numbers, and `EmptyAssumption` that the empty text is no address.

Only model-checked: the liveness properties (`CallReturns`, `EventuallySettled`,
`GoneNodesGo`, `StoppedNodesTainted`).  They rest on fairness, and the prover has
neither ENABLED nor the induction over a measure that they would take.  Every
invariant and action property that a passing run checks is proved for all values of the
constants, within the hypotheses its theorem states.

## Plan

Done: all modules above with their runs, the contract and both refinements, and
the proofs listed.  Left:

1. Targets and rules with two workers at one elastic load balancer; today
   `ElasticLoadBalancerWorkers` is about listeners.
2. What can be said of rules when requests fail: the theorems about them are about
   calls that are answered, since a retry does not look at rules.

## Not modelled

Registration and process start, metrics, the error code predicate, the generated
mock, charts: wiring, counters and generated code.  Wording, logging and the
status that is returned.  The name of a load balancer, the first characters of
the Service's UID, is taken to be unique.  Time: backoff, the periodic resync and
how long NIFCLOUD takes.
