------------------------ MODULE LoadBalancerAnnotations ------------------------
(***************************************************************************)
(* The annotations of a Service, which are free text, and what becomes of  *)
(* them: EnsureLoadBalancer validates all of them in one place; another    *)
(* one, for each type of load balancer, reads them again to build what it  *)
(* asks NIFCLOUD for.                                                      *)
(*                                                                         *)
(* What the library makes of a text is given by constants: the texts that  *)
(* are IP addresses, the number a text is, the texts between its commas.   *)
(***************************************************************************)
EXTENDS Integers, Sequences

CONSTANTS
    None,           \* stands for an annotation that is not there
    Says,           \* the texts each annotation may have
    Examples,       \* annotations a Service is created with
    IPAddress,
    Atoi,
    Split,
    MaxChanges      \* bounds how often the annotations change

Interface == 1..2
Network == <<"network1", "network2">>
Address == <<"address1", "address2">>
SystemAddresses == <<"system1", "system2">>
ElasticOnly == {Network[1], Network[2], Address[1], Address[2], SystemAddresses[1],
                SystemAddresses[2], "vip"}
Key == ElasticOnly \union {"type", "balancing", "accounting", "protocol", "threshold",
                           "interval", "volume", "policy"}

allowedElasticLoadBalancerNetworkVolume ==
    {"10", "20", "30", "40", "100", "200", "300", "400", "500"}
allowedL4LoadBalancerNetworkVolume ==
    allowedElasticLoadBalancerNetworkVolume \union
    {"600", "700", "800", "900", "1000", "1100", "1200", "1300", "1400", "1500", "1600",
     "1700", "1800", "1900", "2000"}

Numeral == DOMAIN Atoi
Annotations == {a \in [Key -> (UNION {Says[k] : k \in Key}) \union {None}] :
                  \A k \in Key : a[k] \in Says[k] \union {None}}

ASSUME NoneAssumption == \A k \in Key : None \notin Says[k]
ASSUME ExamplesAssumption == Examples \subseteq Annotations
ASSUME EmptyAssumption == "" \notin IPAddress
ASSUME AtoiAssumption ==
    /\ Atoi \in [Numeral -> Int]
    /\ {"1", "2"} \union allowedL4LoadBalancerNetworkVolume \subseteq Numeral
ASSUME SplitAssumption == \A i \in Interface : Says[SystemAddresses[i]] \subseteq DOMAIN Split
ASSUME MaxChangesAssumption == MaxChanges \in Nat

-----------------------------------------------------------------------------
VARIABLES
    annotations,    \* of the Service
    outcome,        \* of the last call for these annotations
    desire,         \* what it asks NIFCLOUD for
    changes         \* how often the annotations changed

vars == <<annotations, outcome, desire, changes>>

Nothing == [elastic |-> FALSE, interfaces |-> <<>>]

Init ==
    /\ annotations \in Examples
    /\ outcome = "none"
    /\ desire = Nothing
    /\ changes = 0

-----------------------------------------------------------------------------
(* validateLoadBalancerAnnotations.                                        *)

Has(a, k) == a[k] # None
OneOf(a, k, texts) == Has(a, k) => a[k] \in texts
Between(a, k, low, high) == Has(a, k) => a[k] \in Numeral /\ Atoi[a[k]] \in low..high

ValidCommon(a) ==
    /\ OneOf(a, "type", {"lb", "elb"})
    /\ OneOf(a, "balancing", {"1", "2"})
    /\ OneOf(a, "accounting", {"1", "2"})
    /\ OneOf(a, "protocol", {"TCP", "ICMP"})
    /\ Between(a, "threshold", 1, 10)
    /\ Between(a, "interval", 5, 300)

ValidL4(a) ==
    /\ OneOf(a, "volume", allowedL4LoadBalancerNetworkVolume)
    /\ OneOf(a, "policy", {"standard", "ats"})
    /\ \A k \in ElasticOnly : OneOf(a, k, {""})

\* Any network but the two everybody has, the empty text included.
isPrivateLanNetworkID(id) == id \notin {"net-COMMON_GLOBAL", "net-COMMON_PRIVATE"}

TwoAddresses(text) ==
    /\ Len(Split[text]) = 2
    /\ \A n \in 1..2 : Split[text][n] \in IPAddress

\* An interface in a private LAN needs its own address and two more, one in a
\* common network must not have any.  Mutants: the two may be left out; one in a
\* common network may have them.
AddressesIfAny(a, i) ==
    Has(a, Network[i]) =>
      IF isPrivateLanNetworkID(a[Network[i]])
        THEN /\ Has(a, Address[i]) /\ a[Address[i]] \in IPAddress
             /\ Has(a, SystemAddresses[i]) => TwoAddresses(a[SystemAddresses[i]])
        ELSE OneOf(a, Address[i], {""}) /\ OneOf(a, SystemAddresses[i], {""})
AddressesAnywhere(a, i) ==
    Has(a, Network[i]) /\ isPrivateLanNetworkID(a[Network[i]]) =>
      /\ Has(a, Address[i]) /\ a[Address[i]] \in IPAddress
      /\ Has(a, SystemAddresses[i]) /\ TwoAddresses(a[SystemAddresses[i]])
ValidInterface(a, i) ==
    Has(a, Network[i]) =>
      IF isPrivateLanNetworkID(a[Network[i]])
        THEN /\ Has(a, Address[i]) /\ a[Address[i]] \in IPAddress
             /\ Has(a, SystemAddresses[i]) /\ TwoAddresses(a[SystemAddresses[i]])
        ELSE OneOf(a, Address[i], {""}) /\ OneOf(a, SystemAddresses[i], {""})

ValidElastic(a) ==
    /\ OneOf(a, "volume", allowedElasticLoadBalancerNetworkVolume)
    /\ OneOf(a, "policy", {""})
    /\ \A i \in Interface : ValidInterface(a, i)
    /\ OneOf(a, "vip", {"1", "2"})

validateLoadBalancerAnnotations(a) ==
    /\ ValidCommon(a)
    /\ IF a["type"] = "elb" THEN ValidElastic(a) ELSE ValidL4(a)

-----------------------------------------------------------------------------
(* NewL4LoadBalancerFromService and NewElasticLoadBalancerFromService.     *)

isElasticLoadBalancer(a) == a["type"] = "elb"
isL4LoadBalancer(a) == a["type"] \in {None, "lb", ""}

\* The numbers and the protocol, in capitals, have to be ones.
Parses(a) ==
    /\ \A k \in {"balancing", "volume", "threshold", "interval"} : OneOf(a, k, Numeral)
    /\ OneOf(a, "protocol", {"TCP", "tcp", "ICMP", "icmp"})

TextOf(a, k) == IF Has(a, k) THEN a[k] ELSE ""

InterfaceParses(a, i) ==
    Has(a, Network[i]) /\ isPrivateLanNetworkID(a[Network[i]]) =>
      Has(a, SystemAddresses[i]) /\ Len(Split[a[SystemAddresses[i]]]) = 2

\* A common network has no system addresses, whatever the annotation says.
NewInterface(a, i) ==
    [network |-> a[Network[i]],
     address |-> TextOf(a, Address[i]),
     system |-> IF isPrivateLanNetworkID(a[Network[i]]) THEN Split[a[SystemAddresses[i]]]
                ELSE <<>>,
     vip |-> a["vip"] = IF i = 1 THEN "1" ELSE "2"]

\* One to the internet if the annotations name none.  Mutant: none then.
DefaultInterface ==
    [network |-> "net-COMMON_GLOBAL", address |-> "", system |-> <<>>, vip |-> TRUE]
NamedInterfaces(a) ==
    (IF Has(a, Network[1]) THEN <<NewInterface(a, 1)>> ELSE <<>>)
      \o (IF Has(a, Network[2]) THEN <<NewInterface(a, 2)>> ELSE <<>>)
NetworkInterfaces(a) ==
    IF NamedInterfaces(a) = <<>> THEN <<DefaultInterface>> ELSE NamedInterfaces(a)

-----------------------------------------------------------------------------
Answer(result, request) ==
    /\ outcome' = result
    /\ desire' = request
    /\ UNCHANGED <<annotations, changes>>

\* What EnsureLoadBalancer does with the annotations.
EnsureLoadBalancer ==
    \/ /\ ~validateLoadBalancerAnnotations(annotations)
       /\ Answer("invalid", Nothing)
    \/ /\ validateLoadBalancerAnnotations(annotations)
       /\ IF isElasticLoadBalancer(annotations)
            THEN IF Parses(annotations) /\ \A i \in Interface : InterfaceParses(annotations, i)
                   THEN Answer("accepted", [elastic |-> TRUE,
                                            interfaces |-> NetworkInterfaces(annotations)])
                   ELSE Answer("refused", Nothing)
            ELSE IF isL4LoadBalancer(annotations)
                   THEN Answer(IF Parses(annotations) THEN "accepted" ELSE "refused", Nothing)
                   ELSE Answer("refused", Nothing)

\* Somebody sets, changes or removes an annotation.
Annotate(k) ==
    /\ changes < MaxChanges
    /\ changes' = changes + 1
    /\ \E text \in (Says[k] \union {None}) \ {annotations[k]} :
         annotations' = [annotations EXCEPT ![k] = text]
    /\ outcome' = "none"
    /\ desire' = Nothing

Next ==
    \/ EnsureLoadBalancer
    \/ \E k \in Key : Annotate(k)

Spec == Init /\ [][Next]_vars

-----------------------------------------------------------------------------
(* Properties.                                                             *)

Elastic == outcome = "accepted" /\ desire.elastic

TypeOK ==
    /\ annotations \in Annotations
    /\ outcome \in {"none", "invalid", "refused", "accepted"}
    /\ changes \in 0..MaxChanges
    /\ Len(desire.interfaces) \in (IF Elastic THEN 1..2 ELSE {0})

\* What the validation lets pass is never refused by the code that reads the
\* annotations again, for either type of load balancer: a Service is refused
\* before anything is asked of NIFCLOUD, and with the reason.
ValidatedConstructs == outcome # "refused"

\* The interfaces an elastic load balancer is asked for have the addresses that
\* their networks need, and no others, and at most one of them is the VIP's.
InterfacesComplete ==
    Elastic =>
      LET Is == desire.interfaces IN
      /\ \A n \in 1..Len(Is) :
           IF isPrivateLanNetworkID(Is[n].network)
             THEN /\ Is[n].address \in IPAddress
                  /\ Len(Is[n].system) = 2
                  /\ \A m \in 1..2 : Is[n].system[m] \in IPAddress
             ELSE Is[n].address = "" /\ Is[n].system = <<>>
      /\ \A n, m \in 1..Len(Is) : Is[n].vip /\ Is[m].vip => n = m
=============================================================================
