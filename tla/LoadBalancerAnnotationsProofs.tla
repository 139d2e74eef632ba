-------------------- MODULE LoadBalancerAnnotationsProofs --------------------
(***************************************************************************)
(* Theorems of LoadBalancerAnnotations, for any texts, any IP addresses    *)
(* and any reading of numbers and lists.                                   *)
(***************************************************************************)
EXTENDS LoadBalancerAnnotations, SequenceTheorems, TLAPS

LEMMA ValidParses ==
  ASSUME NEW a \in Annotations, validateLoadBalancerAnnotations(a)
  PROVE  Parses(a)
<1>1. a["volume"] # None => a["volume"] \in Numeral
  <2>1. allowedElasticLoadBalancerNetworkVolume \subseteq allowedL4LoadBalancerNetworkVolume
    BY DEF allowedL4LoadBalancerNetworkVolume
  <2>2. allowedL4LoadBalancerNetworkVolume \subseteq Numeral
    BY AtoiAssumption
  <2> HIDE DEF Numeral
  <2> QED
    BY <2>1, <2>2 DEF validateLoadBalancerAnnotations, ValidElastic, ValidL4, OneOf, Has
<1>2. \A k \in {"balancing", "threshold", "interval"} : a[k] # None => a[k] \in Numeral
  <2>1. "1" \in Numeral /\ "2" \in Numeral
    BY AtoiAssumption
  <2> HIDE DEF Numeral
  <2> QED
    BY <2>1 DEF validateLoadBalancerAnnotations, ValidCommon, OneOf, Between, Has
<1>3. OneOf(a, "protocol", {"TCP", "tcp", "ICMP", "icmp"})
  BY DEF validateLoadBalancerAnnotations, ValidCommon, OneOf
<1> QED
  BY <1>1, <1>2, <1>3 DEF Parses, OneOf, Has

LEMMA ValidInterfaceParses ==
  ASSUME NEW a, NEW i \in Interface, ValidInterface(a, i)
  PROVE  InterfaceParses(a, i)
BY DEF ValidInterface, InterfaceParses, TwoAddresses

\* Of a validated annotation the interfaces are those that NIFCLOUD can take.
Complete(face) ==
    IF isPrivateLanNetworkID(face.network)
      THEN /\ face.address \in IPAddress
           /\ Len(face.system) = 2
           /\ \A m \in 1..2 : face.system[m] \in IPAddress
      ELSE face.address = "" /\ face.system = <<>>

LEMMA NewInterfaceComplete ==
  ASSUME NEW a, NEW i \in Interface, ValidInterface(a, i), Has(a, Network[i])
  PROVE  Complete(NewInterface(a, i))
<1>1. CASE isPrivateLanNetworkID(a[Network[i]])
  BY <1>1 DEF ValidInterface, NewInterface, Complete, TextOf, TwoAddresses
<1>2. CASE ~isPrivateLanNetworkID(a[Network[i]])
  BY <1>2 DEF ValidInterface, NewInterface, Complete, TextOf, OneOf
<1> QED
  BY <1>1, <1>2

LEMMA TwoInterfaces ==
  ASSUME NEW x, NEW y
  PROVE  <<x>> \o <<y>> = <<x, y>> /\ <<x, y>> # <<>>
<1>1. <<x>> \o <<y>> = <<x, y>>
  <2>1. <<x>> \in Seq({x, y}) /\ <<y>> \in Seq({x, y}) /\ <<x, y>> \in Seq({x, y})
    OBVIOUS
  <2> DEFINE s == <<x>>
             t == <<y>>
             both == s \o t
  <2>2. Len(s) = 1 /\ Len(t) = 1 /\ s[1] = x /\ t[1] = y
    OBVIOUS
  <2>3. s \in Seq({x, y}) /\ t \in Seq({x, y})
    BY <2>1
  <2> HIDE DEF s, t
  <2>4. /\ both \in Seq({x, y}) /\ Len(both) = Len(s) + Len(t)
        /\ \A i \in 1 .. Len(s) + Len(t) :
             both[i] = IF i <= Len(s) THEN s[i] ELSE t[i - Len(s)]
    BY <2>3, ConcatProperties
  <2> HIDE DEF both
  <2>5. Len(both) = 2 /\ both[1] = x /\ both[2] = y
    BY <2>2, <2>4
  <2>6. Len(<<x, y>>) = 2 /\ <<x, y>>[1] = x /\ <<x, y>>[2] = y
    OBVIOUS
  <2>7. \A i \in 1 .. Len(both) : both[i] = <<x, y>>[i]
    BY <2>5, <2>6
  <2>8. both = <<x, y>>
    BY <2>1, <2>4, <2>5, <2>6, <2>7, SeqEqual
  <2> QED
    BY <2>8 DEF both, s, t
<1>2. Len(<<x, y>>) = 2 /\ Len(<< >>) = 0
  OBVIOUS
<1> QED
  BY <1>1, <1>2

\* The interfaces of a request, one by one.
LEMMA TheInterfaces ==
  ASSUME NEW a
  PROVE  \/ NetworkInterfaces(a) = <<DefaultInterface>>
         \/ \E i \in Interface :
              Has(a, Network[i]) /\ NetworkInterfaces(a) = <<NewInterface(a, i)>>
         \/ /\ Has(a, Network[1]) /\ Has(a, Network[2])
            /\ NetworkInterfaces(a) = <<NewInterface(a, 1), NewInterface(a, 2)>>
<1> DEFINE x == NewInterface(a, 1)
           y == NewInterface(a, 2)
<1>1. CASE Has(a, Network[1]) /\ Has(a, Network[2])
  <2>1. NamedInterfaces(a) = <<x>> \o <<y>>
    BY <1>1 DEF NamedInterfaces
  <2> HIDE DEF x, y
  <2>2. <<x>> \o <<y>> = <<x, y>> /\ <<x, y>> # <<>>
    BY TwoInterfaces
  <2>3. NetworkInterfaces(a) = <<x, y>>
    BY <2>1, <2>2 DEF NetworkInterfaces
  <2> QED
    BY <1>1, <2>3 DEF x, y
<1>2. CASE Has(a, Network[1]) /\ ~Has(a, Network[2])
  <2>1. NamedInterfaces(a) = <<x>> \o <<>>
    BY <1>2 DEF NamedInterfaces
  <2> HIDE DEF x
  <2>2. <<x>> \o <<>> = <<x>> /\ <<x>> # <<>>
    OBVIOUS
  <2>3. NetworkInterfaces(a) = <<x>>
    BY <2>1, <2>2 DEF NetworkInterfaces
  <2> QED
    BY <1>2, <2>3 DEF x, Interface
<1>3. CASE ~Has(a, Network[1]) /\ Has(a, Network[2])
  <2>1. NamedInterfaces(a) = <<>> \o <<y>>
    BY <1>3 DEF NamedInterfaces
  <2> HIDE DEF y
  <2>2. <<>> \o <<y>> = <<y>> /\ <<y>> # <<>>
    OBVIOUS
  <2>3. NetworkInterfaces(a) = <<y>>
    BY <2>1, <2>2 DEF NetworkInterfaces
  <2> QED
    BY <1>3, <2>3 DEF y, Interface
<1>4. CASE ~Has(a, Network[1]) /\ ~Has(a, Network[2])
  <2>1. NamedInterfaces(a) = <<>> \o <<>>
    BY <1>4 DEF NamedInterfaces
  <2>2. <<>> \o <<>> = <<>>
    OBVIOUS
  <2> QED
    BY <2>1, <2>2 DEF NetworkInterfaces
<1> QED
  BY <1>1, <1>2, <1>3, <1>4

InOrder(faces) ==
    /\ Len(faces) \in 1..2
    /\ \A n \in 1..Len(faces) : Complete(faces[n])
    /\ \A n, m \in 1..Len(faces) : faces[n].vip /\ faces[m].vip => n = m

LEMMA InterfacesInOrder ==
  ASSUME NEW a, \A i \in Interface : ValidInterface(a, i)
  PROVE  InOrder(NetworkInterfaces(a))
<1>1. CASE NetworkInterfaces(a) = <<DefaultInterface>>
  <2>1. Complete(DefaultInterface)
    BY DEF Complete, DefaultInterface, isPrivateLanNetworkID
  <2> HIDE DEF DefaultInterface
  <2> QED
    BY <1>1, <2>1 DEF InOrder
<1>2. ASSUME NEW i \in Interface, Has(a, Network[i]),
             NetworkInterfaces(a) = <<NewInterface(a, i)>>
      PROVE  InOrder(NetworkInterfaces(a))
  BY <1>2, NewInterfaceComplete DEF InOrder
<1>3. CASE /\ Has(a, Network[1]) /\ Has(a, Network[2])
           /\ NetworkInterfaces(a) = <<NewInterface(a, 1), NewInterface(a, 2)>>
  <2>1. Complete(NewInterface(a, 1)) /\ Complete(NewInterface(a, 2))
    BY <1>3, NewInterfaceComplete DEF Interface
  <2>2. ~(NewInterface(a, 1).vip /\ NewInterface(a, 2).vip)
    <3>1. NewInterface(a, 1).vip <=> a["vip"] = "1"
      BY Zenon DEF NewInterface
    <3>2. NewInterface(a, 2).vip <=> a["vip"] = "2"
      <4>1. (IF 2 = 1 THEN "1" ELSE "2") = "2"
        BY SMT
      <4> QED
        BY <4>1, Zenon DEF NewInterface
    <3> QED
      BY <3>1, <3>2
  <2> QED
    BY <1>3, <2>1, <2>2 DEF InOrder
<1> QED
  BY <1>1, <1>2, <1>3, TheInterfaces

-----------------------------------------------------------------------------
IInv ==
    /\ annotations \in Annotations
    /\ outcome \in {"none", "invalid", "accepted"}
    /\ changes \in 0..MaxChanges
    /\ IF Elastic THEN InOrder(desire.interfaces) ELSE desire = Nothing

LEMMA EnsureInductive ==
  ASSUME IInv, EnsureLoadBalancer
  PROVE  IInv'
<1>1. UNCHANGED <<annotations, changes>>
  BY DEF EnsureLoadBalancer, Answer
<1>2. CASE ~validateLoadBalancerAnnotations(annotations)
  BY <1>1, <1>2 DEF EnsureLoadBalancer, Answer, IInv, Elastic
<1>3. CASE validateLoadBalancerAnnotations(annotations)
  <2>1. Parses(annotations)
    BY <1>3, ValidParses DEF IInv
  <2>2. CASE isElasticLoadBalancer(annotations)
    <3>1. \A i \in Interface : ValidInterface(annotations, i)
      BY <1>3, <2>2 DEF validateLoadBalancerAnnotations, isElasticLoadBalancer, ValidElastic
    <3>2. \A i \in Interface : InterfaceParses(annotations, i)
      BY <3>1, ValidInterfaceParses
    <3>3. /\ outcome' = "accepted"
          /\ desire' = [elastic |-> TRUE, interfaces |-> NetworkInterfaces(annotations)]
      BY <1>3, <2>1, <2>2, <3>2 DEF EnsureLoadBalancer, Answer
    <3>4. InOrder(NetworkInterfaces(annotations))
      BY <3>1, InterfacesInOrder
    <3> QED
      BY <1>1, <3>3, <3>4 DEF IInv, Elastic
  <2>3. CASE ~isElasticLoadBalancer(annotations)
    <3>1. isL4LoadBalancer(annotations)
      BY <1>3, <2>3 DEF validateLoadBalancerAnnotations, ValidCommon, OneOf, Has,
                        isElasticLoadBalancer, isL4LoadBalancer
    <3>2. outcome' = "accepted" /\ desire' = Nothing
      BY <1>3, <2>1, <2>3, <3>1 DEF EnsureLoadBalancer, Answer
    <3> QED
      BY <1>1, <3>2 DEF IInv, Elastic, Nothing
  <2> QED
    BY <2>2, <2>3
<1> QED
  BY <1>2, <1>3

LEMMA AnnotateInductive ==
  ASSUME IInv, NEW k \in Key, Annotate(k)
  PROVE  IInv'
<1>1. annotations' \in Annotations
  <2> DEFINE All == (UNION {Says[j] : j \in Key}) \union {None}
  <2>1. PICK text \in Says[k] \union {None} : annotations' = [annotations EXCEPT ![k] = text]
    BY DEF Annotate
  <2>2. text \in All
    <3>1. CASE text = None
      BY <3>1
    <3>2. CASE text \in Says[k]
      BY <3>2
    <3> QED
      BY <2>1, <3>1, <3>2
  <2>3. /\ annotations \in [Key -> All]
        /\ \A j \in Key : annotations[j] \in Says[j] \union {None}
    BY DEF IInv, Annotations
  <2> HIDE DEF All
  <2>4. /\ annotations' \in [Key -> All]
        /\ \A j \in Key : annotations'[j] \in Says[j] \union {None}
    BY <2>1, <2>2, <2>3
  <2> QED
    BY <2>4 DEF Annotations, All
<1>2. changes' \in 0..MaxChanges
  BY MaxChangesAssumption DEF Annotate, IInv
<1> QED
  BY <1>1, <1>2 DEF Annotate, IInv, Elastic

THEOREM Invariant == Spec => []IInv
<1>1. Init => IInv
  BY ExamplesAssumption, MaxChangesAssumption DEF Init, IInv, Elastic
<1>2. IInv /\ [Next]_vars => IInv'
  <2>1. IInv /\ UNCHANGED vars => IInv'
    BY DEF IInv, vars, Elastic
  <2> QED
    BY <2>1, EnsureInductive, AnnotateInductive DEF Next
<1> QED
  BY <1>1, <1>2, PTL DEF Spec

\* The annotations and the requests built of them are well-formed.
THEOREM TypeCorrect == Spec => []TypeOK
<1>1. IInv => TypeOK
  BY DEF IInv, TypeOK, InOrder, Nothing
<1> QED
  BY <1>1, Invariant, PTL

\* Validated annotations are never refused when they are read again.
THEOREM ValidatedNeverRefused == Spec => []ValidatedConstructs
<1>1. IInv => ValidatedConstructs
  BY DEF IInv, ValidatedConstructs
<1> QED
  BY <1>1, Invariant, PTL

\* An elastic load balancer is asked for with interfaces that have the addresses
\* their networks need, and with one VIP at most.
THEOREM InterfacesAlwaysComplete == Spec => []InterfacesComplete
<1>1. IInv => InterfacesComplete
  BY DEF IInv, InterfacesComplete, InOrder, Complete
<1> QED
  BY <1>1, Invariant, PTL
=============================================================================
