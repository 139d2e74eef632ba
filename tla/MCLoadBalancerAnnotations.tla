---------------------- MODULE MCLoadBalancerAnnotations ----------------------
(***************************************************************************)
(* A small instance of LoadBalancerAnnotations for TLC.  An annotation may *)
(* have a text that is fine and one or two at the edge of what is; the     *)
(* Services start without any, or with two private interfaces.             *)
(***************************************************************************)
EXTENDS LoadBalancerAnnotations, TLC

IP == {"10.0.0.1", "10.0.0.2"}

NumberOf == [t \in allowedL4LoadBalancerNetworkVolume \union {"0", "1", "2", "5", "11", "300", "301"} |->
               CHOOSE n \in 0..2000 : ToString(n) = t]

Pieces == [t \in {"10.0.0.1,10.0.0.2", "10.0.0.1", "10.0.0.1,", ""} |->
             CASE t = "10.0.0.1,10.0.0.2" -> <<"10.0.0.1", "10.0.0.2">>
               [] t = "10.0.0.1," -> <<"10.0.0.1", "">>
               [] OTHER -> <<t>>]

Texts ==
    [k \in Key |->
       CASE k = "type" -> {"lb", "elb", "", "nlb"}
         [] k \in {"balancing", "accounting"} -> {"2", "two"}
         [] k = "protocol" -> {"ICMP", "icmp"}
         [] k = "threshold" -> {"0", "10"}
         [] k = "interval" -> {"300", "301"}
         [] k = "volume" -> {"500", "2000", "50"}
         [] k = "policy" -> {"ats", ""}
         [] k \in {"network1", "network2"} -> {"net-COMMON_GLOBAL", "net-0001", ""}
         [] k \in {"address1", "address2"} -> {"10.0.0.1", "host", ""}
         [] k \in {"system1", "system2"} -> DOMAIN Pieces
         [] OTHER -> {"1", "2", "3"}]

Bare == [k \in Key |-> None]
TwoPrivate ==
    [k \in Key |->
       CASE k = "type" -> "elb"
         [] k \in {"network1", "network2"} -> "net-0001"
         [] k \in {"address1", "address2"} -> "10.0.0.1"
         [] k \in {"system1", "system2"} -> "10.0.0.1,10.0.0.2"
         [] OTHER -> None]
Services == {Bare, TwoPrivate}
=============================================================================
