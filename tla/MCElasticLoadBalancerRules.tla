--------------------- MODULE MCElasticLoadBalancerRules ---------------------
(***************************************************************************)
(* The instance of ElasticLoadBalancer whose rules TLC checks: one of      *)
(* those the theorems about rules are about.                               *)
(***************************************************************************)
EXTENDS MCElasticLoadBalancer, ElasticLoadBalancerRulesProofs

ASSUME RulesAssumption == Undisturbed
=============================================================================
