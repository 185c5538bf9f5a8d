---------------------------- MODULE MCLoadBalancer ----------------------------
(***************************************************************************)
(* Instances of the load balancer for TLC.                                 *)
(***************************************************************************)
EXTENDS LoadBalancer, TLC

\* Unequal weights, for callers that share rounds.
TwoToOne == <<2, 1>>

CallersAlike == Permutations(Callers)
=============================================================================
