-------------------------------- MODULE MCChain --------------------------------
(***************************************************************************)
(* Instances of the request path for TLC.                                  *)
(***************************************************************************)
EXTENDS Chain, TLC

\* Nothing tells two requests, or two endpoints, apart.
Alike == Permutations(Requests) \cup Permutations(Endpoints)
=============================================================================
