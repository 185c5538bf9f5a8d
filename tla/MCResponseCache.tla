---------------------------- MODULE MCResponseCache ----------------------------
(***************************************************************************)
(* Instances of the response cache for TLC.                                *)
(***************************************************************************)
EXTENDS ResponseCache

\* The same method on two chains, the name of one beginning that of the
\* other, and one that is not cacheable.
TwoChains ==
  {[chain |-> <<"eth">>, method |-> <<"eth_getBlockByNumber">>, params |-> <<"2^53+1">>],
   [chain |-> <<"eth", "-test">>, method |-> <<"eth_getBlockByNumber">>, params |-> <<"2^53+1">>],
   [chain |-> <<"eth">>, method |-> <<"eth_blockNumber">>, params |-> <<>>]}
StaticMethods == {<<"eth_getBlockByNumber">>}

\* A body that names its method twice is read in two ways.
Readings(q) == {q, [q EXCEPT !.method = <<"eth_call">>]}

\* float64 has no 2^53 + 1.
Rounded(q) == IF q.params = <<>> THEN q ELSE [q EXCEPT !.params = <<"2^53">>]
=============================================================================
