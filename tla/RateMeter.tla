------------------------------- MODULE RateMeter -------------------------------
(***************************************************************************)
(* What a rate limiter promises: every key has a credit that rises by Rate *)
(* per tick up to Burst and pays for every admission, for ever.  Nothing   *)
(* is created, evicted or computed late.                                   *)
(***************************************************************************)
EXTENDS Naturals

CONSTANTS Keys, Costs, Rate, Burst

VARIABLE credit

Least(a, b) == IF a <= b THEN a ELSE b

Init == credit = [k \in Keys |-> Burst]

Admit(k, n) ==
  /\ credit[k] >= n
  /\ credit' = [credit EXCEPT ![k] = @ - n]

Earn == credit' = [k \in Keys |-> Least(Burst, credit[k] + Rate)]

Next == Earn \/ \E k \in Keys, n \in Costs : Admit(k, n)

Spec == Init /\ [][Next]_credit
=============================================================================
