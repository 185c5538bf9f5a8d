----------------------------- MODULE LoadBalancer -----------------------------
(***************************************************************************)
(* chain.LoadBalancer: weighted round robin over the endpoints that are    *)
(* healthy.  lb.mu is only ever read-locked and does not guard the health  *)
(* flags, so a call of Next interleaves with other calls and with          *)
(* SetHealthy at every atomic load: two scans and a third one as a last    *)
(* resort each see their own mixture of old and new flags.                 *)
(*                                                                         *)
(* Loop locals change in the step of the load they depend on.  current is  *)
(* an atomic.Int64 that wraps from IntMax to -IntMax - 1.                  *)
(***************************************************************************)
EXTENDS Integers, Sequences, FiniteSets

CONSTANTS
  Callers,   (* goroutines that call Next or NextWithFallback          *)
  Weights,   (* lb.weights, one entry per endpoint                     *)
  IntMax,    (* largest value of current, 2^63 - 1 in the source       *)
  MaxTally   (* bound: selections counted by one measurement of shares *)

ASSUME BalancerConfig ==
  /\ IsFiniteSet(Callers)
  /\ Weights \in Seq(Nat)
  /\ IntMax \in Nat \ {0}
  /\ MaxTally \in Nat

Endpoints == 1..Len(Weights)

\* Results that are not an endpoint.
NoResult == 0
ErrNoHealthyEndpoints == -1
IndexPanic == -2

VARIABLES
  healthy,   (* Endpoint.healthy                                           *)
  current,   (* lb.current                                                 *)
  call,      (* the locals of each caller's current or last call           *)
  seen,      (* history: endpoints up, and down, at some instant of a call *)
  tally,     (* history: selections of each endpoint while nothing flips   *)
  disturbed  (* history: some active call met a flip or a negative current *)

vars == <<healthy, current, call, seen, tally, disturbed>>

NoCall ==
  [pc |-> "done", method |-> "Next", i |-> 1, total |-> 0,
   selected |-> 0, cumulative |-> 0, result |-> NoResult]

Active(c) == call[c].pc # "done"
Quiescent == \A c \in Callers : ~Active(c)
Up == {e \in Endpoints : healthy[e]}

\* The turns that f gives to the endpoints in S; sums are numbers of turns.
Turns(f, S) == UNION {{e} \X (1..f[e]) : e \in S}
TotalWeight(S) == Cardinality(Turns(Weights, S))
Tallied == Cardinality(Turns(tally, Endpoints))
NoTally == [e \in Endpoints |-> 0]

\* Endpoints are assumed healthy when they are created.
Init ==
  /\ healthy = [e \in Endpoints |-> TRUE]
  /\ current = 0
  /\ call = [c \in Callers |-> NoCall]
  /\ seen = [c \in Callers |-> [up |-> {}, down |-> {}]]
  /\ tally = NoTally
  /\ disturbed = FALSE

-----------------------------------------------------------------------------
\* Two's-complement increment, and Go's % (the sign of the dividend).
Increment(n) == IF n = IntMax THEN -IntMax - 1 ELSE n + 1
Remainder(n, d) == IF n >= 0 THEN n % d ELSE -((-n) % d)

\* Counts a selection, and ends a disturbed measurement with its last call.
Measure(c, res) ==
  LET last == \A d \in Callers \ {c} : ~Active(d)
  IN  /\ disturbed' = (disturbed /\ ~last)
      /\ tally' = CASE disturbed -> NoTally
                    [] ~disturbed /\ res \in Endpoints -> [tally EXCEPT ![res] = @ + 1]
                    [] OTHER -> tally

Return(c, res) ==
  /\ call' = [call EXCEPT ![c] = [NoCall EXCEPT !.method = call[c].method, !.result = res]]
  /\ Measure(c, res)

\* Next fails; NextWithFallback goes on to its own choice.
Fail(c) ==
  IF call[c].method = "Next"
  THEN Return(c, ErrNoHealthyEndpoints)
  ELSE /\ call' = [call EXCEPT ![c] = [NoCall EXCEPT !.method = call[c].method, !.pc = "rescue"]]
       /\ UNCHANGED <<tally, disturbed>>

\* A caller enters Next or NextWithFallback.  A measurement that has seen a
\* whole round is put aside when everybody is quiet.
Begin(c, method) ==
  /\ ~Active(c)
  /\ Quiescent \/ Tallied + Cardinality({d \in Callers : Active(d)}) < MaxTally
  /\ call' = [call EXCEPT ![c] = [NoCall EXCEPT !.pc = "sum", !.method = method]]
  /\ seen' = [seen EXCEPT ![c] = [up |-> Up, down |-> Endpoints \ Up]]
  /\ tally' = IF Quiescent /\ Tallied >= TotalWeight(Up) THEN NoTally ELSE tally
  /\ UNCHANGED <<healthy, current, disturbed>>

\* First scan: total weight of the endpoints seen healthy.
SumWeights(c) ==
  LET i     == call[c].i
      total == call[c].total + (IF i \in Endpoints /\ healthy[i] THEN Weights[i] ELSE 0)
  IN  /\ call[c].pc = "sum"
      /\ \/ /\ i < Len(Weights)
            /\ call' = [call EXCEPT ![c].i = i + 1, ![c].total = total]
            /\ UNCHANGED <<tally, disturbed>>
         \/ /\ i >= Len(Weights) /\ total = 0
            /\ Fail(c)
         \/ /\ i >= Len(Weights) /\ total # 0
            /\ call' = [call EXCEPT ![c].pc = "draw", ![c].total = total]
            /\ UNCHANGED <<tally, disturbed>>
      /\ UNCHANGED <<healthy, current, seen>>

\* idx := lb.current.Add(1); selected := idx % totalWeight
Draw(c) ==
  LET idx == Increment(current)
  IN  /\ call[c].pc = "draw"
      /\ current' = idx
      /\ call' = [call EXCEPT ![c].pc = "pick", ![c].i = 1,
                              ![c].selected = Remainder(idx, call[c].total)]
      /\ disturbed' = (disturbed \/ idx < 0)
      /\ tally' = IF idx < 0 THEN NoTally ELSE tally
      /\ UNCHANGED <<healthy, seen>>

\* Mutant: an endpoint keeps one turn too many.
Covers(selected, cumulative) == selected <= cumulative

\* Does the range of turns that ends at cumulative cover this turn?
InRange(selected, cumulative) == selected < cumulative

\* Mutant: the second scan trusts the flags that the first one read.
PickUnchecked(c) ==
  LET i          == call[c].i
      cumulative == call[c].cumulative + Weights[i]
  IN  /\ call[c].pc = "pick"
      /\ IF InRange(call[c].selected, cumulative)
         THEN Return(c, i)
         ELSE /\ call' = [call EXCEPT ![c].i = i + 1, ![c].cumulative = cumulative]
              /\ UNCHANGED <<tally, disturbed>>
      /\ UNCHANGED <<healthy, current, seen>>

\* Second scan: the endpoint whose range of turns covers selected.
PickByWeight(c) ==
  LET i          == call[c].i
      cumulative == call[c].cumulative + (IF healthy[i] THEN Weights[i] ELSE 0)
  IN  /\ call[c].pc = "pick"
      /\ \/ /\ healthy[i] /\ InRange(call[c].selected, cumulative)
            /\ Return(c, i)
         \/ /\ ~(healthy[i] /\ InRange(call[c].selected, cumulative))
            /\ call' = [call EXCEPT
                 ![c] = IF i < Len(Weights)
                        THEN [@ EXCEPT !.i = i + 1, !.cumulative = cumulative]
                        ELSE [NoCall EXCEPT !.method = call[c].method, !.pc = "rescan"]]
            /\ UNCHANGED <<tally, disturbed>>
      /\ UNCHANGED <<healthy, current, seen>>

\* Mutant: no third scan.
PickNobody(c) ==
  /\ call[c].pc = "rescan"
  /\ Fail(c)
  /\ UNCHANGED <<healthy, current, seen>>

\* Mutant: Next starts over instead of failing.
PickAnyStartsOver(c) ==
  LET i == call[c].i
  IN  /\ call[c].pc = "rescan"
      /\ \/ /\ healthy[i]
            /\ Return(c, i)
         \/ /\ ~healthy[i]
            /\ call' = [call EXCEPT
                 ![c] = IF i < Len(Weights)
                        THEN [@ EXCEPT !.i = i + 1]
                        ELSE [NoCall EXCEPT !.method = call[c].method, !.pc = "sum"]]
            /\ UNCHANGED <<tally, disturbed>>
      /\ UNCHANGED <<healthy, current, seen>>

\* Third scan, when flags flipped between the first two: any healthy one.
PickAny(c) ==
  LET i == call[c].i
  IN  /\ call[c].pc = "rescan"
      /\ \/ /\ healthy[i]
            /\ Return(c, i)
         \/ /\ ~healthy[i] /\ i < Len(Weights)
            /\ call' = [call EXCEPT ![c].i = i + 1]
            /\ UNCHANGED <<tally, disturbed>>
         \/ /\ ~healthy[i] /\ i = Len(Weights)
            /\ Fail(c)
      /\ UNCHANGED <<healthy, current, seen>>

\* The tail of NextWithFallback: plain round robin over all endpoints.  A
\* negative remainder is an index out of range.
Rescue(c) ==
  LET idx == Increment(current)
  IN  /\ call[c].pc = "rescue"
      /\ IF Endpoints = {}
         THEN current' = current /\ Return(c, ErrNoHealthyEndpoints)
         ELSE /\ current' = idx
              /\ Return(c, IF Remainder(idx, Len(Weights)) < 0
                           THEN IndexPanic
                           ELSE Remainder(idx, Len(Weights)) + 1)
      /\ UNCHANGED <<healthy, seen>>

\* SetHealthy by the health checker or by a failed request.
Flip(e) ==
  /\ healthy' = [healthy EXCEPT ![e] = ~@]
  /\ seen' = [c \in Callers |->
       IF ~Active(c) THEN seen[c]
       ELSE IF healthy[e] THEN [seen[c] EXCEPT !.down = @ \cup {e}]
                          ELSE [seen[c] EXCEPT !.up = @ \cup {e}]]
  /\ tally' = NoTally
  /\ disturbed' = ~Quiescent
  /\ UNCHANGED <<current, call>>

CallStep(c) == SumWeights(c) \/ Draw(c) \/ PickByWeight(c) \/ PickAny(c) \/ Rescue(c)

Next ==
  \/ \E c \in Callers :
       \/ \E method \in {"Next", "NextWithFallback"} : Begin(c, method)
       \/ CallStep(c)
  \/ \E e \in Endpoints : Flip(e)

Spec == Init /\ [][Next]_vars

-----------------------------------------------------------------------------
Results == Endpoints \cup {NoResult, ErrNoHealthyEndpoints, IndexPanic}
Call ==
  [pc : {"done", "sum", "draw", "pick", "rescan", "rescue"},
   method : {"Next", "NextWithFallback"},
   i : Endpoints \cup {1},
   total : Nat, selected : Int, cumulative : Nat,
   result : Results]

\* Every local and the shared counter stay in range, and a scan never leaves
\* the list.
TypeOK ==
  /\ healthy \in [Endpoints -> BOOLEAN]
  /\ current \in (-IntMax - 1)..IntMax
  /\ call \in [Callers -> Call]
  /\ \A c \in Callers :
       /\ call[c].pc = "draw" => call[c].total > 0
       /\ call[c].pc \in {"draw", "pick", "rescan"} => Endpoints # {}
  /\ seen \in [Callers -> [up : SUBSET Endpoints, down : SUBSET Endpoints]]
  /\ tally \in [Endpoints -> Nat]
  /\ disturbed \in BOOLEAN

\* An endpoint that Next returns was healthy at some instant of that call,
\* however the flags flipped between its scans.
PickWasHealthy ==
  \A c \in Callers :
    (call[c].pc = "done" /\ call[c].method = "Next" /\ call[c].result \in Endpoints)
      => call[c].result \in seen[c].up

\* Next gives up only if every endpoint with a weight was down at some
\* instant of the call.  (Not necessarily at the same instant: the scans
\* take no snapshot, so flips can make Next fail although some endpoint was
\* up at every instant.)
FailureJustified ==
  \A c \in Callers :
    (call[c].pc = "done" /\ call[c].result = ErrNoHealthyEndpoints)
      => \A e \in Endpoints : Weights[e] > 0 => e \in seen[c].down

\* Whoever the callers are and however they overlap: while no flag flips and
\* current is not negative, a full round of selections gives every healthy
\* endpoint exactly its weight.
FairShare ==
  (Quiescent /\ Up # {} /\ Tallied = TotalWeight(Up)) =>
    \A e \in Up : tally[e] = Weights[e]

\* A bound on the atomic accesses that a call has left.
Remaining(r) ==
  CASE r.pc = "done" -> 0
    [] r.pc = "rescue" -> 1
    [] r.pc = "rescan" -> (Len(Weights) - r.i) + 2
    [] r.pc = "pick" -> 2 * Len(Weights) - r.i + 2
    [] r.pc = "draw" -> 2 * Len(Weights) + 2
    [] r.pc = "sum" -> 3 * Len(Weights) - r.i + 3

\* However the flags flip between its scans and whatever other callers do, a
\* call of Next or NextWithFallback ends after at most three scans and two
\* increments: every step brings it closer to its end, and nobody else's step
\* sets it back.
WaitFree ==
  [][\A c \in Callers :
       /\ Remaining(call[c]) \in 0..(3 * Len(Weights) + 2)
       /\ CallStep(c) => Remaining(call'[c]) < Remaining(call[c])
       /\ Active(c) /\ ~CallStep(c) => call'[c] = call[c]]_vars
=============================================================================
