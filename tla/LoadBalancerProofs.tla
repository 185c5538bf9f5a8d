-------------------------- MODULE LoadBalancerProofs --------------------------
(***************************************************************************)
(* What TLAPS proves about the load balancer for every list of weights,    *)
(* width of the counter and set of callers.                                *)
(***************************************************************************)
EXTENDS LoadBalancer, FiniteSetTheorems, TLAPS

\* The history of an active call includes the flags of this instant.
SeenNow ==
  \A c \in Callers : Active(c) => Up \subseteq seen[c].up /\ Endpoints \ Up \subseteq seen[c].down

\* What the scans of a call have found so far.  A first scan that has not
\* found any weight met only endpoints that were down or weigh nothing; a
\* third scan met only endpoints that were down.  Only NextWithFallback has
\* something left to try after that.
ScansJustified ==
  \A c \in Callers :
    /\ call[c].pc = "sum" /\ call[c].i = 1 => call[c].total = 0
    /\ call[c].pc = "sum" /\ call[c].total = 0 =>
         \A e \in Endpoints : e < call[c].i /\ Weights[e] > 0 => e \in seen[c].down
    /\ call[c].pc = "rescan" =>
         \A e \in Endpoints : e < call[c].i => e \in seen[c].down
    /\ call[c].pc = "rescue" => call[c].method = "NextWithFallback"

IInv == TypeOK /\ SeenNow /\ ScansJustified /\ PickWasHealthy /\ FailureJustified

-----------------------------------------------------------------------------
\* A call that has not begun is a call.
LEMMA NoCallTyped == NoCall \in Call
  BY DEF NoCall, Call, Results, NoResult

LEMMA EndpointsTyped ==
  /\ Len(Weights) \in Nat
  /\ Endpoints = 1..Len(Weights)
  /\ \A e \in Endpoints : Weights[e] \in Nat
  BY BalancerConfig DEF BalancerConfig, Endpoints

\* The counter stays within its width.
LEMMA IncrementTyped ==
  ASSUME NEW n \in (-IntMax - 1)..IntMax
  PROVE  Increment(n) \in (-IntMax - 1)..IntMax
  BY BalancerConfig DEF BalancerConfig, Increment

\* A remainder by a positive number is an integer below it.
LEMMA RemainderBound ==
  ASSUME NEW n \in Int, NEW d \in Nat, d > 0
  PROVE  Remainder(n, d) \in Int /\ Remainder(n, d) < d
<1>1. CASE n >= 0
  <2>1. n % d \in 0..(d - 1)
    BY <1>1
  <2> QED
    BY <1>1, <2>1 DEF Remainder
<1>2. CASE n < 0
  <2>1. (-n) % d \in 0..(d - 1)
    BY <1>2
  <2> QED
    BY <1>2, <2>1 DEF Remainder
<1> QED
  BY <1>1, <1>2

\* The measurement of shares keeps its types.
LEMMA MeasureTyped ==
  ASSUME TypeOK, NEW c \in Callers, NEW res, Measure(c, res)
  PROVE  tally' \in [Endpoints -> Nat] /\ disturbed' \in BOOLEAN
<1>1. NoTally \in [Endpoints -> Nat]
  BY DEF NoTally
<1>2. tally' \in [Endpoints -> Nat]
  BY <1>1 DEF TypeOK, Measure
<1>3. disturbed' \in BOOLEAN
  BY DEF TypeOK, Measure
<1> QED
  BY <1>2, <1>3

\* What the end of a call does.
LEMMA ReturnEffect ==
  ASSUME TypeOK, NEW c \in Callers, NEW res \in Results, Return(c, res)
  PROVE  /\ call' \in [Callers -> Call]
         /\ \A d \in Callers \ {c} : call'[d] = call[d]
         /\ call'[c].pc = "done" /\ call'[c].method = call[c].method
         /\ call'[c].result = res
         /\ tally' \in [Endpoints -> Nat] /\ disturbed' \in BOOLEAN
<1>1. tally' \in [Endpoints -> Nat] /\ disturbed' \in BOOLEAN
  BY MeasureTyped DEF Return
<1>2. [NoCall EXCEPT !.method = call[c].method, !.result = res] \in Call
  BY NoCallTyped DEF TypeOK, NoCall, Call, Results
<1>3. call \in [Callers -> Call]
  BY DEF TypeOK
<1> QED
  BY <1>1, <1>2, <1>3 DEF Return, NoCall

\* What a scan that found nobody does.
LEMMA FailEffect ==
  ASSUME TypeOK, NEW c \in Callers, Fail(c)
  PROVE  /\ call' \in [Callers -> Call]
         /\ \A d \in Callers \ {c} : call'[d] = call[d]
         /\ call'[c].method = call[c].method
         /\ \/ call[c].method = "Next" /\ call'[c].pc = "done"
               /\ call'[c].result = ErrNoHealthyEndpoints
            \/ call[c].method = "NextWithFallback" /\ call'[c].pc = "rescue"
         /\ tally' \in [Endpoints -> Nat] /\ disturbed' \in BOOLEAN
<1>1. CASE call[c].method = "Next"
  <2>1. Return(c, ErrNoHealthyEndpoints)
    BY <1>1 DEF Fail
  <2> QED
    BY <1>1, <2>1, ReturnEffect DEF Results
<1>2. CASE call[c].method # "Next"
  <2>1. [NoCall EXCEPT !.method = call[c].method, !.pc = "rescue"] \in Call
    BY NoCallTyped DEF TypeOK, NoCall, Call, Results
  <2>2. call \in [Callers -> Call]
    BY DEF TypeOK
  <2>3. call[c].method = "NextWithFallback"
    BY <1>2 DEF TypeOK, Call
  <2>4. /\ call' = [call EXCEPT ![c] =
                 [NoCall EXCEPT !.method = call[c].method, !.pc = "rescue"]]
        /\ tally' = tally /\ disturbed' = disturbed
    BY <1>2 DEF Fail
  <2>5. tally' \in [Endpoints -> Nat] /\ disturbed' \in BOOLEAN
    BY <2>4 DEF TypeOK
  <2>6. call'[c].method = call[c].method /\ call'[c].pc = "rescue"
    BY <2>2, <2>4 DEF NoCall
  <2>7. call' \in [Callers -> Call] /\ \A d \in Callers \ {c} : call'[d] = call[d]
    BY <2>1, <2>2, <2>4
  <2> QED
    BY <2>3, <2>5, <2>6, <2>7
<1> QED
  BY <1>1, <1>2

-----------------------------------------------------------------------------
\* The invariant, sorted by what a step of one caller can disturb.
Types ==
  /\ healthy \in [Endpoints -> BOOLEAN]
  /\ current \in (-IntMax - 1)..IntMax
  /\ call \in [Callers -> Call]
  /\ seen \in [Callers -> [up : SUBSET Endpoints, down : SUBSET Endpoints]]
  /\ tally \in [Endpoints -> Nat]
  /\ disturbed \in BOOLEAN

CallOK(c) ==
  /\ call[c].pc = "draw" => call[c].total > 0
  /\ call[c].pc \in {"draw", "pick", "rescan"} => Endpoints # {}
  /\ call[c].pc = "sum" /\ call[c].i = 1 => call[c].total = 0
  /\ call[c].pc = "sum" /\ call[c].total = 0 =>
       \A e \in Endpoints : e < call[c].i /\ Weights[e] > 0 => e \in seen[c].down
  /\ call[c].pc = "rescan" =>
       \A e \in Endpoints : e < call[c].i => e \in seen[c].down
  /\ call[c].pc = "rescue" => call[c].method = "NextWithFallback"
  /\ (call[c].pc = "done" /\ call[c].method = "Next" /\ call[c].result \in Endpoints)
       => call[c].result \in seen[c].up
  /\ (call[c].pc = "done" /\ call[c].result = ErrNoHealthyEndpoints)
       => \A e \in Endpoints : Weights[e] > 0 => e \in seen[c].down

LEMMA Sorted == IInv <=> Types /\ SeenNow /\ \A c \in Callers : CallOK(c)
  BY Zenon DEF IInv, TypeOK, ScansJustified, PickWasHealthy, FailureJustified, Types, CallOK

\* A step of an active caller that changes only its own call needs only to
\* leave that call in order.
LEMMA OwnStep ==
  ASSUME IInv, NEW c \in Callers,
         healthy' = healthy, seen' = seen,
         current' \in (-IntMax - 1)..IntMax,
         call' \in [Callers -> Call],
         \A d \in Callers \ {c} : call'[d] = call[d],
         tally' \in [Endpoints -> Nat], disturbed' \in BOOLEAN,
         Active(c), CallOK(c)'
  PROVE  IInv'
<1>1. Types'
  BY Sorted DEF Types
<1>2. \A d \in Callers : CallOK(d)'
  <2> SUFFICES ASSUME NEW d \in Callers, d # c PROVE CallOK(d)'
    OBVIOUS
  <2>1. CallOK(d)
    BY Sorted
  <2>2. call'[d] = call[d] /\ seen'[d] = seen[d]
    OBVIOUS
  <2> QED
    BY <2>1, <2>2 DEF CallOK
<1>3. SeenNow'
  <2> SUFFICES ASSUME NEW d \in Callers, Active(d)'
               PROVE  (Up \subseteq seen[d].up /\ Endpoints \ Up \subseteq seen[d].down)'
    BY DEF SeenNow
  <2>1. Active(d)
    BY DEF Active
  <2>2. Up' = Up
    BY DEF Up
  <2> QED
    BY <2>1, <2>2, Sorted DEF SeenNow
<1> QED
  BY <1>1, <1>2, <1>3, Zenon
  DEF IInv, TypeOK, ScansJustified, PickWasHealthy, FailureJustified, Types, CallOK

\* The facts about one caller's call that every step begins with.
LEMMA Locals ==
  ASSUME IInv, NEW c \in Callers
  PROVE  /\ call \in [Callers -> Call] /\ call[c] \in Call
         /\ tally \in [Endpoints -> Nat] /\ disturbed \in BOOLEAN
         /\ current \in (-IntMax - 1)..IntMax
         /\ CallOK(c)
         /\ Active(c) => \A e \in Endpoints : IF healthy[e] THEN e \in seen[c].up
                                                            ELSE e \in seen[c].down
<1>1. Types /\ SeenNow /\ CallOK(c)
  BY Sorted
<1> QED
  BY <1>1 DEF Types, SeenNow, Up

LEMMA SumWeightsKeeps ==
  ASSUME IInv, NEW c \in Callers, SumWeights(c)
  PROVE  IInv'
<1> DEFINE i == call[c].i
           weight == IF i \in Endpoints /\ healthy[i] THEN Weights[i] ELSE 0
           total == call[c].total + weight
<1>1. /\ call[c].pc = "sum" /\ Active(c)
      /\ healthy' = healthy /\ current' = current /\ seen' = seen
  BY DEF SumWeights, Active
<1>2. i \in Endpoints \cup {1} /\ i \in Nat /\ call[c].total \in Nat
  BY Locals, EndpointsTyped DEF Call
<1>3. weight \in Nat /\ total \in Nat
  BY <1>2, EndpointsTyped
\* The endpoint looked at weighs nothing, or it is down now.
<1>4. /\ i = 1 => call[c].total = 0
      /\ total = 0 => \A e \in Endpoints : e <= i /\ Weights[e] > 0 => e \in seen[c].down
  <2>1. i = 1 => call[c].total = 0
    BY <1>1, Locals DEF CallOK
  <2>2. ASSUME total = 0, NEW e \in Endpoints, e <= i, Weights[e] > 0
        PROVE  e \in seen[c].down
    <3>1. call[c].total = 0 /\ weight = 0
      BY <2>2, <1>2, <1>3
    <3>2. CASE e < i
      BY <1>1, <2>2, <3>1, <3>2, Locals DEF CallOK
    <3>3. CASE e = i
      BY <1>1, <2>2, <3>1, <3>3, Locals
    <3> QED
      BY <1>2, <2>2, <3>2, <3>3, EndpointsTyped
  <2> QED
    BY <2>1, <2>2
<1>5. CASE i < Len(Weights) /\ call' = [call EXCEPT ![c].i = i + 1, ![c].total = total]
           /\ UNCHANGED <<tally, disturbed>>
  <2>1. i + 1 \in Endpoints
    BY <1>2, <1>5, EndpointsTyped
  <2>2. /\ call' \in [Callers -> Call]
        /\ \A d \in Callers \ {c} : call'[d] = call[d]
        /\ call'[c].pc = "sum" /\ call'[c].i = i + 1 /\ call'[c].total = total
    <3> DEFINE own == [call[c] EXCEPT !.i = i + 1, !.total = total]
    <3>1. own \in Call /\ own.pc = call[c].pc /\ own.i = i + 1 /\ own.total = total
      BY <1>3, <2>1, Locals DEF Call
    <3>2. call' = [call EXCEPT ![c] = own]
      BY <1>5
    <3> QED
      BY <1>1, <3>1, <3>2, Locals
  <2>3. CallOK(c)'
    BY <1>1, <1>2, <1>4, <2>2, EndpointsTyped DEF CallOK
  <2> QED
    BY <1>1, <1>5, <2>2, <2>3, OwnStep, Locals
<1>6. CASE i >= Len(Weights) /\ total = 0 /\ Fail(c)
  <2>1. \A e \in Endpoints : Weights[e] > 0 => e \in seen[c].down
    BY <1>2, <1>4, <1>6, EndpointsTyped
  <2>2. /\ call' \in [Callers -> Call]
        /\ \A d \in Callers \ {c} : call'[d] = call[d]
        /\ \/ call'[c].pc = "done" /\ call'[c].result = ErrNoHealthyEndpoints
           \/ call'[c].pc = "rescue" /\ call'[c].method = "NextWithFallback"
        /\ tally' \in [Endpoints -> Nat] /\ disturbed' \in BOOLEAN
    BY <1>6, FailEffect DEF IInv
  <2>3. ErrNoHealthyEndpoints \notin Endpoints
    BY EndpointsTyped DEF ErrNoHealthyEndpoints
  <2>4. CallOK(c)'
    BY <1>1, <2>1, <2>2, <2>3 DEF CallOK
  <2> QED
    BY <1>1, <2>2, <2>4, OwnStep, Locals
<1>7. CASE i >= Len(Weights) /\ total # 0
           /\ call' = [call EXCEPT ![c].pc = "draw", ![c].total = total]
           /\ UNCHANGED <<tally, disturbed>>
  <2>1. /\ call' \in [Callers -> Call]
        /\ \A d \in Callers \ {c} : call'[d] = call[d]
        /\ call'[c].pc = "draw" /\ call'[c].total = total
    <3> DEFINE own == [call[c] EXCEPT !.pc = "draw", !.total = total]
    <3>1. own \in Call /\ own.pc = "draw" /\ own.total = total
      BY <1>3, Locals DEF Call
    <3>2. call' = [call EXCEPT ![c] = own]
      BY <1>7
    <3> QED
      BY <3>1, <3>2, Locals
  \* Without endpoints i is still 1, and nothing was added.
  <2>2. Endpoints # {}
    BY <1>2, <1>4, <1>7
  <2>3. CallOK(c)'
    BY <1>1, <1>3, <1>7, <2>1, <2>2 DEF CallOK
  <2> QED
    BY <1>1, <1>7, <2>1, <2>3, OwnStep, Locals
<1> QED
  BY <1>5, <1>6, <1>7 DEF SumWeights

LEMMA DrawKeeps ==
  ASSUME IInv, NEW c \in Callers, Draw(c)
  PROVE  IInv'
<1> DEFINE idx == Increment(current)
           selected == Remainder(idx, call[c].total)
           own == [call[c] EXCEPT !.pc = "pick", !.i = 1, !.selected = selected]
<1>1. /\ call[c].pc = "draw" /\ Active(c)
      /\ healthy' = healthy /\ seen' = seen
      /\ current' = idx
      /\ call' = [call EXCEPT ![c] = own]
  BY DEF Draw, Active
<1>2. idx \in (-IntMax - 1)..IntMax
  BY Locals, IncrementTyped
<1>3. call[c].total \in Nat /\ call[c].total > 0 /\ Endpoints # {}
  BY <1>1, Locals DEF Call, CallOK
<1>4. selected \in Int
  <2>1. idx \in Int
    BY <1>2, BalancerConfig DEF BalancerConfig
  <2> QED
    BY <1>3, <2>1, RemainderBound
<1>5. own \in Call /\ own.pc = "pick"
  BY <1>4, Locals DEF Call
<1>6. /\ call' \in [Callers -> Call] /\ call'[c].pc = "pick"
      /\ \A d \in Callers \ {c} : call'[d] = call[d]
  BY <1>1, <1>5, Locals
<1>7. tally' \in [Endpoints -> Nat] /\ disturbed' \in BOOLEAN
  <2>1. tally' \in [Endpoints -> Nat]
    BY Locals DEF Draw, NoTally
  <2>2. disturbed' \in BOOLEAN
    BY DEF Draw
  <2> QED
    BY <2>1, <2>2
<1>8. CallOK(c)'
  BY <1>3, <1>6 DEF CallOK
<1> QED
  BY <1>1, <1>2, <1>6, <1>7, <1>8, OwnStep

\* An endpoint that a scan finds healthy is a result that was seen up.
LEMMA HealthyResult ==
  ASSUME IInv, NEW c \in Callers, Active(c), NEW e \in Endpoints, healthy[e],
         Return(c, e), healthy' = healthy, seen' = seen, current' = current
  PROVE  IInv'
<1>1. /\ call' \in [Callers -> Call]
      /\ \A d \in Callers \ {c} : call'[d] = call[d]
      /\ call'[c].pc = "done" /\ call'[c].result = e
      /\ tally' \in [Endpoints -> Nat] /\ disturbed' \in BOOLEAN
  BY ReturnEffect DEF IInv, Results
<1>2. e \in seen[c].up
  BY Locals
<1>3. e # ErrNoHealthyEndpoints
  BY EndpointsTyped DEF ErrNoHealthyEndpoints
<1>4. CallOK(c)'
  BY <1>1, <1>2, <1>3 DEF CallOK
<1> QED
  BY <1>1, <1>4, OwnStep, Locals

\* The second scan goes on with the next endpoint.
LEMMA GoesOn ==
  ASSUME NEW r \in Call, NEW n \in Endpoints, NEW m \in Nat
  PROVE  /\ [r EXCEPT !.i = n, !.cumulative = m] \in Call
         /\ [r EXCEPT !.i = n, !.cumulative = m].pc = r.pc
  BY DEF Call

LEMMA PickByWeightKeeps ==
  ASSUME IInv, NEW c \in Callers, PickByWeight(c)
  PROVE  IInv'
<1> DEFINE i == call[c].i
           cumulative == call[c].cumulative + (IF healthy[i] THEN Weights[i] ELSE 0)
           own == IF i < Len(Weights)
                  THEN [call[c] EXCEPT !.i = i + 1, !.cumulative = cumulative]
                  ELSE [NoCall EXCEPT !.method = call[c].method, !.pc = "rescan"]
<1>1. /\ call[c].pc = "pick" /\ Active(c)
      /\ healthy' = healthy /\ current' = current /\ seen' = seen
  BY DEF PickByWeight, Active
<1>2. Endpoints # {} /\ i \in Endpoints /\ i \in Nat /\ call[c].cumulative \in Nat
  BY <1>1, Locals, EndpointsTyped DEF Call, CallOK
<1>3. CASE healthy[i] /\ Return(c, i)
  BY <1>1, <1>2, <1>3, HealthyResult
<1>4. CASE call' = [call EXCEPT ![c] = own] /\ UNCHANGED <<tally, disturbed>>
  <2>1. CASE i < Len(Weights)
    <3>1. own = [call[c] EXCEPT !.i = i + 1, !.cumulative = cumulative]
      BY <2>1
    <3>2. i + 1 \in Endpoints /\ cumulative \in Nat
      BY <1>2, <2>1, EndpointsTyped
    <3> HIDE DEF own, cumulative
    <3>3. own \in Call /\ own.pc = call[c].pc
      BY <3>1, <3>2, Locals, GoesOn
    <3>4. /\ call' \in [Callers -> Call] /\ call'[c].pc = "pick"
          /\ \A d \in Callers \ {c} : call'[d] = call[d]
      BY <1>1, <1>4, <3>3, Locals
    <3>5. CallOK(c)'
      BY <1>2, <3>4 DEF CallOK
    <3> QED
      BY <1>1, <1>4, <3>4, <3>5, OwnStep, Locals
  <2>2. CASE ~(i < Len(Weights))
    <3>1. own = [NoCall EXCEPT !.method = call[c].method, !.pc = "rescan"]
      BY <2>2
    <3>2. own \in Call /\ own.pc = "rescan" /\ own.i = 1
      BY <3>1, NoCallTyped, Locals DEF Call, NoCall
    <3>3. /\ call' \in [Callers -> Call] /\ call'[c].pc = "rescan" /\ call'[c].i = 1
          /\ \A d \in Callers \ {c} : call'[d] = call[d]
      BY <1>4, <3>2, Locals
    <3>4. CallOK(c)'
      BY <1>2, <3>3, EndpointsTyped DEF CallOK
    <3> QED
      BY <1>1, <1>4, <3>3, <3>4, OwnStep, Locals
  <2> QED
    BY <2>1, <2>2
<1> QED
  BY <1>3, <1>4 DEF PickByWeight

LEMMA PickAnyKeeps ==
  ASSUME IInv, NEW c \in Callers, PickAny(c)
  PROVE  IInv'
<1> DEFINE i == call[c].i
<1>1. /\ call[c].pc = "rescan" /\ Active(c)
      /\ healthy' = healthy /\ current' = current /\ seen' = seen
  BY DEF PickAny, Active
<1>2. Endpoints # {} /\ i \in Endpoints /\ i \in Nat
  BY <1>1, Locals, EndpointsTyped DEF Call, CallOK
<1>3. CASE healthy[i] /\ Return(c, i)
  BY <1>1, <1>2, <1>3, HealthyResult
<1>4. ~healthy[i] => \A e \in Endpoints : e <= i => e \in seen[c].down
  <2> SUFFICES ASSUME ~healthy[i], NEW e \in Endpoints, e <= i PROVE e \in seen[c].down
    OBVIOUS
  <2>1. CASE e < i
    BY <1>1, <2>1, Locals DEF CallOK
  <2>2. CASE e = i
    BY <1>1, <2>2, Locals
  <2> QED
    BY <1>2, <2>1, <2>2, EndpointsTyped
<1>5. CASE /\ ~healthy[i] /\ i < Len(Weights)
           /\ call' = [call EXCEPT ![c].i = i + 1]
           /\ UNCHANGED <<tally, disturbed>>
  <2>1. i + 1 \in Endpoints
    BY <1>2, <1>5, EndpointsTyped
  <2> DEFINE own == [call[c] EXCEPT !.i = i + 1]
  <2>2. own \in Call /\ own.pc = "rescan" /\ own.i = i + 1
    BY <1>1, <2>1, Locals DEF Call
  <2>3. call' = [call EXCEPT ![c] = own]
    BY <1>5
  <2>4. /\ call' \in [Callers -> Call] /\ call'[c].pc = "rescan" /\ call'[c].i = i + 1
        /\ \A d \in Callers \ {c} : call'[d] = call[d]
    BY <2>2, <2>3, Locals
  <2>5. CallOK(c)'
    BY <1>1, <1>2, <1>4, <1>5, <2>4, EndpointsTyped DEF CallOK
  <2> QED
    BY <1>1, <1>5, <2>4, <2>5, OwnStep, Locals
<1>6. CASE ~healthy[i] /\ i = Len(Weights) /\ Fail(c)
  <2>1. \A e \in Endpoints : e \in seen[c].down
    BY <1>2, <1>4, <1>6, EndpointsTyped
  <2>2. /\ call' \in [Callers -> Call]
        /\ \A d \in Callers \ {c} : call'[d] = call[d]
        /\ \/ call'[c].pc = "done" /\ call'[c].result = ErrNoHealthyEndpoints
           \/ call'[c].pc = "rescue" /\ call'[c].method = "NextWithFallback"
        /\ tally' \in [Endpoints -> Nat] /\ disturbed' \in BOOLEAN
    BY <1>6, FailEffect DEF IInv
  <2>3. ErrNoHealthyEndpoints \notin Endpoints
    BY EndpointsTyped DEF ErrNoHealthyEndpoints
  <2>4. CallOK(c)'
    BY <1>1, <2>1, <2>2, <2>3 DEF CallOK
  <2> QED
    BY <1>1, <2>2, <2>4, OwnStep, Locals
<1> QED
  BY <1>3, <1>5, <1>6 DEF PickAny

LEMMA RescueKeeps ==
  ASSUME IInv, NEW c \in Callers, Rescue(c)
  PROVE  IInv'
<1> DEFINE idx == Increment(current)
           turn == Remainder(idx, Len(Weights))
<1>1. call[c].pc = "rescue" /\ Active(c) /\ healthy' = healthy /\ seen' = seen
  BY DEF Rescue, Active
<1>2. idx \in (-IntMax - 1)..IntMax /\ idx \in Int
  BY Locals, IncrementTyped, BalancerConfig DEF BalancerConfig
<1>3. ASSUME NEW res \in Results, Return(c, res), current' \in (-IntMax - 1)..IntMax,
             call[c].method = "Next" => res \notin Endpoints,
             res = ErrNoHealthyEndpoints => Endpoints = {}
      PROVE  IInv'
  <2>1. /\ call' \in [Callers -> Call]
        /\ \A d \in Callers \ {c} : call'[d] = call[d]
        /\ call'[c].pc = "done" /\ call'[c].result = res
        /\ call'[c].method = call[c].method
        /\ tally' \in [Endpoints -> Nat] /\ disturbed' \in BOOLEAN
    BY <1>3, ReturnEffect DEF IInv
  <2>2. CallOK(c)'
    BY <1>3, <2>1 DEF CallOK
  <2> QED
    BY <1>1, <1>3, <2>1, <2>2, OwnStep
<1>4. CASE Endpoints = {}
  <2>1. current' = current /\ Return(c, ErrNoHealthyEndpoints)
    BY <1>4 DEF Rescue
  <2> QED
    BY <1>3, <1>4, <2>1, Locals DEF Results
<1>5. CASE Endpoints # {}
  <2> DEFINE res == IF turn < 0 THEN IndexPanic ELSE turn + 1
  <2>1. current' = idx /\ Return(c, res)
    BY <1>5 DEF Rescue
  <2>2. turn \in Int /\ turn < Len(Weights)
    BY <1>2, <1>5, RemainderBound, EndpointsTyped
  <2>3. res \in Results /\ res # ErrNoHealthyEndpoints
    BY <2>2, EndpointsTyped DEF Results, IndexPanic, ErrNoHealthyEndpoints
  <2>4. call[c].method # "Next"
    BY <1>1, Locals DEF CallOK
  <2> QED
    BY <1>2, <1>3, <2>1, <2>3, <2>4
<1> QED
  BY <1>4, <1>5

\* A call begins with the flags of this instant as its history.
LEMMA BeginKeeps ==
  ASSUME IInv, NEW c \in Callers, NEW method \in {"Next", "NextWithFallback"},
         Begin(c, method)
  PROVE  IInv'
<1> DEFINE own == [NoCall EXCEPT !.pc = "sum", !.method = method]
           now == [up |-> Up, down |-> Endpoints \ Up]
<1>1. /\ call' = [call EXCEPT ![c] = own] /\ seen' = [seen EXCEPT ![c] = now]
      /\ healthy' = healthy /\ current' = current /\ disturbed' = disturbed
      /\ tally' = NoTally \/ tally' = tally
  BY DEF Begin
<1>2. own \in Call /\ own.pc = "sum" /\ own.i = 1 /\ own.total = 0
  BY NoCallTyped DEF Call, NoCall
<1>3. now \in [up : SUBSET Endpoints, down : SUBSET Endpoints]
  BY DEF Up
<1>4. Types /\ SeenNow /\ \A d \in Callers : CallOK(d)
  BY Sorted
<1> HIDE DEF own, now
<1>5. /\ call' \in [Callers -> Call] /\ call'[c] = own
      /\ seen' \in [Callers -> [up : SUBSET Endpoints, down : SUBSET Endpoints]]
      /\ seen'[c] = now
      /\ \A d \in Callers \ {c} : call'[d] = call[d] /\ seen'[d] = seen[d]
  BY <1>1, <1>2, <1>3, <1>4 DEF Types
<1>6. Types'
  <2>1. tally' \in [Endpoints -> Nat]
    BY <1>1, <1>4 DEF Types, NoTally
  <2>2. disturbed' \in BOOLEAN /\ current' \in (-IntMax - 1)..IntMax
        /\ healthy' \in [Endpoints -> BOOLEAN]
    BY <1>1, <1>4 DEF Types
  <2> QED
    BY <1>5, <2>1, <2>2 DEF Types
<1>7. Up' = Up
  BY <1>1 DEF Up
<1>8. SeenNow'
  <2> SUFFICES ASSUME NEW d \in Callers, Active(d)'
               PROVE  (Up \subseteq seen[d].up /\ Endpoints \ Up \subseteq seen[d].down)'
    BY DEF SeenNow
  <2>1. CASE d = c
    BY <1>5, <1>7, <2>1 DEF now
  <2>2. CASE d # c
    BY <1>4, <1>5, <1>7, <2>2 DEF SeenNow, Active
  <2> QED
    BY <2>1, <2>2
<1>9. ASSUME NEW d \in Callers PROVE CallOK(d)'
  <2>1. CASE d = c
    BY <1>2, <1>5, <2>1, EndpointsTyped DEF CallOK
  <2>2. CASE d # c
    BY <1>4, <1>5, <2>2 DEF CallOK
  <2> QED
    BY <2>1, <2>2
<1> QED
  BY <1>6, <1>8, <1>9, Zenon
  DEF IInv, TypeOK, ScansJustified, PickWasHealthy, FailureJustified, Types, CallOK

\* A flip adds to the histories of the active calls and takes nothing away.
LEMMA FlipKeeps ==
  ASSUME IInv, NEW e \in Endpoints, Flip(e)
  PROVE  IInv'
<1>1. Types /\ SeenNow /\ \A d \in Callers : CallOK(d)
  BY Sorted
<1>2. /\ healthy' = [healthy EXCEPT ![e] = ~healthy[e]]
      /\ call' = call /\ current' = current /\ tally' = NoTally /\ disturbed' \in BOOLEAN
  BY DEF Flip
<1>3. ASSUME NEW d \in Callers
      PROVE  /\ seen'[d] \in [up : SUBSET Endpoints, down : SUBSET Endpoints]
             /\ seen[d].up \subseteq seen'[d].up /\ seen[d].down \subseteq seen'[d].down
             /\ Active(d) => IF healthy[e] THEN e \in seen'[d].down ELSE e \in seen'[d].up
  <2>1. seen'[d] = IF ~Active(d) THEN seen[d]
                   ELSE IF healthy[e] THEN [seen[d] EXCEPT !.down = seen[d].down \cup {e}]
                   ELSE [seen[d] EXCEPT !.up = seen[d].up \cup {e}]
    BY DEF Flip
  <2>2. seen[d] \in [up : SUBSET Endpoints, down : SUBSET Endpoints]
    BY <1>1 DEF Types
  <2>3. CASE ~Active(d)
    BY <2>1, <2>2, <2>3
  <2>4. CASE Active(d) /\ healthy[e]
    BY <2>1, <2>2, <2>4
  <2>5. CASE Active(d) /\ ~healthy[e]
    BY <2>1, <2>2, <2>5
  <2> QED
    BY <2>3, <2>4, <2>5
<1>4. Types'
  <2>1. seen' \in [Callers -> [up : SUBSET Endpoints, down : SUBSET Endpoints]]
    <3>1. DOMAIN seen' = Callers /\ seen' = [d \in Callers |-> seen'[d]]
      BY DEF Flip
    <3> QED
      BY <1>3, <3>1
  <2>2. healthy' \in [Endpoints -> BOOLEAN] /\ tally' \in [Endpoints -> Nat]
    BY <1>1, <1>2 DEF Types, NoTally
  <2> QED
    BY <1>1, <1>2, <2>1, <2>2 DEF Types
<1>5. SeenNow'
  <2> SUFFICES ASSUME NEW d \in Callers, Active(d), NEW f \in Endpoints
               PROVE  IF healthy'[f] THEN f \in seen'[d].up ELSE f \in seen'[d].down
    BY <1>2 DEF SeenNow, Up, Active
  <2>1. IF healthy[f] THEN f \in seen[d].up ELSE f \in seen[d].down
    BY Locals
  <2>2. CASE f = e
    BY <1>1, <1>2, <1>3, <2>2 DEF Types
  <2>3. CASE f # e
    BY <1>1, <1>2, <1>3, <2>1, <2>3 DEF Types
  <2> QED
    BY <2>2, <2>3
<1>6. ASSUME NEW d \in Callers PROVE CallOK(d)'
  BY <1>1, <1>2, <1>3 DEF CallOK
<1> QED
  BY <1>4, <1>5, <1>6, Zenon
  DEF IInv, TypeOK, ScansJustified, PickWasHealthy, FailureJustified, Types, CallOK

-----------------------------------------------------------------------------
LEMMA InitIInv == Init => IInv
<1> SUFFICES ASSUME Init PROVE IInv
  OBVIOUS
<1>1. \A c \in Callers : call[c] = NoCall
  BY DEF Init
<1>2. NoCall.pc = "done" /\ NoCall.result = NoResult
  BY DEF NoCall
<1>3. NoResult \notin Endpoints /\ NoResult # ErrNoHealthyEndpoints
  BY EndpointsTyped DEF NoResult, ErrNoHealthyEndpoints
<1>4. Types
  <2>1. current \in (-IntMax - 1)..IntMax
    BY BalancerConfig DEF Init, BalancerConfig
  <2>2. call \in [Callers -> Call]
    BY NoCallTyped DEF Init
  <2>3. seen \in [Callers -> [up : SUBSET Endpoints, down : SUBSET Endpoints]]
    BY DEF Init
  <2> QED
    BY <2>1, <2>2, <2>3 DEF Init, Types, NoTally
<1>5. SeenNow
  BY <1>1, <1>2 DEF SeenNow, Active
<1>6. \A c \in Callers : CallOK(c)
  BY <1>1, <1>2, <1>3 DEF CallOK
<1> QED
  BY <1>4, <1>5, <1>6, Sorted

LEMMA NextIInv == IInv /\ [Next]_vars => IInv'
<1> SUFFICES ASSUME IInv, [Next]_vars PROVE IInv'
  OBVIOUS
<1>1. CASE Next
  BY <1>1, BeginKeeps, SumWeightsKeeps, DrawKeeps, PickByWeightKeeps, PickAnyKeeps,
     RescueKeeps, FlipKeeps DEF Next, CallStep
<1>2. CASE UNCHANGED vars
  BY <1>2 DEF vars, IInv, TypeOK, SeenNow, ScansJustified, PickWasHealthy,
     FailureJustified, Active, Up
<1> QED
  BY <1>1, <1>2

\* So it holds for ever.
LEMMA Invariance == Spec => []IInv
  BY InitIInv, NextIInv, PTL DEF Spec

\* Locals and the counter keep their types: current wraps within its width,
\* no scan leaves the list, and no call divides by a total of zero.
THEOREM TypeCorrect == Spec => []TypeOK
  BY Invariance, PTL DEF IInv

\* However the flags flip between the loads of Next, and however many calls
\* overlap, what Next returns was healthy at some instant of the call.
THEOREM PicksAreHealthy == Spec => []PickWasHealthy
  BY Invariance, PTL DEF IInv

\* Next gives up only on endpoints each of which was down, or weighs
\* nothing, at some instant of the call.
THEOREM FailuresAreJustified == Spec => []FailureJustified
  BY Invariance, PTL DEF IInv

-----------------------------------------------------------------------------
(***************************************************************************)
(* Fair shares.  The weights of the healthy endpoints divide a round into  *)
(* places, one range for each of them; a turn is served by the owner of    *)
(* its remainder by the round.  While nothing flips, all calls see the     *)
(* same division, so whoever draws a turn ends at its owner, and the turns *)
(* drawn since the measurement began are the selections counted plus those *)
(* of the calls between their draw and their return.  When these are done  *)
(* and a round's worth is counted, the counter has gone through successive *)
(* numbers that have every remainder once.                                 *)
(***************************************************************************)

\* The weight of a round, that of the healthy endpoints before the i-th, and
\* the places of a round that belong to an endpoint.
Round == TotalWeight(Up)
Before(i) == TotalWeight({e \in Up : e < i})
Owns(e, turn) == Before(e) <= turn /\ turn < Before(e) + Weights[e]

\* Calls that have drawn a turn, and those of them that will return e.
Picking == {c \in Callers : call[c].pc = "pick"}
Pending(e) == {c \in Picking : Owns(e, call[c].selected)}

\* What an undisturbed call has found agrees with the flags of now.
Agrees(c) ==
  /\ call[c].pc = "sum" => call[c].total = Before(call[c].i)
  /\ call[c].pc \in {"sum", "draw"} => call[c].cumulative = 0
  /\ call[c].pc = "draw" => call[c].total = Round
  /\ call[c].pc = "pick" =>
       /\ call[c].selected \in 0..(Round - 1)
       /\ call[c].cumulative = Before(call[c].i)
       /\ Before(call[c].i) <= call[c].selected
  /\ call[c].pc # "rescan"
  /\ call[c].pc = "rescue" => Round = 0

\* The turns drawn since the counter was at s, and those among them of e.
Drawn(s) == (s + 1)..current
Owned(e, s) == {k \in Drawn(s) : Owns(e, k % Round)}

\* A measurement began when the counter was at s: every turn drawn since has
\* been counted or is about to be, for the endpoint that owns it.
Since(s) ==
  /\ s <= current /\ (s < current => s >= -1)
  /\ Tallied + Cardinality(Picking) = current - s
  /\ \A e \in Up : tally[e] + Cardinality(Pending(e)) = Cardinality(Owned(e, s))

Fair ==
  /\ Quiescent => ~disturbed
  /\ ~disturbed => \A c \in Callers : Agrees(c)
  /\ ~disturbed /\ Round > 0 => \E s \in (-IntMax - 1)..IntMax : Since(s)

\* Turns are counted endpoint by endpoint.
LEMMA TurnsFinite ==
  ASSUME NEW S, IsFiniteSet(S), NEW f, \A e \in S : f[e] \in Nat
  PROVE  IsFiniteSet(Turns(f, S)) /\ Cardinality(Turns(f, S)) \in Nat
<1> DEFINE own == [e \in S |-> {e} \X (1..f[e])]
           all == {{e} \X (1..f[e]) : e \in S}
<1>1. own \in Surjection(S, all)
  BY DEF Surjection
<1>2. IsFiniteSet(all)
  BY <1>1, FS_Surjection
<1>3. ASSUME NEW T \in all PROVE IsFiniteSet(T)
  <2>1. PICK e \in S : T = {e} \X (1..f[e])
    OBVIOUS
  <2>2. f[e] \in Int
    OBVIOUS
  <2>3. IsFiniteSet({e})
    BY FS_Singleton
  <2>4. IsFiniteSet(1..f[e])
    BY <2>2, FS_Interval
  <2> QED
    BY <2>1, <2>3, <2>4, FS_Product
<1> HIDE DEF all
<1>4. IsFiniteSet(UNION all)
  BY <1>2, <1>3, FS_UNION
<1>5. IsFiniteSet(Turns(f, S))
  BY <1>4 DEF all, Turns
<1> QED
  BY <1>5, FS_CardinalityType

LEMMA TurnsAdd ==
  ASSUME NEW S, IsFiniteSet(S), NEW e, e \notin S, NEW f, \A d \in S \cup {e} : f[d] \in Nat
  PROVE  Cardinality(Turns(f, S \cup {e})) = Cardinality(Turns(f, S)) + f[e]
<1> DEFINE own == {e} \X (1..f[e])
<1>1. IsFiniteSet(Turns(f, S)) /\ Cardinality(Turns(f, S)) \in Nat
  BY TurnsFinite
<1>2. IsFiniteSet(own) /\ Cardinality(own) = f[e]
  <2>1. IsFiniteSet({e}) /\ Cardinality({e}) = 1
    BY FS_Singleton
  <2>2. IsFiniteSet(1..f[e]) /\ Cardinality(1..f[e]) = f[e]
    BY FS_Interval
  <2> QED
    BY <2>1, <2>2, FS_Product
<1>3. Turns(f, S \cup {e}) = Turns(f, S) \cup own
  BY DEF Turns
<1>4. Turns(f, S) \cap own = {}
  BY DEF Turns
<1> HIDE DEF own
<1>5. Cardinality(Turns(f, S) \cup own) = Cardinality(Turns(f, S)) + Cardinality(own) - Cardinality({})
  BY <1>1, <1>2, <1>4, FS_Union
<1>6. Cardinality({}) = 0 /\ f[e] \in Nat
  BY FS_EmptySet
<1>7. Cardinality(Turns(f, S)) + Cardinality(own) - Cardinality({}) = Cardinality(Turns(f, S)) + f[e]
  BY <1>1, <1>2, <1>6
<1> QED
  BY <1>3, <1>5, <1>7

LEMMA TurnsSubset ==
  ASSUME NEW S, IsFiniteSet(S), NEW T \in SUBSET S, NEW f, \A e \in S : f[e] \in Nat
  PROVE  Cardinality(Turns(f, T)) <= Cardinality(Turns(f, S))
<1>1. IsFiniteSet(Turns(f, S)) /\ Turns(f, T) \subseteq Turns(f, S)
  BY TurnsFinite DEF Turns
<1> QED
  BY <1>1, FS_Subset

LEMMA EndpointsFinite ==
  /\ IsFiniteSet(Endpoints) /\ \A S \in SUBSET Endpoints : IsFiniteSet(S)
  /\ IsFiniteSet(Callers) /\ \A S \in SUBSET Callers : IsFiniteSet(S)
<1>1. IsFiniteSet(Endpoints)
  BY EndpointsTyped, FS_Interval
<1>2. IsFiniteSet(Callers)
  BY BalancerConfig DEF BalancerConfig
<1> QED
  BY <1>1, <1>2, FS_Subset

\* The places of a round, in the order of the endpoints.
LEMMA Places ==
  /\ Round \in Nat
  /\ \A i \in Nat : Before(i) \in Nat
  /\ Before(1) = 0
  /\ \A i \in Endpoints :
       Before(i + 1) = Before(i) + (IF healthy[i] THEN Weights[i] ELSE 0)
  /\ \A i \in Nat : i > Len(Weights) => Before(i) = Round
  /\ \A i, j \in Nat : i <= j => Before(i) <= Before(j)
<1> DEFINE First(i) == {e \in Up : e < i}
<1>0. /\ Up \subseteq Endpoints /\ \A i : First(i) \subseteq Endpoints /\ First(i) \subseteq Up
      /\ \A e \in Endpoints : Weights[e] \in Nat
  BY EndpointsTyped DEF Up
<1>1. Round \in Nat /\ \A i \in Nat : Before(i) \in Nat
  BY <1>0, TurnsFinite, EndpointsFinite DEF Round, Before, TotalWeight
<1>2. Before(1) = 0
  <2>1. First(1) = {}
    BY <1>0, EndpointsTyped
  <2>2. Turns(Weights, {}) = {}
    BY DEF Turns
  <2> QED
    BY <2>1, <2>2, FS_EmptySet DEF Before, TotalWeight
<1>3. ASSUME NEW i \in Endpoints
      PROVE  Before(i + 1) = Before(i) + (IF healthy[i] THEN Weights[i] ELSE 0)
  <2>1. CASE healthy[i]
    <3>1. First(i + 1) = First(i) \cup {i} /\ i \notin First(i)
      BY <2>1, EndpointsTyped DEF Up
    <3>2. Cardinality(Turns(Weights, First(i) \cup {i})) = Cardinality(Turns(Weights, First(i))) + Weights[i]
      BY <1>0, <3>1, TurnsAdd, EndpointsFinite
    <3> QED
      BY <2>1, <3>1, <3>2 DEF Before, TotalWeight
  <2>2. CASE ~healthy[i]
    <3>1. First(i + 1) = First(i)
      BY <2>2, EndpointsTyped DEF Up
    <3>2. Before(i + 1) = Before(i)
      BY <3>1 DEF Before
    <3> QED
      BY <1>1, <2>2, <3>2, EndpointsTyped
  <2> QED
    BY <2>1, <2>2
<1>4. ASSUME NEW i \in Nat, i > Len(Weights) PROVE Before(i) = Round
  <2>1. First(i) = Up
    BY <1>4, EndpointsTyped DEF Up
  <2> QED
    BY <2>1 DEF Before, Round
<1>5. ASSUME NEW i \in Nat, NEW j \in Nat, i <= j PROVE Before(i) <= Before(j)
  <2>1. First(i) \subseteq First(j) /\ IsFiniteSet(First(j))
    BY <1>0, <1>5, EndpointsTyped, EndpointsFinite
  <2>2. Cardinality(Turns(Weights, First(i))) <= Cardinality(Turns(Weights, First(j)))
    BY <1>0, <2>1, TurnsSubset
  <2> QED
    BY <2>2 DEF Before, TotalWeight
<1> QED
  BY <1>1, <1>2, <1>3, <1>4, <1>5

\* A turn has one owner.
LEMMA OneOwner ==
  ASSUME NEW turn \in Int, NEW e \in Up, NEW f \in Up, Owns(e, turn), Owns(f, turn)
  PROVE  e = f
<1>0. Up \subseteq Endpoints /\ Endpoints \subseteq Nat /\ \A d \in Endpoints : Weights[d] \in Nat
  BY EndpointsTyped DEF Up
<1>1. ASSUME NEW d \in Up, NEW g \in Up, d < g PROVE Before(d) + Weights[d] <= Before(g)
  <2>1. d \in Nat /\ g \in Nat /\ d + 1 \in Nat /\ d + 1 <= g /\ d \in Endpoints /\ healthy[d]
    BY <1>0, <1>1 DEF Up
  <2>2. Before(d + 1) = Before(d) + Weights[d]
    BY <2>1, Places
  <2> QED
    BY <2>1, <2>2, Places
<1>2. Before(e) \in Nat /\ Before(f) \in Nat /\ Weights[e] \in Nat /\ Weights[f] \in Nat
  BY <1>0, Places
<1>3. ~(e < f) /\ ~(f < e)
  BY <1>1, <1>2 DEF Owns
<1> QED
  BY <1>0, <1>3

\* The tally as a number of turns.
LEMMA TalliedTyped ==
  ASSUME tally \in [Endpoints -> Nat]
  PROVE  Tallied \in Nat /\ \A e \in Endpoints : tally[e] <= Tallied
<1>1. IsFiniteSet(Turns(tally, Endpoints)) /\ Tallied \in Nat
  BY TurnsFinite, EndpointsFinite DEF Tallied
<1>2. ASSUME NEW e \in Endpoints PROVE tally[e] <= Tallied
  <2>1. {e} \in SUBSET Endpoints /\ {} \cup {e} = {e} /\ Turns(tally, {}) = {}
    BY DEF Turns
  <2>2. Cardinality(Turns(tally, {e})) = tally[e]
    BY <2>1, TurnsAdd, FS_EmptySet
  <2>3. Cardinality(Turns(tally, {e})) <= Cardinality(Turns(tally, Endpoints))
    BY <2>1, TurnsSubset, EndpointsFinite
  <2> QED
    BY <2>2, <2>3 DEF Tallied
<1> QED
  BY <1>1, <1>2

LEMMA CountOne ==
  ASSUME tally \in [Endpoints -> Nat], NEW e \in Endpoints, tally' = [tally EXCEPT ![e] = @ + 1]
  PROVE  Tallied' = Tallied + 1
<1>1. IsFiniteSet(Turns(tally, Endpoints))
  BY TurnsFinite, EndpointsFinite
<1>2. /\ tally'[e] = tally[e] + 1 /\ \A d \in Endpoints \ {e} : tally'[d] = tally[d]
      /\ \A d \in Endpoints : tally[d] \in Nat
  OBVIOUS
<1>3. 1..tally'[e] = (1..tally[e]) \cup {tally[e] + 1}
  BY <1>2
<1>4. Turns(tally', Endpoints) = Turns(tally, Endpoints) \cup {<<e, tally[e] + 1>>}
  <2>1. Turns(tally', Endpoints) \subseteq Turns(tally, Endpoints) \cup {<<e, tally[e] + 1>>}
    BY <1>2, <1>3 DEF Turns
  <2>2. Turns(tally, Endpoints) \cup {<<e, tally[e] + 1>>} \subseteq Turns(tally', Endpoints)
    BY <1>2, <1>3 DEF Turns
  <2> QED
    BY <2>1, <2>2
<1>5. <<e, tally[e] + 1>> \notin Turns(tally, Endpoints)
  BY <1>2 DEF Turns
<1>6. Cardinality(Turns(tally', Endpoints)) = Cardinality(Turns(tally, Endpoints)) + 1
  BY <1>1, <1>4, <1>5, FS_AddElement
<1> QED
  BY <1>6 DEF Tallied

LEMMA NothingTallied == Cardinality(Turns(NoTally, Endpoints)) = 0
<1>1. \A e \in Endpoints : NoTally[e] = 0
  BY DEF NoTally
<1>2. Turns(NoTally, Endpoints) = {}
  BY <1>1 DEF Turns
<1> QED
  BY <1>2, FS_EmptySet

\* Division with remainder.
LEMMA Quotient ==
  ASSUME NEW k \in Nat, NEW n \in Nat, n > 0
  PROVE  /\ k \div n \in Nat /\ k % n \in 0..(n - 1)
         /\ k = n * (k \div n) + (k % n)
<1> DEFINE m == n * (k \div n)
           r == k % n
<1>1. k \div n \in Nat /\ r \in 0..(n - 1)
  OBVIOUS
<1>2. r = k - m
  BY SMTT(30)
<1>3. m \in Int
  BY <1>1
<1> HIDE DEF m, r
<1>4. k = m + r
  BY <1>1, <1>2, <1>3
<1> QED
  BY <1>1, <1>4 DEF m, r

LEMMA SameQuotient ==
  ASSUME NEW n \in Nat, NEW p \in Int, NEW q \in Int, p < q,
         NEW a \in 0..(n - 1), NEW b \in 0..(n - 1)
  PROVE  n * p + a < n * q + b
<1>1. n * (p + 1) <= n * q
  <2>1. q - p - 1 \in Nat
    OBVIOUS
  <2>2. n * (q - p - 1) >= 0
    BY <2>1
  <2>3. n * (q - p - 1) = n * q - n * (p + 1)
    OBVIOUS
  <2>4. n * q \in Int /\ n * (p + 1) \in Int
    OBVIOUS
  <2> QED
    BY <2>2, <2>3, <2>4
<1>2. n * (p + 1) = n * p + n
  OBVIOUS
<1>3. n * p \in Int /\ n * q \in Int
  OBVIOUS
<1> QED
  BY <1>1, <1>2, <1>3

\* A number has one remainder.
LEMMA OneRemainder ==
  ASSUME NEW n \in Nat, n > 0, NEW q \in Nat, NEW r \in 0..(n - 1)
  PROVE  (n * q + r) % n = r
<1> DEFINE k == n * q + r
<1>0. n * q \in Nat
  OBVIOUS
<1>1. k \in Nat
  BY <1>0
<1>2. k \div n \in Nat /\ k % n \in 0..(n - 1) /\ k = n * (k \div n) + (k % n)
  BY <1>1, Quotient
<1>3. ~(q < k \div n)
  BY <1>2, SameQuotient
<1>4. ~(k \div n < q)
  BY <1>2, SameQuotient
<1>5. k \div n = q
  BY <1>2, <1>3, <1>4
<1>6. k = n * q + (k % n)
  BY <1>2, <1>5
<1> QED
  BY <1>0, <1>2, <1>6

\* Any n successive numbers have every remainder once.
LEMMA FullRound ==
  ASSUME NEW n \in Nat, n > 0, NEW s \in Int, s >= -1, NEW a \in 0..n, NEW b \in 0..n, a <= b
  PROVE  Cardinality({k \in (s + 1)..(s + n) : a <= k % n /\ k % n < b}) = b - a
<1> DEFINE S == {k \in (s + 1)..(s + n) : a <= k % n /\ k % n < b}
           f == [k \in S |-> k % n]
<1>1. ASSUME NEW k \in S PROVE k \in Nat /\ k % n \in a..(b - 1)
  <2>1. k \in Nat
    OBVIOUS
  <2> QED
    BY <2>1, Quotient
<1>2. ASSUME NEW k \in S, NEW m \in S, k % n = m % n PROVE k = m
  <2>1. k \in Nat /\ m \in Nat /\ k - m < n /\ m - k < n
    BY <1>1
  <2>2. /\ k = n * (k \div n) + (k % n) /\ m = n * (m \div n) + (m % n)
        /\ k \div n \in Nat /\ m \div n \in Nat /\ k % n \in 0..(n - 1)
    BY <2>1, Quotient
  <2>3. ASSUME NEW p \in Nat, NEW q \in Nat, p < q PROVE n * q - n * p >= n
    <3>1. n * (p + 1) + 0 <= n * q + 0
      <4>1. CASE p + 1 = q
        BY <4>1
      <4>2. CASE p + 1 < q
        BY <4>2, SameQuotient
      <4> QED
        BY <2>3, <4>1, <4>2
    <3>2. n * (p + 1) = n * p + n /\ n * p \in Int /\ n * q \in Int
      OBVIOUS
    <3> QED
      BY <3>1, <3>2
  <2>4. ~(k \div n < m \div n) /\ ~(m \div n < k \div n)
    BY <1>2, <2>1, <2>2, <2>3
  <2>5. k \div n = m \div n
    BY <2>2, <2>4
  <2> QED
    BY <1>2, <2>2, <2>5
<1>3. ASSUME NEW r \in a..(b - 1) PROVE \E k \in S : k % n = r
  <2> DEFINE q == (s + 1) \div n
             p == (s + 1) % n
  <2>1. s + 1 \in Nat /\ r \in 0..(n - 1)
    OBVIOUS
  <2>2. q \in Nat /\ p \in 0..(n - 1) /\ s + 1 = n * q + p
    BY <2>1, Quotient
  <2> HIDE DEF q, p
  <2>3. n * q \in Nat /\ n * (q + 1) = n * q + n /\ q + 1 \in Nat
    BY <2>2
  <2>4. CASE r >= p
    <3>1. (n * q + r) % n = r
      BY <2>1, <2>2, OneRemainder
    <3>2. n * q + r \in (s + 1)..(s + n)
      BY <2>1, <2>2, <2>3, <2>4
    <3> QED
      BY <3>1, <3>2
  <2>5. CASE r < p
    <3>1. (n * (q + 1) + r) % n = r
      BY <2>1, <2>3, OneRemainder
    <3>2. n * (q + 1) + r \in (s + 1)..(s + n)
      BY <2>1, <2>2, <2>3, <2>5
    <3> QED
      BY <3>1, <3>2
  <2> QED
    BY <2>1, <2>2, <2>4, <2>5
<1>4. f \in Bijection(S, a..(b - 1))
  <2>1. f \in [S -> a..(b - 1)]
    BY <1>1
  <2>2. \A k \in S : f[k] = k % n
    OBVIOUS
  <2> HIDE DEF f, S
  <2>3. f \in Injection(S, a..(b - 1))
    BY <1>2, <2>1, <2>2 DEF Injection, IsInjective
  <2>4. f \in Surjection(S, a..(b - 1))
    BY <1>3, <2>1, <2>2 DEF Surjection
  <2> QED
    BY <2>3, <2>4 DEF Bijection
<1>5. IsFiniteSet(S)
  <2>1. IsFiniteSet((s + 1)..(s + n))
    BY FS_Interval
  <2> QED
    BY <2>1, FS_Subset
<1> HIDE DEF f, S
<1>6. Cardinality(a..(b - 1)) = Cardinality(S)
  BY <1>4, <1>5, FS_Bijection DEF ExistsBijection
<1>7. Cardinality(a..(b - 1)) = b - a
  <2>1. Cardinality(a..(b - 1)) = IF a > b - 1 THEN 0 ELSE (b - 1) - a + 1
    BY FS_Interval
  <2> QED
    BY <2>1
<1> QED
  BY <1>6, <1>7 DEF S

-----------------------------------------------------------------------------
\* While no flag flips, rounds are divided the same way.
LEMMA SameUp ==
  ASSUME healthy' = healthy
  PROVE  /\ Up' = Up /\ Round' = Round
         /\ \A i : Before(i)' = Before(i)
         /\ \A e, turn : Owns(e, turn)' <=> Owns(e, turn)
<1>1. Up' = Up
  BY DEF Up
<1>2. \A i : Before(i)' = Before(i)
  BY <1>1 DEF Before, TotalWeight
<1>3. Round' = Round
  BY <1>1 DEF Round, TotalWeight
<1>4. \A e, turn : Owns(e, turn)' <=> Owns(e, turn)
  BY <1>2 DEF Owns
<1> QED
  BY <1>1, <1>2, <1>3, <1>4

LEMMA AgreesFrame ==
  ASSUME healthy' = healthy, NEW c \in Callers, call'[c] = call[c], Agrees(c)
  PROVE  Agrees(c)'
<1>1. Before(call[c].i)' = Before(call[c].i)
  BY SameUp 
<1> QED
  BY <1>1, SameUp DEF Agrees

\* A measurement begins while nobody has a turn.
LEMMA Fresh ==
  ASSUME IInv', tally' = NoTally, Picking' = {}
  PROVE  \E s \in (-IntMax - 1)..IntMax : Since(s)'
<1>1. current' \in (-IntMax - 1)..IntMax /\ current' \in Int
  BY BalancerConfig DEF IInv, TypeOK, BalancerConfig
<1> SUFFICES ASSUME NEW s \in (-IntMax - 1)..IntMax, s = current' PROVE Since(s)'
  BY <1>1
<1>2. Tallied' = 0
  BY NothingTallied DEF Tallied
<1>3. Cardinality(Picking') = 0
  BY FS_EmptySet
<1>4. ASSUME NEW e \in Up'
      PROVE  tally'[e] + Cardinality(Pending(e)') = Cardinality(Owned(e, s)')
  <2>1. tally'[e] = 0
    BY DEF NoTally, Up
  <2>2. Pending(e)' = {}
    BY DEF Pending
  <2>3. Owned(e, s)' = {}
    BY <1>1 DEF Owned, Drawn
  <2> QED
    BY <2>1, <2>2, <2>3, FS_EmptySet
<1> QED
  BY <1>1, <1>2, <1>3, <1>4 DEF Since

\* A step that draws no turn and counts none keeps the measurement.
LEMMA SamePicks ==
  ASSUME healthy' = healthy, current' = current, tally' = tally, Picking' = Picking,
         \A d \in Picking : call'[d].selected = call[d].selected,
         NEW s, Since(s)
  PROVE  Since(s)'
<1>1. Up' = Up /\ Round' = Round /\ Tallied' = Tallied
  BY SameUp DEF Tallied
<1>2. ASSUME NEW e PROVE Pending(e)' = Pending(e)
  BY SameUp DEF Pending
<1>3. ASSUME NEW e PROVE Owned(e, s)' = Owned(e, s)
  BY <1>1, SameUp DEF Owned, Drawn
<1> QED
  BY <1>1, <1>2, <1>3 DEF Since

\* What an undisturbed step of one caller has to keep.
LEMMA Steady ==
  ASSUME Fair, ~disturbed, ~disturbed', healthy' = healthy, NEW c \in Callers,
         \A d \in Callers \ {c} : call'[d] = call[d],
         Agrees(c)',
         \A s \in (-IntMax - 1)..IntMax : Round > 0 /\ Since(s) => Since(s)'
  PROVE  Fair'
<1>1. \A d \in Callers : Agrees(d)'
  BY AgreesFrame DEF Fair
<1>2. Round > 0 => \E s \in (-IntMax - 1)..IntMax : Since(s)'
  BY DEF Fair
<1> QED
  BY <1>1, <1>2, SameUp DEF Fair

\* A measurement that was disturbed ends with its last call.
LEMMA DisturbedReturn ==
  ASSUME IInv', disturbed, NEW c \in Callers, NEW res, Return(c, res),
         call'[c].pc = "done", \A d \in Callers \ {c} : call'[d] = call[d]
  PROVE  Fair'
<1> DEFINE last == \A d \in Callers \ {c} : ~Active(d)
<1>1. disturbed' = (disturbed /\ ~last) /\ tally' = NoTally
  BY DEF Return, Measure
<1>2. CASE last
  <2>1. \A d \in Callers : call'[d].pc = "done"
    BY <1>2 DEF Active
  <2>2. Picking' = {}
    BY <2>1 DEF Picking
  <2>3. \A d \in Callers : Agrees(d)'
    BY <2>1 DEF Agrees
  <2>4. ~disturbed'
    BY <1>1, <1>2
  <2> QED
    BY <1>1, <2>2, <2>3, <2>4, Fresh DEF Fair
<1>3. CASE ~last
  <2>1. disturbed'
    BY <1>1, <1>3
  <2>2. ~Quiescent'
    BY <1>3 DEF Quiescent, Active
  <2> QED
    BY <2>1, <2>2 DEF Fair
<1> QED
  BY <1>2, <1>3

\* A disturbed measurement goes on while somebody is active.
LEMMA StillDisturbed ==
  ASSUME disturbed', NEW c \in Callers, call'[c].pc # "done"
  PROVE  Fair'
  BY DEF Fair, Quiescent, Active

\* An undisturbed call finds nobody only in a round without turns.
LEMMA FailFair ==
  ASSUME IInv, IInv', Fair, NEW c \in Callers, Fail(c), healthy' = healthy,
         current' = current, call[c].pc # "pick", ~disturbed => Round = 0
  PROVE  Fair'
<1>1. /\ \A d \in Callers \ {c} : call'[d] = call[d]
      /\ call'[c].pc = "done" \/ call'[c].pc = "rescue"
      /\ call[c].method = "Next" => call'[c].pc = "done"
      /\ call[c].method # "Next" => call'[c].pc = "rescue"
  BY FailEffect DEF IInv
<1>2. CASE disturbed
  <2>1. CASE call[c].method = "Next"
    BY <1>1, <1>2, <2>1, DisturbedReturn DEF Fail
  <2>2. CASE call[c].method # "Next"
    BY <1>1, <1>2, <2>2, StillDisturbed DEF Fail
  <2> QED
    BY <2>1, <2>2
<1>3. CASE ~disturbed
  <2>1. Round = 0 /\ Round' = Round
    BY <1>3, SameUp
  <2>2. ~disturbed'
    BY <1>3 DEF Fail, Return, Measure
  <2>3. Agrees(c)'
    BY <1>1, <2>1 DEF Agrees
  <2> QED
    BY <1>1, <1>3, <2>1, <2>2, <2>3, Steady
<1> QED
  BY <1>2, <1>3

\* The first scan adds up the weights before it, and ends with the round's.
LEMMA SumWeightsFair ==
  ASSUME IInv, IInv', Fair, NEW c \in Callers, SumWeights(c)
  PROVE  Fair'
<1> DEFINE i == call[c].i
           total == call[c].total + (IF i \in Endpoints /\ healthy[i] THEN Weights[i] ELSE 0)
<1>1. call[c].pc = "sum" /\ healthy' = healthy /\ current' = current
  BY DEF SumWeights
<1>2. /\ call \in [Callers -> Call] /\ call[c] \in Call
      /\ i \in Endpoints \cup {1} /\ i \in Nat
  BY Locals, EndpointsTyped DEF Call
<1>3. ~disturbed => /\ call[c].total = Before(i) /\ call[c].cumulative = 0
                    /\ i \in Endpoints => total = Before(i + 1)
                    /\ i >= Len(Weights) => total = Round
  <2> SUFFICES ASSUME ~disturbed
               PROVE  /\ call[c].total = Before(i) /\ call[c].cumulative = 0
                      /\ i \in Endpoints => total = Before(i + 1)
                      /\ i >= Len(Weights) => total = Round
    OBVIOUS
  <2>1. call[c].total = Before(i) /\ call[c].cumulative = 0
    BY <1>1 DEF Fair, Agrees
  <2>2. i \in Endpoints => total = Before(i + 1)
    BY <2>1, Places
  <2>3. ASSUME i >= Len(Weights) PROVE total = Round
    <3>1. CASE i \in Endpoints
      BY <1>2, <2>2, <2>3, <3>1, Places, EndpointsTyped
    <3>2. CASE i \notin Endpoints
      <4>1. i = 1 /\ i > Len(Weights)
        BY <1>2, <2>3, <3>2, EndpointsTyped
      <4>2. Before(i) = Round /\ Round \in Nat
        BY <1>2, <4>1, Places
      <4> QED
        BY <2>1, <3>2, <4>2
    <3> QED
      BY <3>1, <3>2
  <2> QED
    BY <2>1, <2>2, <2>3
<1> DEFINE on == [call[c] EXCEPT !.i = i + 1, !.total = total]
           ready == [call[c] EXCEPT !.pc = "draw", !.total = total]
<1>4. ASSUME NEW own, call' = [call EXCEPT ![c] = own], own.pc \in {"sum", "draw"},
             tally' = tally, disturbed' = disturbed,
             ~disturbed => Agrees(c)'
      PROVE  Fair'
  <2>1. call'[c] = own /\ \A d \in Callers \ {c} : call'[d] = call[d]
    BY <1>2, <1>4
  <2>2. CASE disturbed
    BY <1>4, <2>1, <2>2, StillDisturbed
  <2>3. CASE ~disturbed
    <3>1. Picking' = Picking
      BY <1>1, <1>4, <2>1 DEF Picking
    <3>2. \A d \in Picking : call'[d].selected = call[d].selected
      BY <1>1, <2>1 DEF Picking
    <3>3. \A s : Since(s) => Since(s)'
      BY <1>1, <1>4, <3>1, <3>2, SamePicks
    <3> QED
      BY <1>1, <1>4, <2>1, <2>3, <3>3, Steady
  <2> QED
    BY <2>2, <2>3
<1>5. ASSUME i < Len(Weights), call' = [call EXCEPT ![c] = on],
             tally' = tally, disturbed' = disturbed
      PROVE  Fair'
  <2>1. on.pc = "sum" /\ on.i = i + 1 /\ on.total = total /\ on.cumulative = call[c].cumulative
    BY <1>1, <1>2 DEF Call
  <2>2. call'[c] = on /\ i \in Endpoints
    BY <1>2, <1>5, EndpointsTyped
  <2> HIDE DEF on
  <2>3. ~disturbed => Agrees(c)'
    BY <1>1, <1>3, <2>1, <2>2, SameUp DEF Agrees
  <2> QED
    BY <1>4, <1>5, <2>1, <2>3
<1>6. ASSUME i >= Len(Weights), total # 0, call' = [call EXCEPT ![c] = ready],
             tally' = tally, disturbed' = disturbed
      PROVE  Fair'
  <2>1. ready.pc = "draw" /\ ready.total = total /\ ready.cumulative = call[c].cumulative
    BY <1>1, <1>2 DEF Call
  <2>2. call'[c] = ready
    BY <1>2, <1>6
  <2> HIDE DEF ready
  <2>3. ~disturbed => Agrees(c)'
    BY <1>1, <1>3, <1>6, <2>1, <2>2, SameUp DEF Agrees
  <2> QED
    BY <1>4, <1>6, <2>1, <2>3
<1>7. ASSUME i >= Len(Weights), total = 0, Fail(c) PROVE Fair'
  BY <1>1, <1>3, <1>7, FailFair
<1> QED
  BY <1>5, <1>6, <1>7 DEF SumWeights

\* A caller draws the next turn: its owner has one more to come.
LEMMA DrawFair ==
  ASSUME IInv, IInv', Fair, NEW c \in Callers, Draw(c)
  PROVE  Fair'
<1> DEFINE idx == Increment(current)
           own == [call[c] EXCEPT !.pc = "pick", !.i = 1,
                                  !.selected = Remainder(idx, call[c].total)]
<1>1. /\ call[c].pc = "draw" /\ healthy' = healthy /\ current' = idx
      /\ call' = [call EXCEPT ![c] = own]
      /\ disturbed' = (disturbed \/ idx < 0)
      /\ tally' = IF idx < 0 THEN NoTally ELSE tally
  BY DEF Draw
<1>2. /\ call \in [Callers -> Call] /\ call[c] \in Call /\ call[c].total > 0
      /\ tally \in [Endpoints -> Nat] /\ current \in (-IntMax - 1)..IntMax
  BY <1>1, Locals DEF CallOK
<1>3. /\ call'[c] = own /\ own.pc = "pick" /\ own.i = 1
      /\ own.selected = Remainder(idx, call[c].total) /\ own.cumulative = call[c].cumulative
      /\ \A d \in Callers \ {c} : call'[d] = call[d]
  BY <1>1, <1>2 DEF Call
<1> HIDE DEF own
<1>4. CASE disturbed \/ idx < 0
  BY <1>1, <1>3, <1>4, StillDisturbed
<1>5. CASE ~disturbed /\ ~(idx < 0)
  <2>1. /\ ~disturbed' /\ tally' = tally
        /\ call[c].total = Round /\ call[c].cumulative = 0
    BY <1>1, <1>5 DEF Fair, Agrees
  <2>2. Round \in Nat /\ Round > 0 /\ Before(1) = 0
    BY <1>2, <2>1, Places
  <2>3. idx = current + 1 /\ idx \in Nat /\ current \in Int /\ current >= -1
    BY <1>2, <1>5, BalancerConfig DEF BalancerConfig, Increment
  <2> DEFINE turn == idx % Round
  <2>4. turn \in 0..(Round - 1) /\ own.selected = turn
    <3>1. turn \in 0..(Round - 1)
      BY <2>2, <2>3
    <3>2. Remainder(idx, Round) = turn
      BY <2>3 DEF Remainder
    <3> QED
      BY <1>3, <2>1, <3>1, <3>2
  <2> HIDE DEF turn, idx
  <2>5. Agrees(c)'
    BY <1>3, <2>1, <2>2, <2>4, SameUp, <1>1 DEF Agrees
  <2>6. ASSUME NEW s \in (-IntMax - 1)..IntMax, Since(s) PROVE Since(s)'
    <3>0. s \in Int
      BY BalancerConfig DEF BalancerConfig
    <3>1. s <= current' /\ (s < current' => s >= -1)
      BY <1>1, <2>3, <2>6, <3>0 DEF Since
    <3>2. Picking' = Picking \cup {c} /\ c \notin Picking /\ IsFiniteSet(Picking)
      BY <1>1, <1>3, EndpointsFinite DEF Picking
    <3>3. Cardinality(Picking') = Cardinality(Picking) + 1 /\ Cardinality(Picking) \in Nat
      BY <3>2, FS_AddElement, FS_CardinalityType
    <3>4. Tallied' + Cardinality(Picking') = current' - s
      <4>1. Tallied' = Tallied /\ Tallied \in Nat
        BY <1>2, <2>1, TalliedTyped DEF Tallied
      <4> QED
        BY <1>1, <2>3, <2>6, <3>0, <3>3, <4>1 DEF Since
    <3>5. ASSUME NEW e \in Up
          PROVE  tally'[e] + Cardinality(Pending(e)') = Cardinality(Owned(e, s)')
      <4>1. Drawn(s)' = Drawn(s) \cup {idx} /\ idx \notin Drawn(s) /\ IsFiniteSet(Drawn(s))
        <5>1. s <= current
          BY <2>6 DEF Since
        <5>2. IsFiniteSet((s + 1)..current)
          BY <2>3, <3>0, FS_Interval
        <5> QED
          BY <1>1, <2>3, <3>0, <5>1, <5>2 DEF Drawn
      <4>2. IsFiniteSet(Pending(e)) /\ IsFiniteSet(Owned(e, s)) /\ c \notin Pending(e)
        <5>1. Pending(e) \subseteq Callers /\ Owned(e, s) \subseteq Drawn(s) /\ c \notin Pending(e)
          BY <3>2 DEF Pending, Picking, Owned
        <5> QED
          BY <4>1, <5>1, EndpointsFinite, FS_Subset
      <4>3. \A d \in Picking : call'[d].selected = call[d].selected
        BY <1>3, <3>2 DEF Picking
      <4>4. tally[e] + Cardinality(Pending(e)) = Cardinality(Owned(e, s))
        BY <2>6 DEF Since
      <4>5. tally[e] \in Nat /\ Cardinality(Pending(e)) \in Nat /\ Cardinality(Owned(e, s)) \in Nat
        BY <1>2, <4>2, FS_CardinalityType DEF Up
      <4>6. \A k : Owns(e, k)' <=> Owns(e, k)
        BY <1>1, SameUp
      <4>7. Round' = Round
        BY <1>1, SameUp
      <4>8. CASE Owns(e, turn)
        <5>1. Pending(e)' = Pending(e) \cup {c}
          BY <1>3, <2>4, <3>2, <4>3, <4>6, <4>8 DEF Pending
        <5>2. Owned(e, s)' = Owned(e, s) \cup {idx} /\ idx \notin Owned(e, s)
          BY <4>1, <4>6, <4>7, <4>8 DEF Owned, turn
        <5>3. /\ Cardinality(Pending(e)') = Cardinality(Pending(e)) + 1
              /\ Cardinality(Owned(e, s)') = Cardinality(Owned(e, s)) + 1
          BY <4>2, <5>1, <5>2, FS_AddElement
        <5> QED
          BY <2>1, <4>4, <4>5, <5>3
      <4>9. CASE ~Owns(e, turn)
        <5>1. Pending(e)' = Pending(e)
          BY <1>3, <2>4, <3>2, <4>3, <4>6, <4>9 DEF Pending
        <5>2. Owned(e, s)' = Owned(e, s)
          BY <4>1, <4>6, <4>7, <4>9 DEF Owned, turn
        <5> QED
          BY <2>1, <4>4, <5>1, <5>2
      <4> QED
        BY <4>8, <4>9
    <3>6. Up' = Up
      BY <1>1, SameUp
    <3> QED
      BY <3>1, <3>4, <3>5, <3>6 DEF Since
  <2> QED
    BY <1>1, <1>3, <1>5, <2>1, <2>5, <2>6, Steady
<1> QED
  BY <1>4, <1>5

\* A caller returns the owner of its turn, whose tally grows by one.
LEMMA PickFair ==
  ASSUME IInv, IInv', Fair, ~disturbed, NEW c \in Callers, call[c].pc = "pick",
         healthy' = healthy, current' = current,
         NEW i \in Up, Owns(i, call[c].selected), Return(c, i)
  PROVE  Fair'
<1>1. /\ call'[c].pc = "done" /\ \A d \in Callers \ {c} : call'[d] = call[d]
      /\ tally \in [Endpoints -> Nat] /\ call[c].selected \in Int
  BY ReturnEffect, Locals DEF IInv, Results, Up, Call
<1>2. ~disturbed' /\ tally' = [tally EXCEPT ![i] = @ + 1] /\ i \in Endpoints
  BY DEF Return, Measure, Up
<1>3. Agrees(c)'
  BY <1>1 DEF Agrees
<1>4. ASSUME NEW s \in (-IntMax - 1)..IntMax, Since(s) PROVE Since(s)'
  <2>1. Picking' = Picking \ {c} /\ c \in Picking /\ IsFiniteSet(Picking)
    BY <1>1, EndpointsFinite DEF Picking
  <2>2. Cardinality(Picking') = Cardinality(Picking) - 1 /\ Cardinality(Picking) \in Nat
    BY <2>1, FS_RemoveElement, FS_CardinalityType
  <2>3. Tallied' + Cardinality(Picking') = current' - s
    <3>1. Tallied' = Tallied + 1 /\ Tallied \in Nat
      BY <1>1, <1>2, CountOne, TalliedTyped
    <3>2. Tallied + Cardinality(Picking) = current - s
      BY <1>4 DEF Since
    <3> QED
      BY <2>2, <3>1, <3>2
  <2>4. ASSUME NEW e \in Up
        PROVE  tally'[e] + Cardinality(Pending(e)') = Cardinality(Owned(e, s)')
    <3>1. \A d \in Picking' : call'[d].selected = call[d].selected
      BY <1>1, <2>1 DEF Picking
    <3>2. Pending(e)' = Pending(e) \ {c} /\ Pending(e) \subseteq Callers
      BY <2>1, <3>1, SameUp DEF Pending, Picking
    <3>3. Owned(e, s)' = Owned(e, s)
      BY SameUp DEF Owned, Drawn
    <3>4. tally[e] + Cardinality(Pending(e)) = Cardinality(Owned(e, s))
      BY <1>4 DEF Since
    <3>5. /\ IsFiniteSet(Pending(e)) /\ Cardinality(Pending(e)) \in Nat
          /\ tally[e] \in Nat /\ e \in Endpoints
      BY <1>1, <3>2, EndpointsFinite, FS_CardinalityType DEF Up
    <3>6. CASE e = i
      <4>1. c \in Pending(e)
        BY <2>1, <3>6 DEF Pending
      <4>2. Cardinality(Pending(e)') = Cardinality(Pending(e)) - 1
        BY <3>2, <3>5, <4>1, FS_RemoveElement
      <4>3. tally'[e] = tally[e] + 1
        BY <1>1, <1>2, <3>5, <3>6
      <4> QED
        BY <3>3, <3>4, <3>5, <4>2, <4>3
    <3>7. CASE e # i
      <4>1. c \notin Pending(e)
        BY <1>1, <3>7, OneOwner DEF Pending
      <4>2. Pending(e)' = Pending(e)
        BY <3>2, <4>1
      <4>3. tally'[e] = tally[e]
        BY <1>1, <1>2, <3>5, <3>7
      <4> QED
        BY <3>3, <3>4, <4>2, <4>3
    <3> QED
      BY <3>6, <3>7
  <2>5. Up' = Up /\ s <= current' /\ (s < current' => s >= -1)
    BY <1>4, SameUp DEF Since
  <2> QED
    BY <2>3, <2>4, <2>5 DEF Since
<1> QED
  BY <1>1, <1>2, <1>3, <1>4, Steady

\* The second scan stops at the owner of the turn, and never runs past the
\* end of the list.
LEMMA PickByWeightFair ==
  ASSUME IInv, IInv', Fair, NEW c \in Callers, PickByWeight(c)
  PROVE  Fair'
<1> DEFINE i == call[c].i
           cumulative == call[c].cumulative + (IF healthy[i] THEN Weights[i] ELSE 0)
           selected == call[c].selected
           on == [call[c] EXCEPT !.i = i + 1, !.cumulative = cumulative]
           again == [NoCall EXCEPT !.method = call[c].method, !.pc = "rescan"]
<1>1. call[c].pc = "pick" /\ healthy' = healthy /\ current' = current
  BY DEF PickByWeight
<1>2. /\ call \in [Callers -> Call] /\ call[c] \in Call
      /\ i \in Endpoints /\ i \in Nat /\ i <= Len(Weights) /\ selected \in Int
  <2>1. call \in [Callers -> Call] /\ call[c] \in Call /\ Endpoints # {}
    BY <1>1, Locals DEF CallOK
  <2>2. i \in Endpoints \cup {1} /\ selected \in Int
    BY <2>1 DEF Call
  <2>3. i \in Endpoints
    BY <2>1, <2>2, EndpointsTyped
  <2> QED
    BY <2>1, <2>2, <2>3, EndpointsTyped
<1>3. ~disturbed => /\ call[c].cumulative = Before(i) /\ cumulative = Before(i + 1)
                    /\ Before(i) <= selected /\ selected \in 0..(Round - 1)
                    /\ Before(i) \in Nat /\ Before(i + 1) \in Nat
  <2> SUFFICES ASSUME ~disturbed
               PROVE  /\ call[c].cumulative = Before(i) /\ cumulative = Before(i + 1)
                      /\ Before(i) <= selected /\ selected \in 0..(Round - 1)
                      /\ Before(i) \in Nat /\ Before(i + 1) \in Nat
    OBVIOUS
  <2>1. /\ call[c].cumulative = Before(i) /\ Before(i) <= selected
        /\ selected \in 0..(Round - 1)
    BY <1>1 DEF Fair, Agrees
  <2>2. Before(i) \in Nat /\ Before(i + 1) \in Nat
        /\ Before(i + 1) = Before(i) + (IF healthy[i] THEN Weights[i] ELSE 0)
    BY <1>2, Places
  <2> QED
    BY <2>1, <2>2
<1>4. ASSUME healthy[i], InRange(selected, cumulative), Return(c, i) PROVE Fair'
  <2>1. CASE disturbed
    <3>1. call'[c].pc = "done" /\ \A d \in Callers \ {c} : call'[d] = call[d]
      BY <1>2, <1>4, ReturnEffect DEF IInv, Results
    <3> QED
      BY <1>4, <2>1, <3>1, DisturbedReturn
  <2>2. CASE ~disturbed
    <3>1. i \in Up
      BY <1>2, <1>4 DEF Up
    <3>2. Owns(i, selected)
      BY <1>3, <1>4, <2>2 DEF Owns, InRange
    <3> QED
      BY <1>1, <1>4, <2>2, <3>1, <3>2, PickFair
  <2> QED
    BY <2>1, <2>2
<1>5. ASSUME ~(healthy[i] /\ InRange(selected, cumulative)),
             call' = [call EXCEPT ![c] = IF i < Len(Weights) THEN on ELSE again],
             tally' = tally, disturbed' = disturbed
      PROVE  Fair'
  <2>1. /\ on.pc = "pick" /\ on.i = i + 1 /\ on.cumulative = cumulative
        /\ on.selected = selected
        /\ again.pc = "rescan"
    BY <1>1, <1>2 DEF Call, NoCall
  <2>2. /\ call'[c] = IF i < Len(Weights) THEN on ELSE again
        /\ \A d \in Callers \ {c} : call'[d] = call[d]
    BY <1>2, <1>5
  <2>3. CASE disturbed
    <3>1. call'[c].pc # "done"
      BY <2>1, <2>2
    <3> QED
      BY <1>5, <2>3, <3>1, StillDisturbed
  <2>4. CASE ~disturbed
    <3>1. Before(i + 1) <= selected
      <4>1. CASE healthy[i]
        BY <1>2, <1>3, <1>5, <2>4, <4>1 DEF InRange
      <4>2. CASE ~healthy[i]
        BY <1>2, <1>3, <2>4, <4>2
      <4> QED
        BY <4>1, <4>2
    <3>2. i < Len(Weights)
      <4> SUFFICES ASSUME i = Len(Weights) PROVE FALSE
        BY <1>2, EndpointsTyped
      <4>1. Before(i + 1) = Round /\ Round \in Nat
        BY <1>2, Places, EndpointsTyped
      <4> QED
        BY <1>2, <1>3, <2>4, <3>1, <4>1
    <3>3. call'[c] = on
      BY <2>2, <3>2
    <3> HIDE DEF on, cumulative
    <3>4. Agrees(c)'
      BY <1>1, <1>3, <2>1, <2>4, <3>1, <3>3, SameUp DEF Agrees
    <3>5. Picking' = Picking /\ \A d \in Picking : call'[d].selected = call[d].selected
      BY <1>1, <2>1, <2>2, <3>3 DEF Picking
    <3>6. \A s : Since(s) => Since(s)'
      BY <1>1, <1>5, <3>5, SamePicks
    <3> QED
      BY <1>1, <1>5, <2>2, <2>4, <3>4, <3>6, Steady
  <2> QED
    BY <2>3, <2>4
<1> QED
  BY <1>4, <1>5 DEF PickByWeight

\* An undisturbed call never needs a third scan.
LEMMA PickAnyFair ==
  ASSUME IInv, IInv', Fair, NEW c \in Callers, PickAny(c)
  PROVE  Fair'
<1>1. call[c].pc = "rescan" /\ healthy' = healthy /\ current' = current
  BY DEF PickAny
<1>2. disturbed
  BY <1>1 DEF Fair, Agrees
<1>3. call \in [Callers -> Call] /\ call[c].i \in Endpoints
  BY <1>1, Locals, EndpointsTyped DEF CallOK, Call
<1>4. ASSUME Return(c, call[c].i) PROVE Fair'
  <2>1. call'[c].pc = "done" /\ \A d \in Callers \ {c} : call'[d] = call[d]
    BY <1>3, <1>4, ReturnEffect DEF IInv, Results
  <2> QED
    BY <1>2, <1>4, <2>1, DisturbedReturn
<1>5. ASSUME call' = [call EXCEPT ![c].i = call[c].i + 1], disturbed' = disturbed
      PROVE  Fair'
  <2>1. call'[c].pc = "rescan"
    BY <1>1, <1>3, <1>5 DEF Call
  <2> QED
    BY <1>2, <1>5, <2>1, StillDisturbed
<1>6. ASSUME Fail(c) PROVE Fair'
  BY <1>1, <1>2, <1>6, FailFair
<1> QED
  BY <1>4, <1>5, <1>6 DEF PickAny

\* The fallback of an undisturbed call happens in a round without turns.
LEMMA RescueFair ==
  ASSUME IInv, IInv', Fair, NEW c \in Callers, Rescue(c)
  PROVE  Fair'
<1>1. call[c].pc = "rescue" /\ healthy' = healthy
  BY DEF Rescue
<1>2. PICK res : Return(c, res)
  BY DEF Rescue
<1>3. call'[c].pc = "done" /\ \A d \in Callers \ {c} : call'[d] = call[d]
  BY <1>2, Locals DEF Return, NoCall
<1>4. CASE disturbed
  BY <1>2, <1>3, <1>4, DisturbedReturn
<1>5. CASE ~disturbed
  <2>1. Round = 0
    BY <1>1, <1>5 DEF Fair, Agrees
  <2>2. Agrees(c)' /\ ~disturbed'
    BY <1>2, <1>3, <1>5 DEF Agrees, Return, Measure
  <2> QED
    BY <1>1, <1>3, <1>5, <2>1, <2>2, Steady
<1> QED
  BY <1>4, <1>5

LEMMA BeginFair ==
  ASSUME IInv, IInv', Fair, NEW c \in Callers, NEW method, Begin(c, method)
  PROVE  Fair'
<1> DEFINE own == [NoCall EXCEPT !.pc = "sum", !.method = method]
<1>1. /\ call[c].pc = "done" /\ call' = [call EXCEPT ![c] = own]
      /\ healthy' = healthy /\ current' = current /\ disturbed' = disturbed
      /\ tally' = tally \/ (Quiescent /\ tally' = NoTally)
  BY DEF Begin, Active
<1>2. /\ call'[c] = own /\ \A d \in Callers \ {c} : call'[d] = call[d]
      /\ own.pc = "sum" /\ own.i = 1 /\ own.total = 0 /\ own.cumulative = 0
  BY <1>1, Locals DEF NoCall
<1> HIDE DEF own
<1>3. CASE disturbed
  BY <1>1, <1>2, <1>3, StillDisturbed
<1>4. CASE ~disturbed
  <2>1. Agrees(c)'
    BY <1>1, <1>2, SameUp, Places DEF Agrees
  <2>2. Picking' = Picking /\ c \notin Picking
    BY <1>1, <1>2 DEF Picking
  <2>3. CASE tally' = tally
    <3>1. \A d \in Picking : call'[d].selected = call[d].selected
      BY <1>2, <2>2 DEF Picking
    <3>2. \A s : Since(s) => Since(s)'
      BY <1>1, <2>2, <2>3, <3>1, SamePicks
    <3> QED
      BY <1>1, <1>2, <1>4, <2>1, <3>2, Steady
  <2>4. CASE Quiescent /\ tally' = NoTally
    <3>1. Picking' = {}
      BY <2>2, <2>4 DEF Picking, Quiescent, Active
    <3>2. \E s \in (-IntMax - 1)..IntMax : Since(s)'
      BY <2>4, <3>1, Fresh
    <3>3. \A d \in Callers : Agrees(d)'
      BY <1>1, <1>2, <1>4, <2>1, AgreesFrame DEF Fair
    <3> QED
      BY <1>1, <1>4, <3>2, <3>3 DEF Fair
  <2> QED
    BY <1>1, <2>3, <2>4
<1> QED
  BY <1>3, <1>4

\* A flip disturbs the measurement, or begins another one.
LEMMA FlipFair ==
  ASSUME IInv, IInv', Fair, NEW e \in Endpoints, Flip(e)
  PROVE  Fair'
<1>1. tally' = NoTally /\ disturbed' = ~Quiescent /\ call' = call
  BY DEF Flip
<1>2. CASE Quiescent
  <2>1. \A d \in Callers : call'[d].pc = "done"
    BY <1>1, <1>2 DEF Quiescent, Active
  <2>2. Picking' = {} /\ \A d \in Callers : Agrees(d)'
    BY <2>1 DEF Picking, Agrees
  <2> QED
    BY <1>1, <1>2, <2>2, Fresh DEF Fair
<1>3. CASE ~Quiescent
  <2>1. PICK c \in Callers : call'[c].pc # "done"
    BY <1>1, <1>3 DEF Quiescent, Active
  <2> QED
    BY <1>1, <1>3, <2>1, StillDisturbed
<1> QED
  BY <1>2, <1>3

LEMMA InitFair == Init => Fair
<1> SUFFICES ASSUME Init PROVE Fair
  OBVIOUS
<1>1. \A c \in Callers : call[c].pc = "done"
  BY DEF Init, NoCall
<1>2. Picking = {} /\ ~disturbed /\ \A c \in Callers : Agrees(c)
  BY <1>1 DEF Picking, Agrees, Init
<1>3. current = 0 /\ 0 \in (-IntMax - 1)..IntMax
  BY BalancerConfig DEF Init, BalancerConfig
<1>4. Since(0)
  <2>1. Tallied = 0 /\ Cardinality(Picking) = 0
    BY <1>2, NothingTallied, FS_EmptySet DEF Tallied, Init
  <2>2. ASSUME NEW e \in Up PROVE tally[e] = 0 /\ Pending(e) = {} /\ Owned(e, 0) = {}
    BY <1>2, <1>3 DEF Init, NoTally, Up, Pending, Owned, Drawn
  <2> QED
    BY <1>3, <2>1, <2>2, FS_EmptySet DEF Since
<1> QED
  BY <1>2, <1>3, <1>4 DEF Fair

LEMMA NextFair == IInv /\ IInv' /\ Fair /\ [Next]_vars => Fair'
<1> SUFFICES ASSUME IInv, IInv', Fair, [Next]_vars PROVE Fair'
  OBVIOUS
<1>1. CASE Next
  BY <1>1, BeginFair, SumWeightsFair, DrawFair, PickByWeightFair, PickAnyFair,
     RescueFair, FlipFair DEF Next, CallStep
<1>2. CASE UNCHANGED vars
  <2>1. /\ healthy' = healthy /\ current' = current /\ call' = call /\ tally' = tally
        /\ disturbed' = disturbed
    BY <1>2 DEF vars
  <2>2. Picking' = Picking /\ Quiescent' = Quiescent
    BY <2>1 DEF Picking, Quiescent, Active
  <2>3. \A s : Since(s) => Since(s)'
    BY <2>1, <2>2, SamePicks
  <2>4. \A c \in Callers : Agrees(c) => Agrees(c)'
    BY <2>1, AgreesFrame
  <2> QED
    BY <2>1, <2>2, <2>3, <2>4, SameUp DEF Fair
<1> QED
  BY <1>1, <1>2

\* A round that has been counted to its end holds each owner's places.
LEMMA FairRound ==
  ASSUME IInv, Fair
  PROVE  FairShare
<1> SUFFICES ASSUME Quiescent, Tallied = Round, NEW e \in Up PROVE tally[e] = Weights[e]
  BY DEF FairShare, Round
<1>1. /\ tally \in [Endpoints -> Nat] /\ e \in Endpoints /\ tally[e] \in Nat
      /\ Weights[e] \in Nat /\ healthy[e] /\ e \in Nat /\ e <= Len(Weights)
      /\ current \in Int
  BY EndpointsTyped, BalancerConfig DEF IInv, TypeOK, Up, BalancerConfig
<1>2. /\ Round \in Nat /\ Before(e) \in Nat /\ Before(e + 1) = Before(e) + Weights[e]
      /\ Before(e + 1) <= Round
  <2>1. e + 1 \in Nat /\ Len(Weights) + 1 \in Nat /\ e + 1 <= Len(Weights) + 1
        /\ Len(Weights) + 1 > Len(Weights)
    BY <1>1, EndpointsTyped
  <2>2. Before(e + 1) <= Before(Len(Weights) + 1) /\ Before(Len(Weights) + 1) = Round
    BY <2>1, Places
  <2> QED
    BY <1>1, <2>2, Places
<1>3. CASE Round = 0
  <2>1. Weights[e] = 0
    BY <1>1, <1>2, <1>3
  <2>2. tally[e] <= Tallied
    BY <1>1, TalliedTyped
  <2> QED
    BY <1>1, <1>3, <2>1, <2>2
<1>4. CASE Round > 0
  <2>1. PICK s \in (-IntMax - 1)..IntMax : Since(s)
    BY <1>4 DEF Fair
  <2>2. s \in Int
    BY BalancerConfig DEF BalancerConfig
  <2>3. Picking = {} /\ Pending(e) = {}
    BY DEF Picking, Pending, Quiescent, Active
  <2>4. Cardinality(Picking) = 0 /\ Cardinality(Pending(e)) = 0
    BY <2>3, FS_EmptySet
  <2>5. current = s + Round /\ s >= -1
    BY <1>1, <1>2, <1>4, <2>1, <2>2, <2>4 DEF Since
  <2>6. tally[e] = Cardinality(Owned(e, s))
    BY <1>1, <2>1, <2>4 DEF Since
  <2> DEFINE a == Before(e)
             b == Before(e) + Weights[e]
  <2>7. a \in 0..Round /\ b \in 0..Round /\ a <= b /\ b - a = Weights[e]
    BY <1>1, <1>2
  <2>8. Owned(e, s) = {k \in (s + 1)..(s + Round) : a <= k % Round /\ k % Round < b}
    BY <2>5 DEF Owned, Drawn, Owns
  <2> HIDE DEF a, b
  <2>9. Cardinality({k \in (s + 1)..(s + Round) : a <= k % Round /\ k % Round < b}) = b - a
    BY <1>2, <1>4, <2>2, <2>5, <2>7, FullRound
  <2> QED
    BY <2>6, <2>7, <2>8, <2>9
<1> QED
  BY <1>2, <1>3, <1>4

\* Whoever the callers are and however their calls overlap, weighted round
\* robin is exact: between flips, a full round of selections gives every
\* healthy endpoint as many as it weighs.
THEOREM RoundsAreFair == Spec => []FairShare
<1>1. Spec => []Fair
  <2>1. Init => Fair
    BY InitFair
  <2>2. IInv /\ IInv' /\ Fair /\ [Next]_vars => Fair'
    BY NextFair
  <2> QED
    BY <2>1, <2>2, Invariance, PTL DEF Spec
<1>2. IInv /\ Fair => FairShare
  BY FairRound
<1> QED
  BY <1>1, <1>2, Invariance, PTL

-----------------------------------------------------------------------------
(***************************************************************************)
(* Every call ends by its own steps alone.                                 *)
(***************************************************************************)

LEMMA RemainingValues ==
  ASSUME NEW r
  PROVE  /\ r.pc = "done" => Remaining(r) = 0
         /\ r.pc = "rescue" => Remaining(r) = 1
         /\ r.pc = "rescan" => Remaining(r) = (Len(Weights) - r.i) + 2
         /\ r.pc = "pick" => Remaining(r) = 2 * Len(Weights) - r.i + 2
         /\ r.pc = "draw" => Remaining(r) = 2 * Len(Weights) + 2
         /\ r.pc = "sum" => Remaining(r) = 3 * Len(Weights) - r.i + 3
  BY DEF Remaining

\* Next takes at most three scans, however the flags flip and whatever other
\* callers do: no retry, and nobody to wait for.
THEOREM CallsAreWaitFree == Spec => WaitFree
<1>1. ASSUME IInv, IInv', Next, NEW c \in Callers
      PROVE  /\ Remaining(call[c]) \in 0..(3 * Len(Weights) + 2)
             /\ CallStep(c) => Remaining(call'[c]) < Remaining(call[c])
             /\ Active(c) /\ ~CallStep(c) => call'[c] = call[c]
  <2> DEFINE n == Len(Weights)
             i == call[c].i
  <2>1. /\ call \in [Callers -> Call] /\ call[c] \in Call
        /\ i \in Endpoints \cup {1} /\ i \in Nat
        /\ call[c].pc \in {"draw", "pick", "rescan"} => i \in Endpoints
        /\ n \in Nat
    BY <1>1, Locals, EndpointsTyped DEF Call, CallOK
  <2>2. i >= 1 /\ (i <= n \/ (i = 1 /\ n = 0))
    BY <2>1, EndpointsTyped
  <2>3. Remaining(call[c]) \in 0..(3 * n + 2)
    <3>1. call[c].pc \in {"done", "sum", "draw", "pick", "rescan", "rescue"}
      BY <2>1 DEF Call
    <3> QED
      BY <2>1, <2>2, <3>1, RemainingValues, EndpointsTyped
  <2>4. call[c].pc \in {"sum", "draw", "pick", "rescan"} => Remaining(call[c]) >= 2
    BY <2>1, <2>2, RemainingValues, EndpointsTyped
  <2>5. ASSUME NEW res, Return(c, res), call[c].pc # "done" PROVE Remaining(call'[c]) < Remaining(call[c])
    <3>1. call'[c].pc = "done"
      BY <2>1, <2>5 DEF Return, NoCall
    <3>2. Remaining(call[c]) >= 1
      BY <2>1, <2>4, <2>5, RemainingValues DEF Call
    <3> QED
      BY <2>3, <3>1, <3>2, RemainingValues
  <2>6. ASSUME Fail(c), call[c].pc \in {"sum", "rescan"} PROVE Remaining(call'[c]) < Remaining(call[c])
    <3>1. call'[c].pc \in {"done", "rescue"}
      BY <1>1, <2>6, FailEffect DEF IInv
    <3> QED
      BY <2>3, <2>4, <2>6, <3>1, RemainingValues
  <2>7. ASSUME SumWeights(c) PROVE Remaining(call'[c]) < Remaining(call[c])
    <3>1. call[c].pc = "sum"
      BY <2>7 DEF SumWeights
    <3>2. CASE i < n /\ call'[c].pc = "sum" /\ call'[c].i = i + 1
      BY <2>1, <3>1, <3>2, RemainingValues
    <3>3. CASE i >= n /\ call'[c].pc = "draw"
      <4>1. Endpoints # {}
        BY <1>1, <3>3 DEF IInv, TypeOK
      <4>2. i = n
        BY <2>1, <2>2, <3>3, <4>1, EndpointsTyped
      <4> QED
        BY <2>1, <3>1, <3>3, <4>2, RemainingValues
    <3>4. CASE Fail(c)
      BY <2>6, <3>1, <3>4
    <3> QED
      BY <2>1, <2>7, <3>1, <3>2, <3>3, <3>4 DEF SumWeights, Call
  <2>8. ASSUME Draw(c) PROVE Remaining(call'[c]) < Remaining(call[c])
    <3>1. call[c].pc = "draw" /\ call'[c].pc = "pick" /\ call'[c].i = 1
      BY <2>1, <2>8 DEF Draw, Call
    <3> QED
      BY <2>1, <3>1, RemainingValues, EndpointsTyped
  <2>9. ASSUME PickByWeight(c) PROVE Remaining(call'[c]) < Remaining(call[c])
    <3>1. call[c].pc = "pick"
      BY <2>9 DEF PickByWeight
    <3>2. CASE Return(c, i)
      BY <2>5, <3>1, <3>2
    <3>3. CASE i < n /\ call'[c].pc = "pick" /\ call'[c].i = i + 1
      BY <2>1, <3>1, <3>3, RemainingValues
    <3>4. CASE ~(i < n) /\ call'[c].pc = "rescan" /\ call'[c].i = 1
      BY <2>1, <2>2, <3>1, <3>4, RemainingValues, EndpointsTyped
    <3>5. ASSUME NEW m,
                 call' = [call EXCEPT ![c] =
                   IF i < Len(Weights)
                   THEN [@ EXCEPT !.i = i + 1, !.cumulative = m]
                   ELSE [NoCall EXCEPT !.method = call[c].method, !.pc = "rescan"]]
          PROVE  Remaining(call'[c]) < Remaining(call[c])
      <4>1. CASE i < n
        BY <2>1, <3>1, <3>3, <3>5, <4>1 DEF Call
      <4>2. CASE ~(i < n)
        BY <2>1, <3>4, <3>5, <4>2 DEF NoCall
      <4> QED
        BY <4>1, <4>2
    <3> QED
      BY <2>9, <3>2, <3>5 DEF PickByWeight
  <2>10. ASSUME PickAny(c) PROVE Remaining(call'[c]) < Remaining(call[c])
    <3>1. call[c].pc = "rescan"
      BY <2>10 DEF PickAny
    <3>2. CASE Return(c, i)
      BY <2>5, <3>1, <3>2
    <3>3. CASE call'[c].pc = "rescan" /\ call'[c].i = i + 1
      BY <2>1, <3>1, <3>3, RemainingValues
    <3>4. CASE Fail(c)
      BY <2>6, <3>1, <3>4
    <3> QED
      BY <2>1, <2>10, <3>1, <3>2, <3>3, <3>4 DEF PickAny, Call
  <2>11. ASSUME Rescue(c) PROVE Remaining(call'[c]) < Remaining(call[c])
    <3>1. call[c].pc = "rescue" /\ \E res : Return(c, res)
      BY <2>11 DEF Rescue
    <3> QED
      BY <2>5, <3>1
  <2>12. ASSUME Active(c), ~CallStep(c) PROVE call'[c] = call[c]
    <3>1. CASE \E e \in Endpoints : Flip(e)
      BY <3>1 DEF Flip
    <3>2. ASSUME NEW d \in Callers,
                 \/ \E method \in {"Next", "NextWithFallback"} : Begin(d, method)
                 \/ CallStep(d)
          PROVE  call'[c] = call[c]
      <4>1. d # c
        BY <2>12, <3>2 DEF Begin
      <4>2. \E r : call' = [call EXCEPT ![d] = r]
        BY <2>1, <3>2 DEF Begin, CallStep, SumWeights, Draw, PickByWeight, PickAny, Rescue,
           Fail, Return
      <4> QED
        BY <2>1, <4>1, <4>2
    <3> QED
      BY <1>1, <3>1, <3>2 DEF Next, CallStep
  <2> QED
    BY <2>3, <2>7, <2>8, <2>9, <2>10, <2>11, <2>12 DEF CallStep
<1>2. IInv /\ IInv' /\ [Next]_vars =>
        [\A c \in Callers :
               /\ Remaining(call[c]) \in 0..(3 * Len(Weights) + 2)
               /\ CallStep(c) => Remaining(call'[c]) < Remaining(call[c])
               /\ Active(c) /\ ~CallStep(c) => call'[c] = call[c]]_vars
  BY <1>1
<1> QED
  BY <1>2, Invariance, PTL DEF Spec, WaitFree

-----------------------------------------------------------------------------
\* What module Chain assumes of Next: a call ends with an endpoint at the
\* instant its flag is read as healthy, or with an error after each endpoint
\* with a weight was down at an instant of the call; it never panics.
THEOREM NextAsChainAssumes ==
  Spec => [][\A c \in Callers :
               Active(c) /\ ~Active(c)' /\ call[c].method = "Next" =>
                 \/ call'[c].result \in Endpoints /\ healthy[call'[c].result]
                 \/ /\ call'[c].result = ErrNoHealthyEndpoints
                    /\ \A e \in Endpoints : Weights[e] > 0 => e \in seen[c].down]_vars
<1> DEFINE Good(c) ==
      \/ call'[c].result \in Endpoints /\ healthy[call'[c].result]
      \/ /\ call'[c].result = ErrNoHealthyEndpoints
         /\ \A e \in Endpoints : Weights[e] > 0 => e \in seen[c].down
<1>1. ASSUME IInv, IInv', Next, NEW c \in Callers,
             Active(c), ~Active(c)', call[c].method = "Next"
      PROVE  Good(c)
  <2>1. call \in [Callers -> Call] /\ call[c].pc # "done" /\ call'[c].pc = "done"
    BY <1>1, Locals DEF Active
  <2>2. CallStep(c)
    <3>1. ~(\E e \in Endpoints : Flip(e))
      BY <2>1 DEF Flip
    <3>2. PICK d \in Callers : \/ \E method \in {"Next", "NextWithFallback"} : Begin(d, method)
                              \/ CallStep(d)
      BY <1>1, <3>1 DEF Next, CallStep
    <3>3. \E r : call' = [call EXCEPT ![d] = r]
      BY <2>1, <3>2 DEF Begin, CallStep, SumWeights, Draw, PickByWeight, PickAny, Rescue,
         Fail, Return
    <3>4. d = c
      BY <2>1, <3>3
    <3> QED
      BY <1>1, <3>2, <3>4 DEF Begin
  <2>3. ASSUME NEW e \in Endpoints, healthy[e], Return(c, e) PROVE Good(c)
    BY <1>1, <2>3, ReturnEffect DEF IInv, Results
  <2>4. ASSUME Fail(c), seen' = seen PROVE Good(c)
    <3>1. call'[c].result = ErrNoHealthyEndpoints /\ call'[c].method = "Next"
      BY <1>1, <2>4, FailEffect DEF IInv
    <3>2. FailureJustified'
      BY <1>1 DEF IInv
    <3>3. \A e \in Endpoints : Weights[e] > 0 => e \in seen[c].down
      BY <2>1, <2>4, <3>1, <3>2 DEF FailureJustified
    <3> QED
      BY <3>1, <3>3
  <2>5. CASE SumWeights(c)
    <3>1. Fail(c) /\ seen' = seen
      BY <2>1, <2>5 DEF SumWeights, Call
    <3> QED
      BY <2>4, <3>1
  <2>6. CASE Draw(c)
    BY <2>1, <2>6 DEF Draw, Call
  <2>7. CASE PickByWeight(c)
    <3>1. call[c].i \in Endpoints
      BY <1>1, <2>7, Locals, EndpointsTyped DEF PickByWeight, CallOK, Call
    <3>2. ASSUME NEW m,
                 call' = [call EXCEPT ![c] =
                   IF call[c].i < Len(Weights)
                   THEN [@ EXCEPT !.i = call[c].i + 1, !.cumulative = m]
                   ELSE [NoCall EXCEPT !.method = call[c].method, !.pc = "rescan"]]
          PROVE  FALSE
      BY <2>1, <3>2 DEF Call, NoCall
    <3>3. Return(c, call[c].i) /\ healthy[call[c].i]
      BY <2>7, <3>2 DEF PickByWeight
    <3> QED
      BY <2>3, <3>1, <3>3
  <2>8. CASE PickAny(c)
    <3>1. call[c].i \in Endpoints
      BY <1>1, <2>8, Locals, EndpointsTyped DEF PickAny, CallOK, Call
    <3>2. CASE healthy[call[c].i] /\ Return(c, call[c].i)
      BY <2>3, <3>1, <3>2
    <3>3. CASE Fail(c)
      BY <2>4, <2>8, <3>3 DEF PickAny
    <3>4. call' # [call EXCEPT ![c].i = call[c].i + 1]
      BY <2>1 DEF Call
    <3> QED
      BY <2>8, <3>2, <3>3, <3>4 DEF PickAny
  <2>9. CASE Rescue(c)
    BY <1>1, <2>9 DEF Rescue, IInv, ScansJustified
  <2> QED
    BY <2>2, <2>5, <2>6, <2>7, <2>8, <2>9 DEF CallStep
<1>2. IInv /\ IInv' /\ [Next]_vars =>
        [\A c \in Callers : Active(c) /\ ~Active(c)' /\ call[c].method = "Next" => Good(c)]_vars
  BY <1>1
<1> QED
  BY <1>2, Invariance, PTL DEF Spec
=============================================================================
