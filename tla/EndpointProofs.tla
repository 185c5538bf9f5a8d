---------------------------- MODULE EndpointProofs ----------------------------
(***************************************************************************)
(* What TLAPS proves about the two that decide whether an endpoint is      *)
(* used: its circuit breaker, for every configuration and every set of     *)
(* callers, and the health checker, for every set of endpoints, every lag  *)
(* and every bound on block heights.                                       *)
(***************************************************************************)
EXTENDS CircuitBreaker, HealthChecker, FiniteSetTheorems, WellFoundedInduction, TLAPS

-----------------------------------------------------------------------------
(***************************************************************************)
(* The circuit breaker.                                                    *)
(***************************************************************************)

\* The methods map breakers to breakers, given that a closed breaker has not
\* reached its failure threshold.
LEMMA MethodsTyped ==
  ASSUME NEW b \in Breaker, b.state = "closed" => b.failures < FailureThreshold
  PROVE  /\ AfterAllow(b) \in Breaker
         /\ AfterSuccess(b) \in Breaker
         /\ AfterFailure(b) \in Breaker
         /\ ResetFields(b) \in Breaker
         /\ Elapse(b) \in Breaker
<1> USE BreakerConfig DEF BreakerConfig, Breaker
<1>1. AfterAllow(b) \in Breaker
  BY DEF AfterAllow, Allows, CurrentState
<1>2. ResetFields(b) \in Breaker
  BY DEF ResetFields
<1>3. AfterSuccess(b) \in Breaker
  BY <1>2 DEF AfterSuccess, CurrentState
<1>4. AfterFailure(b) \in Breaker
  <2>1. ASSUME NEW c \in Breaker PROVE Trip(c) \in Breaker
    BY DEF Trip
  <2>2. CASE CurrentState(b) = "closed"
    <3>1. b.failures + 1 \in 0..FailureThreshold
      BY <2>2 DEF CurrentState
    <3> DEFINE counted == [b EXCEPT !.failures = b.failures + 1]
    <3>2. counted \in Breaker /\ Trip(counted) \in Breaker
      BY <2>1, <3>1
    <3> QED
      BY <2>2, <3>2 DEF AfterFailure
  <2> QED
    BY <2>1, <2>2 DEF AfterFailure, CurrentState
<1>5. Elapse(b) \in Breaker
  BY DEF Elapse
<1> QED
  BY <1>1, <1>2, <1>3, <1>4, <1>5

\* What each method does to the period counters, in the terms the invariants
\* below use.
LEMMA MethodsKeepFresh ==
  ASSUME NEW b \in Breaker,
         CurrentState(b) # "half-open" => b.halfOpenRequests = 0 /\ b.successes = 0,
         b.state = "closed" => b.failures < FailureThreshold,
         NEW c \in {AfterAllow(b), AfterSuccess(b), AfterFailure(b),
                    ResetFields(b), Elapse(b)}
  PROVE  /\ CurrentState(c) # "half-open" => c.halfOpenRequests = 0 /\ c.successes = 0
         /\ c.state = "closed" => c.failures < FailureThreshold
<1> USE BreakerConfig DEF BreakerConfig, Breaker, CurrentState
<1>1. CASE c = AfterAllow(b)
  BY <1>1 DEF AfterAllow, Allows
<1>2. CASE c = AfterSuccess(b)
  BY <1>2 DEF AfterSuccess, ResetFields
<1>3. CASE c = AfterFailure(b)
  BY <1>3 DEF AfterFailure, Trip
<1>4. CASE c = ResetFields(b)
  BY <1>4 DEF ResetFields
<1>5. CASE c = Elapse(b)
  BY <1>5 DEF Elapse
<1> QED
  BY <1>1, <1>2, <1>3, <1>4, <1>5

\* The inductive invariant: fields in range, counters of a period fresh when
\* it begins, and every half-open slot accounted for.
IInv == TypeOK /\ CountersFresh /\ SlotsAccounted

\* A new breaker, as NewCircuitBreaker returns it, satisfies the invariant.
LEMMA InitIInv == Init => IInv
<1> SUFFICES ASSUME Init PROVE IInv
  OBVIOUS
<1>1. TypeOK
  BY BreakerConfig DEF BreakerConfig, Init, TypeOK, NewBreaker, Breaker
<1>2. CountersFresh
  BY BreakerConfig DEF BreakerConfig, Init, CountersFresh, NewBreaker, CurrentState
<1>3. SlotsAccounted
  BY FS_EmptySet DEF Init, SlotsAccounted, NewBreaker
<1> QED
  BY <1>1, <1>2, <1>3 DEF IInv

\* Every method call, tick and reset preserves it.
LEMMA NextIInv == IInv /\ [Next]_vars => IInv'
<1> SUFFICES ASSUME IInv, [Next]_vars PROVE IInv'
  OBVIOUS
<1> USE DEF IInv
<1>0. /\ cb \in Breaker
      /\ inFlight \subseteq Requests
      /\ CurrentState(cb) # "half-open" => cb.halfOpenRequests = 0 /\ cb.successes = 0
      /\ cb.state = "closed" => cb.failures < FailureThreshold
      /\ IsFiniteSet(inFlight) /\ Cardinality(inFlight) \in Nat
      /\ cb.halfOpenRequests <= cb.successes + Cardinality(inFlight)
  BY FS_CardinalityType DEF TypeOK, CountersFresh, SlotsAccounted
<1>1. ASSUME NEW r \in Requests, Allow(r)
      PROVE  IInv'
  <2>1. TypeOK' /\ CountersFresh'
    BY <1>0, <1>1, MethodsTyped, MethodsKeepFresh DEF Allow, TypeOK, CountersFresh
  <2>2. SlotsAccounted'
    <3>1. CASE Allows(cb)
      <4>1. /\ IsFiniteSet(inFlight \cup {r})
            /\ Cardinality(inFlight \cup {r}) = Cardinality(inFlight) + 1
        BY <1>0, <1>1, FS_AddElement DEF Allow
      <4>2. /\ AfterAllow(cb).successes = cb.successes
            /\ AfterAllow(cb).halfOpenRequests <= cb.halfOpenRequests + 1
        BY <1>0 DEF AfterAllow, Breaker
      <4> QED
        BY <1>0, <1>1, <3>1, <4>1, <4>2, <2>1
        DEF Allow, SlotsAccounted, TypeOK, Breaker
    <3>2. CASE ~Allows(cb)
      BY <1>0, <1>1, <3>2 DEF Allow, AfterAllow, SlotsAccounted
    <3> QED
      BY <3>1, <3>2
  <2> QED
    BY <2>1, <2>2
<1>2. ASSUME NEW r \in Requests, RecordSuccess(r)
      PROVE  IInv'
  <2>1. TypeOK' /\ CountersFresh'
    BY <1>0, <1>2, MethodsTyped, MethodsKeepFresh
    DEF RecordSuccess, TypeOK, CountersFresh
  <2>2. SlotsAccounted'
    <3>1. /\ IsFiniteSet(inFlight \ {r})
          /\ Cardinality(inFlight \ {r}) = Cardinality(inFlight) - 1
          /\ Cardinality(inFlight \ {r}) \in Nat
      BY <1>0, <1>2, FS_RemoveElement, FS_CardinalityType DEF RecordSuccess
    <3>2. \/ AfterSuccess(cb).halfOpenRequests = 0
          \/ /\ AfterSuccess(cb).halfOpenRequests = cb.halfOpenRequests
             /\ AfterSuccess(cb).successes = cb.successes + 1
      BY <1>0 DEF AfterSuccess, ResetFields, CurrentState, Breaker
    <3> QED
      BY <1>0, <1>2, <2>1, <3>1, <3>2
      DEF RecordSuccess, SlotsAccounted, TypeOK, Breaker
  <2> QED
    BY <2>1, <2>2
<1>3. ASSUME NEW r \in Requests, RecordFailure(r)
      PROVE  IInv'
  <2>1. TypeOK' /\ CountersFresh'
    BY <1>0, <1>3, MethodsTyped, MethodsKeepFresh
    DEF RecordFailure, TypeOK, CountersFresh
  <2>2. SlotsAccounted'
    <3>1. IsFiniteSet(inFlight \ {r}) /\ Cardinality(inFlight \ {r}) \in Nat
      BY <1>0, <1>3, FS_RemoveElement, FS_CardinalityType DEF RecordFailure
    <3>2. AfterFailure(cb).halfOpenRequests = 0
      BY <1>0 DEF AfterFailure, Trip, CurrentState, Breaker
    <3> QED
      BY <1>0, <1>3, <2>1, <3>1, <3>2
      DEF RecordFailure, SlotsAccounted, TypeOK, Breaker
  <2> QED
    BY <2>1, <2>2
<1>4. CASE Reset
  <2>1. TypeOK' /\ CountersFresh'
    BY <1>0, <1>4, MethodsTyped, MethodsKeepFresh DEF Reset, TypeOK, CountersFresh
  <2>2. SlotsAccounted'
    BY <1>0, <1>4 DEF Reset, ResetFields, SlotsAccounted, Breaker
  <2> QED
    BY <2>1, <2>2
<1>5. CASE TimePasses
  <2>1. TypeOK' /\ CountersFresh'
    BY <1>0, <1>5, MethodsTyped, MethodsKeepFresh
    DEF TimePasses, TypeOK, CountersFresh
  <2>2. SlotsAccounted'
    BY <1>0, <1>5 DEF TimePasses, Elapse, SlotsAccounted, Breaker
  <2> QED
    BY <2>1, <2>2
<1>6. CASE UNCHANGED vars
  BY <1>6 DEF vars, TypeOK, CountersFresh, SlotsAccounted
<1> QED
  BY <1>1, <1>2, <1>3, <1>4, <1>5, <1>6 DEF Next

\* So it holds for ever.
LEMMA Invariance == Spec => []IInv
  BY InitIInv, NextIInv, PTL DEF Spec

\* Every field of the breaker stays in its range whatever the callers do:
\* failures never passes FailureThreshold, a half-open period never counts
\* SuccessThreshold successes without closing nor admits more than
\* HalfOpenMaxRequests requests.
THEOREM TypeCorrect == Spec => []TypeOK
  BY Invariance, PTL DEF IInv

\* A breaker whose half-open budget covers its success threshold never
\* refuses everybody for good: when the slots of Allow are used up, some
\* admitted call has still to report.  The hypothesis on the two settings is
\* needed: with fewer slots than successes to be seen, the slots of a period
\* are used up for good.
THEOREM NeverWedged ==
  ASSUME SuccessThreshold <= HalfOpenMaxRequests
  PROVE  Spec => []NoWedge
<1>1. IInv => NoWedge
  <2> SUFFICES ASSUME IInv, CurrentState(cb) = "half-open", ~Allows(cb), inFlight = {}
               PROVE  FALSE
    BY DEF NoWedge
  <2>1. Cardinality(inFlight) = 0
    BY FS_EmptySet
  <2>2. cb \in Breaker /\ cb.halfOpenRequests >= HalfOpenMaxRequests
    BY BreakerConfig DEF BreakerConfig, IInv, TypeOK, Allows, Breaker
  <2>3. cb.halfOpenRequests <= cb.successes
    BY <2>1, <2>2 DEF IInv, SlotsAccounted, Breaker
  <2> QED
    BY <2>2, <2>3, BreakerConfig DEF BreakerConfig, Breaker
<1> QED
  BY <1>1, Invariance, PTL

-----------------------------------------------------------------------------
\* Every step of the breaker is a step of the three-mode machine or leaves
\* its mode, allowances and callers alone.
LEMMA StepRefines ==
  ASSUME TypeOK, CountersFresh, [Next]_vars
  PROVE  [Policy!Next]_(Policy!vars)
<1> USE BreakerConfig DEF BreakerConfig
<1> USE DEF CurrentState, Policy!vars
<1>0. /\ cb \in Breaker
      /\ CurrentState(cb) # "half-open" => cb.halfOpenRequests = 0 /\ cb.successes = 0
      /\ cb.state = "closed" => cb.failures < FailureThreshold
  BY DEF TypeOK, CountersFresh
<1> USE <1>0 DEF Breaker
<1>1. ASSUME NEW r \in Requests, Allow(r)
      PROVE  Policy!Admit(r) \/ UNCHANGED Policy!vars
  BY <1>1 DEF Allow, Allows, AfterAllow, Policy!Admit
<1>2. ASSUME NEW r \in Requests, RecordSuccess(r)
      PROVE  Policy!Good(r)
  <2>1. CASE CurrentState(cb) = "closed"
    BY <1>2, <2>1 DEF RecordSuccess, AfterSuccess, Policy!Good
  <2>2. CASE CurrentState(cb) = "open"
    BY <1>2, <2>2 DEF RecordSuccess, AfterSuccess, Policy!Good
  <2>3. CASE CurrentState(cb) = "half-open"
    BY <1>2, <2>3
    DEF RecordSuccess, AfterSuccess, ResetFields, Policy!Good, Policy!EnterClosed
  <2> QED
    BY <2>1, <2>2, <2>3
<1>3. ASSUME NEW r \in Requests, RecordFailure(r)
      PROVE  Policy!Bad(r)
  <2>1. CASE CurrentState(cb) = "closed"
    BY <1>3, <2>1
    DEF RecordFailure, AfterFailure, Trip, Policy!Bad, Policy!EnterOpen
  <2>2. CASE CurrentState(cb) = "open"
    BY <1>3, <2>2 DEF RecordFailure, AfterFailure, Policy!Bad
  <2>3. CASE CurrentState(cb) = "half-open"
    BY <1>3, <2>3
    DEF RecordFailure, AfterFailure, Trip, Policy!Bad, Policy!EnterOpen
  <2> QED
    BY <2>1, <2>2, <2>3
<1>4. ASSUME Reset PROVE Policy!ManualReset
  BY <1>4 DEF Reset, ResetFields, Policy!ManualReset, Policy!EnterClosed
<1>5. ASSUME TimePasses PROVE Policy!Tick \/ UNCHANGED Policy!vars
  BY <1>5 DEF TimePasses, Elapse, Policy!Tick, Policy!EnterHalfOpen
<1>6. ASSUME UNCHANGED vars PROVE UNCHANGED Policy!vars
  BY <1>6 DEF vars
<1> QED
  BY <1>1, <1>2, <1>3, <1>4, <1>5, <1>6 DEF Next, Policy!Next

\* The breaker implements the three-mode machine of CircuitPolicy although it
\* stores only two of the modes and computes half-open from the clock, and
\* although outcomes arrive in periods they were not admitted in.
THEOREM Refinement == Spec => ImplementsPolicy
<1>1. Init => Policy!Init
  BY BreakerConfig
  DEF BreakerConfig, Init, NewBreaker, CurrentState, Policy!Init
<1>2. IInv /\ [Next]_vars => [Policy!Next]_(Policy!vars)
  BY StepRefines DEF IInv
<1> QED
  BY <1>1, <1>2, Invariance, PTL DEF Spec, ImplementsPolicy, Policy!Spec

-----------------------------------------------------------------------------
(***************************************************************************)
(* The health checker.                                                     *)
(***************************************************************************)

\* A non-empty set of heights has a largest element, and Max returns it.
LEMMA MaxOfHeights ==
  ASSUME NEW S, S \subseteq Heights, S # {}
  PROVE  Max(S) \in S /\ \A h \in S : Max(S) >= h
<1> USE CheckerConfig DEF CheckerConfig, Heights
<1> DEFINE T == {MaxHeight - h : h \in S}
           R == OpToRel(<, Nat)
<1>1. T \subseteq Nat /\ T # {}
  <2>1. \A h \in S : MaxHeight - h \in Nat
    OBVIOUS
  <2>2. T # {}
    OBVIOUS
  <2> QED
    BY <2>1, <2>2
<1>2. PICK m \in T : \A t \in T : ~(<<t, m>> \in R)
  <2> HIDE DEF T
  <2> QED
    BY <1>1, NatLessThanWellFounded, WFMin, Zenon
<1>3. \A t \in T : t >= m
  <2>1. ASSUME NEW t \in T PROVE ~(t < m)
    <3>1. t \in Nat /\ m \in Nat
      BY <1>1
    <3>2. t < m => <<t, m>> \in R
      BY <3>1 DEF OpToRel
    <3> QED
      BY <1>2, <3>2
  <2> HIDE DEF R, T
  <2> QED
    BY <1>1, <2>1
<1>4. PICK g \in S : m = MaxHeight - g
  BY <1>2
<1>5. ASSUME NEW h \in S PROVE g >= h
  <2>1. MaxHeight - h \in T /\ h \in Int /\ g \in Int
    OBVIOUS
  <2>2. MaxHeight - h >= MaxHeight - g
    BY <1>3, <1>4, <2>1
  <2> QED
    BY <2>1, <2>2
<1> QED
  BY <1>4, <1>5 DEF Max

\* BestAnswer is a height that no answer exceeds.
LEMMA BestAnswerBounds ==
  ASSUME answer \in [Endpoints -> Heights]
  PROVE  BestAnswer \in Heights /\ \A e \in Endpoints : BestAnswer >= answer[e]
<1> DEFINE S == {0} \cup {answer[e] : e \in Endpoints}
<1>1. S \subseteq Heights /\ S # {}
  BY CheckerConfig DEF CheckerConfig, Heights
<1>2. \A e \in Endpoints : answer[e] \in S
  OBVIOUS
<1> HIDE DEF S
<1>3. Max(S) \in S /\ \A h \in S : Max(S) >= h
  BY <1>1, MaxOfHeights
<1>4. BestAnswer = Max(S)
  BY DEF BestAnswer, S
<1> QED
  BY <1>1, <1>2, <1>3, <1>4

-----------------------------------------------------------------------------
\* What stands for a failed check is a height.
LEMMA FailedIsHeight == Failed \in Heights
  BY CheckerConfig DEF CheckerConfig, Failed, Heights

\* The checker starts well-typed.
LEMMA CheckerInitTypes == CheckerInit => CheckerTypeOK
<1> SUFFICES ASSUME CheckerInit PROVE CheckerTypeOK
  OBVIOUS
<1>1. 0 \in Heights
  BY CheckerConfig DEF CheckerConfig, Heights
<1>2. /\ blockHeight \in [Endpoints -> Heights] /\ highestBlock \in Heights
      /\ answer \in [Endpoints -> Heights]
  BY <1>1, FailedIsHeight DEF CheckerInit
<1> QED
  BY <1>2 DEF CheckerInit, CheckerTypeOK

\* Every step of the checker, the requests and the nodes keeps the types.
LEMMA CheckerNextTypes == CheckerTypeOK /\ [CheckerNext]_checkerVars => CheckerTypeOK'
<1> SUFFICES ASSUME CheckerTypeOK, [CheckerNext]_checkerVars PROVE CheckerTypeOK'
  OBVIOUS
<1> USE DEF CheckerTypeOK
<1>1. CASE Start
  BY <1>1, FailedIsHeight DEF Start, NewRound, nodeVars
<1>2. CASE Tick
  BY <1>2, FailedIsHeight DEF Tick, NewRound, nodeVars
<1>3. ASSUME NEW e \in Endpoints, CheckEndpoint(e)
      PROVE  CheckerTypeOK'
  <2> DEFINE a == IF up[e] /\ ~cancelled THEN head[e] ELSE Failed
  <2>1. a \in Heights
    BY FailedIsHeight
  <2>2. answer' = [answer EXCEPT ![e] = a]
    BY <1>3 DEF CheckEndpoint
  <2> HIDE DEF a
  <2>3. answer' \in [Endpoints -> Heights]
    BY <2>1, <2>2
  <2> QED
    BY <1>3, <2>3 DEF CheckEndpoint, nodeVars
<1>4. ASSUME NEW e \in Endpoints, Apply(e)
      PROVE  CheckerTypeOK'
  <2>1. answer[e] \in Heights
    OBVIOUS
  <2> DEFINE ok == BestAnswer - answer[e] <= MaxBlockLag
  <2>2. ok \in BOOLEAN
    BY <2>1, BestAnswerBounds, CheckerConfig DEF CheckerConfig, Heights
  <2>3. \/ healthy' = [healthy EXCEPT ![e] = FALSE] /\ blockHeight' = blockHeight
        \/ /\ healthy' = [healthy EXCEPT ![e] = ok]
           /\ blockHeight' = [blockHeight EXCEPT ![e] = answer[e]]
    BY <1>4 DEF Apply
  <2> HIDE DEF ok
  <2>4. healthy' \in [Endpoints -> BOOLEAN] /\ blockHeight' \in [Endpoints -> Heights]
    BY <2>1, <2>2, <2>3
  <2> QED
    BY <1>4, <2>4 DEF Apply, nodeVars
<1>5. CASE UpdateHighestBlock
  BY <1>5, BestAnswerBounds DEF UpdateHighestBlock, nodeVars
<1>6. CASE Return
  BY <1>6 DEF Return, nodeVars
<1>7. CASE Stop
  BY <1>7 DEF Stop, nodeVars
<1>8. ASSUME NEW e \in Endpoints, MarkDown(e)
      PROVE  CheckerTypeOK'
  BY <1>8 DEF MarkDown, roundVars, nodeVars
<1>9. ASSUME NEW e \in Endpoints, NodeMoves(e)
      PROVE  CheckerTypeOK'
  BY <1>9 DEF NodeMoves, roundVars
<1>10. ASSUME NEW e \in Endpoints, NodeFlips(e)
       PROVE  CheckerTypeOK'
  BY <1>10 DEF NodeFlips, roundVars
<1>11. CASE UNCHANGED checkerVars
  BY <1>11 DEF checkerVars, roundVars, nodeVars
<1> QED
  BY <1>1, <1>2, <1>3, <1>4, <1>5, <1>6, <1>7, <1>8, <1>9, <1>10, <1>11
  DEF CheckerNext, Checker, Environment

\* Types are kept; answers are outstanding or pending only inside a round.
THEOREM CheckerTypeCorrect == CheckerSpec => []CheckerTypeOK
  BY CheckerInitTypes, CheckerNextTypes, PTL DEF CheckerSpec

-----------------------------------------------------------------------------
\* The inductive invariant behind LagRespected.  No answer is applied before
\* the last one is in, so the best answer is settled when flags are stored.
CheckerInv == CheckerTypeOK /\ CollectedFirst /\ AppliedAgree /\ PublishedAgrees

\* The invariant holds before the first round.
LEMMA CheckerInitInv == CheckerInit => CheckerInv
<1> SUFFICES ASSUME CheckerInit PROVE CheckerInv
  OBVIOUS
<1>1. CollectedFirst /\ AppliedAgree /\ PublishedAgrees
  BY DEF CheckerInit, CollectedFirst, AppliedAgree, PublishedAgrees
<1> QED
  BY <1>1, CheckerInitTypes DEF CheckerInv

\* The three conjuncts speak of healthy (of endpoints already treated), of
\* blockHeight, highestBlock, pc, answer, waiting and pending only, and a
\* flag that goes down cannot hurt.
LEMMA FlagsDown ==
  ASSUME CheckerInv, UNCHANGED roundVars,
         \A e \in Endpoints : healthy'[e] => healthy[e]
  PROVE  (CollectedFirst /\ AppliedAgree /\ PublishedAgrees)'
<1>1. BestAnswer' = BestAnswer
  BY DEF BestAnswer, roundVars
<1> QED
  BY <1>1 DEF CheckerInv, roundVars, CollectedFirst, AppliedAgree, PublishedAgrees

\* Every step preserves it; the work is in CheckEndpoint and Apply.
LEMMA CheckerNextInv == CheckerInv /\ [CheckerNext]_checkerVars => CheckerInv'
<1> SUFFICES ASSUME CheckerInv, [CheckerNext]_checkerVars
             PROVE  (CollectedFirst /\ AppliedAgree /\ PublishedAgrees)'
  BY CheckerNextTypes DEF CheckerInv
<1>0. CheckerTypeOK /\ CheckerTypeOK'
  BY CheckerNextTypes DEF CheckerInv
<1>1. ASSUME NewRound
      PROVE  (CollectedFirst /\ AppliedAgree /\ PublishedAgrees)'
  BY <1>1 DEF NewRound, CollectedFirst, AppliedAgree, PublishedAgrees
<1>2. ASSUME NEW e \in Endpoints, CheckEndpoint(e)
      PROVE  (CollectedFirst /\ AppliedAgree /\ PublishedAgrees)'
  <2>1. pending = Endpoints /\ pending' = pending /\ pc' = "round"
    BY <1>2 DEF CheckEndpoint, CheckerInv, CollectedFirst
  <2> QED
    BY <2>1 DEF CollectedFirst, AppliedAgree, PublishedAgrees
<1>3. ASSUME NEW e \in Endpoints, Apply(e)
      PROVE  (CollectedFirst /\ AppliedAgree /\ PublishedAgrees)'
  <2>1. BestAnswer' = BestAnswer
    BY <1>3 DEF BestAnswer, Apply
  <2>2. CollectedFirst' /\ PublishedAgrees'
    BY <1>3 DEF Apply, CollectedFirst, PublishedAgrees
  <2>3. AppliedAgree'
    <3>1. answer[e] \in Int
      BY <1>0, CheckerConfig DEF CheckerConfig, CheckerTypeOK, Heights
    <3> SUFFICES ASSUME NEW f \in Endpoints \ pending', healthy'[f]
                 PROVE  /\ answer[f] # Failed
                        /\ blockHeight'[f] = answer[f]
                        /\ BestAnswer - answer[f] <= MaxBlockLag
      BY <1>3, <2>1 DEF AppliedAgree, Apply
    <3>2. CASE f = e
      <4> DEFINE ok == BestAnswer - answer[e] <= MaxBlockLag
      <4>1. \/ answer[e] = Failed /\ healthy' = [healthy EXCEPT ![e] = FALSE]
            \/ /\ answer[e] # Failed
               /\ healthy' = [healthy EXCEPT ![e] = ok]
               /\ blockHeight' = [blockHeight EXCEPT ![e] = answer[e]]
        BY <1>3 DEF Apply
      <4> HIDE DEF ok
      <4>2. answer[e] # Failed /\ ok /\ blockHeight'[e] = answer[e]
        BY <1>0, <3>2, <4>1 DEF CheckerTypeOK
      <4> QED
        BY <3>1, <3>2, <4>2 DEF ok
    <3>3. CASE f # e
      <4>1. f \notin pending /\ healthy'[f] = healthy[f] /\ blockHeight'[f] = blockHeight[f]
        BY <1>0, <1>3, <3>3 DEF Apply, CheckerTypeOK
      <4> QED
        BY <1>3, <4>1 DEF CheckerInv, AppliedAgree, Apply
    <3> QED
      BY <3>2, <3>3
  <2> QED
    BY <2>2, <2>3
<1>4. ASSUME UpdateHighestBlock
      PROVE  (CollectedFirst /\ AppliedAgree /\ PublishedAgrees)'
  <2>1. BestAnswer' = BestAnswer
    BY <1>4 DEF BestAnswer, UpdateHighestBlock
  <2> QED
    BY <1>4, <2>1
    DEF CheckerInv, UpdateHighestBlock, CollectedFirst, AppliedAgree, PublishedAgrees
<1>5. ASSUME Return
      PROVE  (CollectedFirst /\ AppliedAgree /\ PublishedAgrees)'
  <2>1. BestAnswer' = BestAnswer
    BY <1>5 DEF BestAnswer, Return
  <2> QED
    BY <1>5, <2>1 DEF CheckerInv, Return, CollectedFirst, AppliedAgree, PublishedAgrees
<1>6. ASSUME Stop
      PROVE  (CollectedFirst /\ AppliedAgree /\ PublishedAgrees)'
  <2>1. BestAnswer' = BestAnswer
    BY <1>6 DEF BestAnswer, Stop
  <2> QED
    BY <1>6, <2>1 DEF CheckerInv, Stop, CollectedFirst, AppliedAgree, PublishedAgrees
<1>7. ASSUME NEW e \in Endpoints, MarkDown(e)
      PROVE  (CollectedFirst /\ AppliedAgree /\ PublishedAgrees)'
  <2>1. \A f \in Endpoints : healthy'[f] => healthy[f]
    BY <1>0, <1>7 DEF MarkDown, CheckerTypeOK
  <2> QED
    BY <1>7, <2>1, FlagsDown DEF MarkDown
<1>8. ASSUME NEW e \in Endpoints, NodeMoves(e) \/ NodeFlips(e)
      PROVE  (CollectedFirst /\ AppliedAgree /\ PublishedAgrees)'
  BY <1>8, FlagsDown DEF NodeMoves, NodeFlips
<1>9. ASSUME UNCHANGED checkerVars
      PROVE  (CollectedFirst /\ AppliedAgree /\ PublishedAgrees)'
  BY <1>9, FlagsDown DEF checkerVars
<1> QED
  BY <1>1, <1>2, <1>3, <1>4, <1>5, <1>6, <1>7, <1>8, <1>9
  DEF CheckerNext, Checker, Environment, Start, Tick

\* Whatever requests, nodes and Stop do meanwhile, between rounds every
\* endpoint offered to the load balancer is within MaxBlockLag of the highest
\* block published by the same round.
THEOREM LagIsRespected == CheckerSpec => []LagRespected
<1>1. CheckerInv => LagRespected
  <2> SUFFICES ASSUME CheckerInv, pc \in {"wait", "stopped"}, NEW e \in Endpoints, healthy[e]
               PROVE  blockHeight[e] # 0 /\ highestBlock - blockHeight[e] <= MaxBlockLag
    BY DEF LagRespected
  <2>1. e \in Endpoints \ pending
    BY DEF CheckerInv, CheckerTypeOK
  <2> QED
    BY <2>1 DEF CheckerInv, AppliedAgree, PublishedAgrees, Failed
<1> QED
  BY <1>1, CheckerInitInv, CheckerNextInv, PTL DEF CheckerSpec

-----------------------------------------------------------------------------
\* Answers outstanding and answers to be applied.
RoundLeft == Cardinality(waiting) + Cardinality(pending)

LEMMA RoundFinite ==
  ASSUME CheckerTypeOK
  PROVE  /\ IsFiniteSet(waiting) /\ IsFiniteSet(pending)
         /\ Cardinality(waiting) \in Nat /\ Cardinality(pending) \in Nat
         /\ Cardinality(Endpoints) \in Nat
         /\ Cardinality(waiting) <= Cardinality(Endpoints)
         /\ Cardinality(pending) <= Cardinality(Endpoints)
<1>1. IsFiniteSet(Endpoints) /\ waiting \subseteq Endpoints /\ pending \subseteq Endpoints
  BY CheckerConfig DEF CheckerConfig, CheckerTypeOK
<1> QED
  BY <1>1, FS_Subset, FS_CardinalityType

\* A round of checkAll takes two steps for each endpoint and one to publish:
\* each of its steps takes off one answer, and neither Stop, nor the nodes,
\* nor the requests that clear flags put one back.
THEOREM RoundsAreBounded ==
  CheckerSpec =>
    [][pc = "round" =>
         /\ RoundLeft \in 0..(2 * Cardinality(Endpoints))
         /\ Checker => pc' = "wait" \/ (pc' = "round" /\ RoundLeft' < RoundLeft)
         /\ ~Checker => pc' = "round" /\ RoundLeft' = RoundLeft]_checkerVars
<1> DEFINE Goal ==
      pc = "round" =>
         /\ RoundLeft \in 0..(2 * Cardinality(Endpoints))
         /\ Checker => pc' = "wait" \/ (pc' = "round" /\ RoundLeft' < RoundLeft)
         /\ ~Checker => pc' = "round" /\ RoundLeft' = RoundLeft
<1>1. CheckerTypeOK /\ [CheckerNext]_checkerVars => [Goal]_checkerVars
  <2> SUFFICES ASSUME CheckerTypeOK, CheckerNext, pc = "round" PROVE Goal
    OBVIOUS
  <2>1. RoundLeft \in 0..(2 * Cardinality(Endpoints))
    BY RoundFinite DEF RoundLeft
  <2>2. ASSUME NEW e \in Endpoints, CheckEndpoint(e) PROVE pc' = "round" /\ RoundLeft' < RoundLeft
    <3>1. pc' = "round" /\ e \in waiting /\ waiting' = waiting \ {e} /\ pending' = pending
      BY <2>2 DEF CheckEndpoint
    <3>2. Cardinality(waiting') = Cardinality(waiting) - 1
      BY <3>1, RoundFinite, FS_RemoveElement
    <3> QED
      BY <3>1, <3>2, RoundFinite DEF RoundLeft
  <2>3. ASSUME NEW e \in Endpoints, Apply(e) PROVE pc' = "round" /\ RoundLeft' < RoundLeft
    <3>1. pc' = "round" /\ e \in pending /\ pending' = pending \ {e} /\ waiting' = waiting
      BY <2>3 DEF Apply
    <3>2. Cardinality(pending') = Cardinality(pending) - 1
      BY <3>1, RoundFinite, FS_RemoveElement
    <3> QED
      BY <3>1, <3>2, RoundFinite DEF RoundLeft
  <2>4. Checker => pc' = "wait" \/ (pc' = "round" /\ RoundLeft' < RoundLeft)
    BY <2>2, <2>3 DEF Checker, Start, Tick, UpdateHighestBlock, Return
  <2>5. Environment => pc' = "round" /\ RoundLeft' = RoundLeft
    BY DEF Environment, Stop, MarkDown, NodeMoves, NodeFlips, roundVars, RoundLeft
  <2> QED
    BY <2>1, <2>4, <2>5 DEF CheckerNext
<1> QED
  BY <1>1, CheckerTypeCorrect, PTL DEF CheckerSpec
=============================================================================
