---------------------------- MODULE CircuitBreaker ----------------------------
(***************************************************************************)
(* One circuit breaker shared by the goroutines that call through it.      *)
(* Execute and Endpoint.Forward use it the same way: Allow, then the call  *)
(* without the lock, then exactly one of RecordSuccess and RecordFailure.  *)
(* Between the two, other goroutines, the clock and Reset take steps, so   *)
(* an outcome may be recorded in a period it was not admitted in.          *)
(***************************************************************************)
EXTENDS BreakerMethods, FiniteSets

CONSTANT Requests  (* callers; a caller that got its outcome may call again *)

VARIABLES
  cb,        (* the breaker's fields                               *)
  inFlight   (* callers between Allow and the record of an outcome *)

vars == <<cb, inFlight>>

Init ==
  /\ cb = NewBreaker
  /\ inFlight = {}

-----------------------------------------------------------------------------
\* A refused caller gets ErrCircuitOpen and leaves nothing behind.
Allow(r) ==
  /\ r \notin inFlight
  /\ cb' = AfterAllow(cb)
  /\ inFlight' = IF Allows(cb) THEN inFlight \cup {r} ELSE inFlight

RecordSuccess(r) ==
  /\ r \in inFlight
  /\ cb' = AfterSuccess(cb)
  /\ inFlight' = inFlight \ {r}

RecordFailure(r) ==
  /\ r \in inFlight
  /\ cb' = AfterFailure(cb)
  /\ inFlight' = inFlight \ {r}

Reset ==
  /\ cb' = ResetFields(cb)
  /\ UNCHANGED inFlight

TimePasses ==
  /\ cb' = Elapse(cb)
  /\ UNCHANGED inFlight

Next ==
  \/ \E r \in Requests : Allow(r) \/ RecordSuccess(r) \/ RecordFailure(r)
  \/ Reset
  \/ TimePasses

Spec == Init /\ [][Next]_vars

\* Time passes, a call returns (the HTTP client has a timeout) and there is
\* always another caller.  Reset is never forced.
Fairness ==
  /\ WF_vars(TimePasses)
  /\ \A r \in Requests : WF_vars(RecordSuccess(r) \/ RecordFailure(r))
  /\ WF_vars(\E r \in Requests : Allow(r))

FairSpec == Spec /\ Fairness

-----------------------------------------------------------------------------
\* The fields stay in their ranges: in particular no counter outlives the
\* threshold at which RecordSuccess, RecordFailure or Allow must act on it.
TypeOK ==
  /\ cb \in Breaker
  /\ inFlight \subseteq Requests

\* The inductive strengthening: what the counters of a period can rely on.
\* Every half-open slot taken since the last trip was given back as a
\* success or is still held by a caller in flight.
SlotsAccounted ==
  /\ IsFiniteSet(inFlight)
  /\ cb.halfOpenRequests <= cb.successes + Cardinality(inFlight)

CountersFresh ==
  /\ CurrentState(cb) # "half-open" => cb.halfOpenRequests = 0 /\ cb.successes = 0
  /\ cb.state = "closed" => cb.failures < FailureThreshold

\* A half-open breaker that admits nobody is waiting for the outcome of a
\* call that is really in flight; it never refuses everybody for good.
\* (Allow's slot counter is never decremented: circuitbreaker.go:99-103.)
NoWedge ==
  (CurrentState(cb) = "half-open" /\ ~Allows(cb)) => inFlight # {}

\* Under traffic a half-open breaker always comes to a verdict.
LeavesHalfOpen ==
  (CurrentState(cb) = "half-open") ~> (CurrentState(cb) # "half-open")

-----------------------------------------------------------------------------
\* The lazily computed half-open state implements the explicit machine:
\* period counters are fresh on entry, evidence is successes recorded in this
\* period, a trip needs FailureThreshold failures in a row, an open breaker
\* admits nobody for more than Timeout ticks, and a half-open one at most
\* HalfOpenMaxRequests.
Policy == INSTANCE CircuitPolicy WITH
  mode     <- CurrentState(cb),
  strikes  <- IF cb.state = "closed" THEN FailureThreshold - cb.failures ELSE 0,
  wait     <- IF CurrentState(cb) = "open" THEN Timeout + 1 - cb.sinceFailure ELSE 0,
  budget   <- IF CurrentState(cb) = "half-open"
              THEN HalfOpenMaxRequests - cb.halfOpenRequests ELSE 0,
  evidence <- IF CurrentState(cb) = "half-open"
              THEN SuccessThreshold - cb.successes ELSE 0

ImplementsPolicy == Policy!Spec
=============================================================================
