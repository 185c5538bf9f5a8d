---------------------------- MODULE BreakerMethods ----------------------------
(***************************************************************************)
(* The methods of chain.CircuitBreaker (internal/chain/circuitbreaker.go)  *)
(* as functions from one breaker value to the next.  Every method holds    *)
(* cb.mu from its first to its last statement, so each is one step.        *)
(*                                                                         *)
(* A breaker is a record.  The source keeps lastFailureTime and only ever  *)
(* evaluates time.Since(lastFailureTime) > Timeout; the record keeps that  *)
(* age in ticks as sinceFailure, saturated at Timeout + 1, beyond which    *)
(* no comparison in the source can tell two ages apart.                    *)
(*                                                                         *)
(* The source never assigns StateHalfOpen: half-open is what currentState  *)
(* reports for an open breaker whose timeout has run out.                  *)
(***************************************************************************)
EXTENDS Naturals

CONSTANTS
  FailureThreshold,     (* failures in a row that open a closed breaker  *)
  SuccessThreshold,     (* half-open successes that close it             *)
  Timeout,              (* ticks that must be exceeded before half-open  *)
  HalfOpenMaxRequests   (* requests admitted while half-open             *)

\* NewChainWithOptions replaces a zero by a positive default, so the
\* thresholds are positive; nothing relates one threshold to another.
ASSUME BreakerConfig ==
  /\ FailureThreshold \in Nat \ {0}
  /\ SuccessThreshold \in Nat \ {0}
  /\ HalfOpenMaxRequests \in Nat \ {0}
  /\ Timeout \in Nat

Breaker ==
  [state            : {"closed", "open"},
   failures         : 0..FailureThreshold,
   successes        : 0..(SuccessThreshold - 1),
   halfOpenRequests : 0..HalfOpenMaxRequests,
   sinceFailure     : 0..(Timeout + 1)]

\* NewCircuitBreaker: the zero lastFailureTime is infinitely long ago.
NewBreaker ==
  [state |-> "closed", failures |-> 0, successes |-> 0,
   halfOpenRequests |-> 0, sinceFailure |-> Timeout + 1]

-----------------------------------------------------------------------------
CurrentState(cb) ==
  IF cb.state = "open" /\ cb.sinceFailure > Timeout THEN "half-open" ELSE cb.state

\* Mutant: the counters of the previous half-open period survive a trip.
TripKeepsSuccesses(cb) ==
  [cb EXCEPT !.state = "open", !.sinceFailure = 0, !.halfOpenRequests = 0]

TripKeepsSlots(cb) ==
  [cb EXCEPT !.state = "open", !.sinceFailure = 0, !.successes = 0]

Trip(cb) ==
  [state |-> "open", failures |-> cb.failures, successes |-> 0,
   halfOpenRequests |-> 0, sinceFailure |-> 0]

ResetFields(cb) ==
  [state |-> "closed", failures |-> 0, successes |-> 0,
   halfOpenRequests |-> 0, sinceFailure |-> cb.sinceFailure]

\* What Allow returns.
Allows(cb) ==
  \/ CurrentState(cb) = "closed"
  \/ /\ CurrentState(cb) = "half-open"
     /\ cb.halfOpenRequests < HalfOpenMaxRequests

\* What Allow leaves behind: a half-open admission takes a slot.
AfterAllow(cb) ==
  IF CurrentState(cb) = "half-open" /\ Allows(cb)
  THEN [cb EXCEPT !.halfOpenRequests = @ + 1]
  ELSE cb

\* Mutant: closing asks for more than SuccessThreshold successes.
AfterSuccessStrict(cb) ==
  CASE CurrentState(cb) = "closed" -> [cb EXCEPT !.failures = 0]
    [] CurrentState(cb) = "half-open" ->
         IF cb.successes + 1 > SuccessThreshold
         THEN ResetFields(cb)
         ELSE [cb EXCEPT !.successes = @ + 1]
    [] OTHER -> cb

\* RecordSuccess.
AfterSuccess(cb) ==
  CASE CurrentState(cb) = "closed" -> [cb EXCEPT !.failures = 0]
    [] CurrentState(cb) = "half-open" ->
         IF cb.successes + 1 >= SuccessThreshold
         THEN ResetFields(cb)
         ELSE [cb EXCEPT !.successes = @ + 1]
    [] OTHER -> cb

\* RecordFailure.  trip() leaves the failure count alone.
AfterFailure(cb) ==
  CASE CurrentState(cb) = "closed" ->
         LET counted == [cb EXCEPT !.failures = @ + 1]
         IN  IF counted.failures >= FailureThreshold THEN Trip(counted) ELSE counted
    [] CurrentState(cb) = "half-open" -> Trip(cb)
    [] OTHER -> cb

\* One tick of the clock that time.Since reads.
Elapse(cb) ==
  [cb EXCEPT !.sinceFailure = IF @ > Timeout THEN @ ELSE @ + 1]
=============================================================================
