---------------------------- MODULE CircuitPolicy ----------------------------
(***************************************************************************)
(* What a circuit breaker promises its callers, as an explicit three-mode  *)
(* machine: closed, open and half-open are stored modes, every mode        *)
(* carries only the allowance that matters in it, and an allowance is      *)
(* granted afresh whenever its mode is entered.  The transitions are taken *)
(* when a threshold is reached, as in the source; docs/ARCHITECTURE.md     *)
(* draws the same machine but has them exceeded.  An outcome counts in the *)
(* mode it arrives in, whichever mode admitted the request.                *)
(***************************************************************************)
EXTENDS Naturals

CONSTANTS Requests, FailureThreshold, SuccessThreshold, Timeout, HalfOpenMaxRequests

VARIABLES
  mode,      (* "closed", "open" or "half-open"                          *)
  strikes,   (* closed: failures in a row still tolerated                *)
  wait,      (* open: ticks until half-open                              *)
  budget,    (* half-open: requests that may still be admitted           *)
  evidence,  (* half-open: successes still missing before closing        *)
  inFlight   (* admitted requests whose outcome is not known yet         *)

vars == <<mode, strikes, wait, budget, evidence, inFlight>>

EnterClosed ==
  /\ mode' = "closed"
  /\ strikes' = FailureThreshold
  /\ wait' = 0 /\ budget' = 0 /\ evidence' = 0

EnterOpen ==
  /\ mode' = "open"
  /\ wait' = Timeout + 1
  /\ strikes' = 0 /\ budget' = 0 /\ evidence' = 0

EnterHalfOpen ==
  /\ mode' = "half-open"
  /\ budget' = HalfOpenMaxRequests
  /\ evidence' = SuccessThreshold
  /\ strikes' = 0 /\ wait' = 0

Init ==
  /\ mode = "closed" /\ strikes = FailureThreshold
  /\ wait = 0 /\ budget = 0 /\ evidence = 0
  /\ inFlight = {}

-----------------------------------------------------------------------------
\* Nobody is admitted while open; half-open admissions draw on the budget.
Admit(r) ==
  /\ r \notin inFlight
  /\ inFlight' = inFlight \cup {r}
  /\ \/ mode = "closed" /\ UNCHANGED budget
     \/ mode = "half-open" /\ budget > 0 /\ budget' = budget - 1
  /\ UNCHANGED <<mode, strikes, wait, evidence>>

Good(r) ==
  /\ r \in inFlight
  /\ inFlight' = inFlight \ {r}
  /\ \/ /\ mode = "closed"
        /\ strikes' = FailureThreshold
        /\ UNCHANGED <<mode, wait, budget, evidence>>
     \/ /\ mode = "half-open" /\ evidence > 1
        /\ evidence' = evidence - 1
        /\ UNCHANGED <<mode, strikes, wait, budget>>
     \/ mode = "half-open" /\ evidence = 1 /\ EnterClosed
     \/ mode = "open" /\ UNCHANGED <<mode, strikes, wait, budget, evidence>>

Bad(r) ==
  /\ r \in inFlight
  /\ inFlight' = inFlight \ {r}
  /\ \/ /\ mode = "closed" /\ strikes > 1
        /\ strikes' = strikes - 1
        /\ UNCHANGED <<mode, wait, budget, evidence>>
     \/ mode = "closed" /\ strikes = 1 /\ EnterOpen
     \/ mode = "half-open" /\ EnterOpen
     \/ mode = "open" /\ UNCHANGED <<mode, strikes, wait, budget, evidence>>

ManualReset == EnterClosed /\ UNCHANGED inFlight

Tick ==
  /\ mode = "open"
  /\ \/ /\ wait > 1
        /\ wait' = wait - 1
        /\ UNCHANGED <<mode, strikes, budget, evidence>>
     \/ wait = 1 /\ EnterHalfOpen
  /\ UNCHANGED inFlight

Next ==
  \/ \E r \in Requests : Admit(r) \/ Good(r) \/ Bad(r)
  \/ ManualReset
  \/ Tick

Spec == Init /\ [][Next]_vars
=============================================================================
