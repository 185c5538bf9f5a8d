--------------------------------- MODULE Chain ---------------------------------
(***************************************************************************)
(* The request path of a chain: Chain.Forward and Chain.ForwardWithRetry   *)
(* over Endpoint.Forward, by concurrent requests that share the endpoints' *)
(* health flags and circuit breakers with each other and with the health   *)
(* checker.                                                                *)
(*                                                                         *)
(* LoadBalancer.Next is represented by what module LoadBalancer shows of   *)
(* it: it may return any endpoint at the instant it reads its flag as      *)
(* healthy, and fails once it has read every flag as unhealthy, each at an *)
(* instant of its own (every endpoint has a positive weight).              *)
(*                                                                         *)
(* The health checker is represented by its effect on the flags: a verdict *)
(* formed from the node at one instant and stored at a later one.  Module  *)
(* HealthChecker has the rounds and heights behind it.                     *)
(*                                                                         *)
(* External: the nodes (up: answers requests in time and is in step with   *)
(* the chain), and callers that give up (cancel their context).            *)
(***************************************************************************)
EXTENDS BreakerMethods, FiniteSets

CONSTANTS
  Endpoints,
  Requests,     (* concurrent callers, each of which may call again          *)
  Methods,      (* entry points in use: both, or only the one servers call   *)
  MaxRetries    (* argument of ForwardWithRetry; both servers pass 2         *)

ASSUME ChainConfig ==
  /\ IsFiniteSet(Endpoints) /\ Endpoints # {}
  /\ IsFiniteSet(Requests)
  /\ Methods \subseteq {"Forward", "ForwardWithRetry"}
  /\ MaxRetries \in Nat

VARIABLES
  healthy,   (* Endpoint.healthy                                          *)
  cb,        (* Endpoint.circuitBreaker                                   *)
  req,       (* the locals of each request                                *)
  verdict,   (* health checker: a check's finding that is not stored yet  *)
  up,        (* external: the state of the nodes                          *)
  steady,    (* history: endpoints fit to serve at every instant so far   *)
  raised     (* history: the checker stored TRUE during the request       *)

vars == <<healthy, cb, req, verdict, up, steady, raised>>

NoRequest ==
  [pc |-> "idle", method |-> "ForwardWithRetry", attempt |-> 0, ep |-> "none",
   readDown |-> {}, ctxDone |-> FALSE, result |-> "none"]

Active(r) == req[r].pc # "idle"
Sending(e) == {r \in Requests : req[r].pc = "sending" /\ req[r].ep = e}
FitToServe(e) == up[e] /\ healthy[e] /\ CurrentState(cb[e]) = "closed"

Init ==
  /\ healthy = [e \in Endpoints |-> TRUE]
  /\ cb = [e \in Endpoints |-> NewBreaker]
  /\ req = [r \in Requests |-> NoRequest]
  /\ verdict = [e \in Endpoints |-> "none"]
  /\ up \in [Endpoints -> BOOLEAN]
  /\ steady = [r \in Requests |-> {}]
  /\ raised = [r \in Requests |-> FALSE]

-----------------------------------------------------------------------------
Goto(r, pc) == req' = [req EXCEPT ![r].pc = pc]

Finish(r, res) ==
  req' = [req EXCEPT ![r] = [NoRequest EXCEPT !.result = res]]

Begin(r, method) ==
  /\ ~Active(r)
  /\ req' = [req EXCEPT ![r] = [NoRequest EXCEPT !.pc = "next", !.method = method]]
  /\ UNCHANGED <<healthy, cb, verdict, up>>

\* LoadBalancer.Next: one load of one flag.
NextReadsDown(r, e) ==
  /\ req[r].pc = "next"
  /\ ~healthy[e] /\ e \notin req[r].readDown
  /\ IF req[r].readDown \cup {e} = Endpoints
     THEN Finish(r, "ErrNoHealthyEndpoints")
     ELSE req' = [req EXCEPT ![r].readDown = @ \cup {e}]
  /\ UNCHANGED <<healthy, cb, verdict, up>>

NextReturns(r, e) ==
  /\ req[r].pc = "next"
  /\ healthy[e]
  /\ req' = [req EXCEPT ![r].pc = "allow", ![r].ep = e, ![r].readDown = {}]
  /\ UNCHANGED <<healthy, cb, verdict, up>>

\* Endpoint.Forward fails.  Forward passes the error on.
ForwardFails(r) ==
  IF req[r].method = "Forward" THEN Finish(r, "failed") ELSE Goto(r, "failed")

\* Endpoint.Forward asks the breaker; a refusal is a failed attempt too.
Allow(r) ==
  LET e == req[r].ep
  IN  /\ req[r].pc = "allow"
      /\ cb' = [cb EXCEPT ![e] = AfterAllow(@)]
      /\ IF Allows(cb[e]) THEN Goto(r, "sending") ELSE ForwardFails(r)
      /\ UNCHANGED <<healthy, verdict, up>>

\* The node answers.  Any status code is a success to the breaker.
Respond(r) ==
  LET e == req[r].ep
  IN  /\ req[r].pc = "sending"
      /\ up[e] /\ ~req[r].ctxDone
      /\ cb' = [cb EXCEPT ![e] = AfterSuccess(@)]
      /\ Finish(r, "ok")
      /\ UNCHANGED <<healthy, verdict, up>>

\* Mutant: a call that the caller gave up on reports no outcome.
SendFailsSilently(r) ==
  LET e == req[r].ep
  IN  /\ req[r].pc = "sending"
      /\ ~up[e] \/ req[r].ctxDone
      /\ cb' = IF req[r].ctxDone THEN cb ELSE [cb EXCEPT ![e] = AfterFailure(@)]
      /\ ForwardFails(r)
      /\ UNCHANGED <<healthy, verdict, up>>

\* The transport fails, the client times out or the caller's context ends.
SendFails(r) ==
  LET e == req[r].ep
  IN  /\ req[r].pc = "sending"
      /\ ~up[e] \/ req[r].ctxDone
      /\ cb' = [cb EXCEPT ![e] = AfterFailure(@)]
      /\ ForwardFails(r)
      /\ UNCHANGED <<healthy, verdict, up>>

\* Mutant: a failed attempt leaves the endpoint in the rotation.
KeepHealthy(r) ==
  /\ req[r].pc = "failed"
  /\ IF req[r].attempt < MaxRetries THEN Goto(r, "backoff") ELSE Finish(r, "failed")
  /\ UNCHANGED <<healthy, cb, verdict, up>>

\* ep.SetHealthy(false), then the backoff or, after the last attempt, the end.
MarkDown(r) ==
  /\ req[r].pc = "failed"
  /\ healthy' = [healthy EXCEPT ![req[r].ep] = FALSE]
  /\ IF req[r].attempt < MaxRetries THEN Goto(r, "backoff") ELSE Finish(r, "failed")
  /\ UNCHANGED <<cb, verdict, up>>

\* Mutant: the attempts are not counted.
RetryForever(r) ==
  /\ req[r].pc = "backoff"
  /\ req' = [req EXCEPT ![r].pc = "next", ![r].ep = "none"]
  /\ UNCHANGED <<healthy, cb, verdict, up>>

\* The backoff's timer fires; with the context done too, select may pick it.
Retry(r) ==
  /\ req[r].pc = "backoff"
  /\ req' = [req EXCEPT ![r].pc = "next", ![r].attempt = @ + 1, ![r].ep = "none"]
  /\ UNCHANGED <<healthy, cb, verdict, up>>

\* The backoff's other case: the caller has given up.
GiveUp(r) ==
  /\ req[r].pc = "backoff" /\ req[r].ctxDone
  /\ Finish(r, "ctx.Err")
  /\ UNCHANGED <<healthy, cb, verdict, up>>

-----------------------------------------------------------------------------
\* Environment: the caller's context ends.
Cancel(r) ==
  /\ Active(r) /\ ~req[r].ctxDone
  /\ req' = [req EXCEPT ![r].ctxDone = TRUE]
  /\ UNCHANGED <<healthy, cb, verdict, up>>

\* The health checker: checkEndpoint, and later the store of its verdict.
Check(e) ==
  /\ verdict[e] = "none"
  /\ verdict' = [verdict EXCEPT ![e] = IF up[e] THEN "fit" ELSE "unfit"]
  /\ UNCHANGED <<healthy, cb, req, up>>

\* Mutant: the checker never puts an endpoint back.
StoreDownOnly(e) ==
  /\ verdict[e] # "none"
  /\ healthy' = [healthy EXCEPT ![e] = @ /\ verdict[e] = "fit"]
  /\ verdict' = [verdict EXCEPT ![e] = "none"]
  /\ UNCHANGED <<cb, req, up>>

Store(e) ==
  /\ verdict[e] # "none"
  /\ healthy' = [healthy EXCEPT ![e] = verdict[e] = "fit"]
  /\ verdict' = [verdict EXCEPT ![e] = "none"]
  /\ UNCHANGED <<cb, req, up>>

\* Environment: the clock of the breakers, and the nodes.
TimePasses ==
  /\ cb' = [e \in Endpoints |-> Elapse(cb[e])]
  /\ UNCHANGED <<healthy, req, verdict, up>>

NodeFlips(e) ==
  /\ up' = [up EXCEPT ![e] = ~@]
  /\ UNCHANGED <<healthy, cb, req, verdict>>

RequestStep(r) ==
  \/ \E e \in Endpoints : NextReadsDown(r, e) \/ NextReturns(r, e)
  \/ Allow(r) \/ Respond(r) \/ SendFails(r)
  \/ MarkDown(r) \/ Retry(r) \/ GiveUp(r)

Step ==
  \/ \E r \in Requests :
       \/ \E method \in Methods : Begin(r, method)
       \/ RequestStep(r)
       \/ Cancel(r)
  \/ \E e \in Endpoints : Check(e) \/ Store(e) \/ NodeFlips(e)
  \/ TimePasses

\* The history of a request starts with it and follows every step.
Remember ==
  /\ steady' = [r \in Requests |->
       IF ~Active(r)' THEN {}
       ELSE {e \in IF Active(r) THEN steady[r] ELSE Endpoints : FitToServe(e)'}]
  /\ raised' = [r \in Requests |->
       Active(r)' /\ (raised[r] \/ \E e \in Endpoints : ~healthy[e] /\ healthy'[e])]

Next == Step /\ Remember

Spec == Init /\ [][Next]_vars

\* Every started call gets on (the client has a timeout, the backoff a timer,
\* Next a finite scan), callers keep coming, the clock runs, the checker
\* ticks.  Nobody has to cancel and no node has to change.
Fairness ==
  /\ \A r \in Requests :
       /\ WF_vars(RequestStep(r) /\ Remember)
       /\ WF_vars((\E method \in Methods : Begin(r, method)) /\ Remember)
  /\ \A e \in Endpoints : WF_vars(Check(e) /\ Remember) /\ WF_vars(Store(e) /\ Remember)
  /\ WF_vars(TimePasses /\ Remember)

FairSpec == Spec /\ Fairness

-----------------------------------------------------------------------------
\* Every path through Endpoint.Forward reports exactly one outcome of each
\* admitted call, so each endpoint's breaker behaves as module CircuitBreaker
\* says, with the requests being sent through the endpoint in flight.
EndpointBreaker(e) == INSTANCE CircuitBreaker WITH
  cb <- cb[e], inFlight <- Sending(e)

BreakersUsedProperly ==
  /\ \A e \in Endpoints : EndpointBreaker(e)!Init
  /\ [][\A e \in Endpoints :
          [EndpointBreaker(e)!Next]_(EndpointBreaker(e)!vars)]_vars

\* Failover: if some endpoint was fit to serve throughout a request, the
\* request succeeds, provided it may try every endpoint, nobody cancels it
\* and no verdict of the checker brings an endpoint back meanwhile.
Failover ==
  [][\A r \in Requests :
       (/\ Active(r) /\ ~Active(r)' /\ req'[r].result # "ok"
        /\ req[r].method = "ForwardWithRetry" /\ ~req[r].ctxDone
        /\ MaxRetries + 1 >= Cardinality(Endpoints)
        /\ ~raised[r]) => steady[r] = {}]_vars

\* Every request is answered or fails.
Terminates == \A r \in Requests : Active(r) ~> ~Active(r)

\* Once the nodes are back for good and nobody cancels any more, requests
\* succeed again and again: flags, breakers and the checker cannot hold each
\* other down (a refusing breaker clears the flag the checker sets).
ServiceRecovers ==
  <>[]((\A e \in Endpoints : up[e]) /\ (\A r \in Requests : ~req[r].ctxDone))
    => []<>(\E r \in Requests : req[r].result = "ok")
=============================================================================
