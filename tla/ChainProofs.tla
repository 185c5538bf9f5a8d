------------------------------ MODULE ChainProofs ------------------------------
(***************************************************************************)
(* What TLAPS proves about the request path for every set of endpoints and *)
(* of requests, every number of retries and every breaker configuration.   *)
(***************************************************************************)
EXTENDS Chain, FiniteSetTheorems, TLAPS

Request ==
  [pc : {"idle", "next", "allow", "sending", "failed", "backoff"},
   method : {"Forward", "ForwardWithRetry"},
   attempt : Nat,
   ep : Endpoints \cup {"none"},
   readDown : SUBSET Endpoints,
   ctxDone : BOOLEAN,
   result : {"none", "ok", "failed", "ErrNoHealthyEndpoints", "ctx.Err"}]

\* Breakers are as module CircuitBreaker says; here they only have to be
\* there, one for every endpoint.
TypeOK ==
  /\ healthy \in [Endpoints -> BOOLEAN]
  /\ cb = [e \in Endpoints |-> cb[e]]
  /\ req \in [Requests -> Request]
  /\ \A r \in Requests : req[r].pc \in {"allow", "sending", "failed"} => req[r].ep \in Endpoints

\* An endpoint is out of the rotation.
Down == {e \in Endpoints : ~healthy[e]}

-----------------------------------------------------------------------------
\* What the steps make of the locals of a request.
LEMMA NoRequestFields ==
  /\ NoRequest \in Request
  /\ NoRequest.pc = "idle" /\ NoRequest.attempt = 0 /\ NoRequest.readDown = {}
<1>1. NoRequest \in Request
  BY DEF NoRequest, Request
<1>2. NoRequest.pc = "idle" /\ NoRequest.attempt = 0 /\ NoRequest.readDown = {}
  BY DEF NoRequest
<1> QED
  BY <1>1, <1>2

LEMMA FinishFields ==
  ASSUME TypeOK, NEW r \in Requests, NEW res \in {"ok", "failed", "ErrNoHealthyEndpoints", "ctx.Err"},
         Finish(r, res)
  PROVE  /\ req' \in [Requests -> Request]
         /\ req'[r].pc = "idle" /\ req'[r].result = res
         /\ req'[r].attempt = 0 /\ req'[r].readDown = {}
         /\ \A q \in Requests \ {r} : req'[q] = req[q]
<1> DEFINE new == [NoRequest EXCEPT !.result = res]
<1>1. /\ new \in Request /\ new.pc = "idle" /\ new.result = res
      /\ new.attempt = 0 /\ new.readDown = {}
  <2>1. new \in Request
    BY NoRequestFields DEF Request
  <2>2. new.pc = "idle" /\ new.result = res /\ new.attempt = 0 /\ new.readDown = {}
    BY NoRequestFields DEF Request
  <2> QED
    BY <2>1, <2>2
<1>2. req' = [req EXCEPT ![r] = new]
  BY DEF Finish
<1> HIDE DEF new
<1> QED
  BY <1>1, <1>2 DEF TypeOK

LEMMA BeginFields ==
  ASSUME TypeOK, NEW r \in Requests, NEW method \in Methods, Begin(r, method)
  PROVE  /\ req' \in [Requests -> Request]
         /\ req[r].pc = "idle" /\ req'[r].pc = "next"
         /\ req'[r].attempt = 0 /\ req'[r].readDown = {}
         /\ \A q \in Requests \ {r} : req'[q] = req[q]
<1> DEFINE new == [NoRequest EXCEPT !.pc = "next", !.method = method]
<1>0. method \in {"Forward", "ForwardWithRetry"}
  BY ChainConfig DEF ChainConfig
<1>1. new \in Request /\ new.pc = "next" /\ new.attempt = 0 /\ new.readDown = {}
  <2>1. new \in Request
    BY <1>0, NoRequestFields DEF Request
  <2>2. new.pc = "next" /\ new.attempt = 0 /\ new.readDown = {}
    BY NoRequestFields DEF Request
  <2> QED
    BY <2>1, <2>2
<1>2. req' = [req EXCEPT ![r] = new] /\ req[r].pc = "idle"
  BY DEF Begin, Active
<1> HIDE DEF new
<1> QED
  BY <1>1, <1>2 DEF TypeOK

LEMMA GotoFields ==
  ASSUME TypeOK, NEW r \in Requests,
         NEW pc \in {"next", "allow", "sending", "failed", "backoff"}, Goto(r, pc)
  PROVE  /\ req' \in [Requests -> Request]
         /\ req'[r] = [req[r] EXCEPT !.pc = pc]
         /\ req'[r].pc = pc /\ req'[r].ep = req[r].ep /\ req'[r].attempt = req[r].attempt
         /\ req'[r].readDown = req[r].readDown /\ req'[r].ctxDone = req[r].ctxDone
         /\ \A q \in Requests \ {r} : req'[q] = req[q]
<1> DEFINE new == [req[r] EXCEPT !.pc = pc]
<1>1. req[r] \in Request
  BY DEF TypeOK
<1>2. new \in Request
  BY <1>1 DEF Request
<1>3. /\ new.pc = pc /\ new.ep = req[r].ep /\ new.attempt = req[r].attempt
      /\ new.readDown = req[r].readDown /\ new.ctxDone = req[r].ctxDone
  BY <1>1 DEF Request
<1>4. req' = [req EXCEPT ![r] = new]
  BY DEF Goto
<1>5. req'[r] = new
  BY <1>4 DEF TypeOK
<1> HIDE DEF new
<1>6. req' \in [Requests -> Request] /\ \A q \in Requests \ {r} : req'[q] = req[q]
  BY <1>2, <1>4 DEF TypeOK
<1> QED
  BY <1>3, <1>5, <1>6 DEF new

LEMMA ReadsDownFields ==
  ASSUME TypeOK, NEW r \in Requests, NEW e \in Endpoints,
         req' = [req EXCEPT ![r].readDown = @ \cup {e}]
  PROVE  /\ req' \in [Requests -> Request]
         /\ req'[r].pc = req[r].pc /\ req'[r].ep = req[r].ep /\ req'[r].attempt = req[r].attempt
         /\ req'[r].readDown = req[r].readDown \cup {e} /\ req'[r].ctxDone = req[r].ctxDone
         /\ \A q \in Requests \ {r} : req'[q] = req[q]
<1> DEFINE new == [req[r] EXCEPT !.readDown = req[r].readDown \cup {e}]
<1>1. req[r] \in Request
  BY DEF TypeOK
<1>2. new \in Request
  BY <1>1 DEF Request
<1>3. /\ new.pc = req[r].pc /\ new.ep = req[r].ep /\ new.attempt = req[r].attempt
      /\ new.readDown = req[r].readDown \cup {e} /\ new.ctxDone = req[r].ctxDone
  BY <1>1 DEF Request
<1>4. req' = [req EXCEPT ![r] = new]
  OBVIOUS
<1> HIDE DEF new
<1> QED
  BY <1>2, <1>3, <1>4 DEF TypeOK

LEMMA ReturnsFields ==
  ASSUME TypeOK, NEW r \in Requests, NEW e \in Endpoints, NextReturns(r, e)
  PROVE  /\ req' \in [Requests -> Request]
         /\ req'[r].pc = "allow" /\ req'[r].ep = e /\ req'[r].attempt = req[r].attempt
         /\ req'[r].readDown = {} /\ req'[r].ctxDone = req[r].ctxDone
         /\ \A q \in Requests \ {r} : req'[q] = req[q]
<1> DEFINE new == [req[r] EXCEPT !.pc = "allow", !.ep = e, !.readDown = {}]
<1>1. req[r] \in Request
  BY DEF TypeOK
<1>2. new \in Request
  BY <1>1 DEF Request
<1>3. /\ new.pc = "allow" /\ new.ep = e /\ new.attempt = req[r].attempt
      /\ new.readDown = {} /\ new.ctxDone = req[r].ctxDone
  BY <1>1 DEF Request
<1>4. req' = [req EXCEPT ![r] = new]
  BY DEF NextReturns
<1> HIDE DEF new
<1> QED
  BY <1>2, <1>3, <1>4 DEF TypeOK

LEMMA RetryFields ==
  ASSUME TypeOK, NEW r \in Requests, Retry(r)
  PROVE  /\ req' \in [Requests -> Request]
         /\ req'[r].pc = "next" /\ req'[r].attempt = req[r].attempt + 1
         /\ req'[r].readDown = req[r].readDown /\ req'[r].ctxDone = req[r].ctxDone
         /\ \A q \in Requests \ {r} : req'[q] = req[q]
<1> DEFINE new == [req[r] EXCEPT !.pc = "next", !.attempt = req[r].attempt + 1, !.ep = "none"]
<1>1. req[r] \in Request
  BY DEF TypeOK
<1>2. new \in Request
  <2>1. req[r].attempt + 1 \in Nat
    BY <1>1 DEF Request
  <2> QED
    BY <1>1, <2>1 DEF Request
<1>3. /\ new.pc = "next" /\ new.attempt = req[r].attempt + 1
      /\ new.readDown = req[r].readDown /\ new.ctxDone = req[r].ctxDone
  BY <1>1 DEF Request
<1>4. req' = [req EXCEPT ![r] = new]
  BY DEF Retry
<1> HIDE DEF new
<1> QED
  BY <1>2, <1>3, <1>4 DEF TypeOK

LEMMA CancelFields ==
  ASSUME TypeOK, NEW r \in Requests, Cancel(r)
  PROVE  /\ req' \in [Requests -> Request]
         /\ req'[r].pc = req[r].pc /\ req'[r].ep = req[r].ep /\ req'[r].ctxDone
         /\ req'[r].attempt = req[r].attempt /\ req'[r].readDown = req[r].readDown
         /\ \A q \in Requests \ {r} : req'[q] = req[q]
<1> DEFINE new == [req[r] EXCEPT !.ctxDone = TRUE]
<1>1. req[r] \in Request
  BY DEF TypeOK
<1>2. new \in Request
  BY <1>1 DEF Request
<1>3. /\ new.pc = req[r].pc /\ new.ep = req[r].ep
      /\ new.attempt = req[r].attempt /\ new.readDown = req[r].readDown
  BY <1>1 DEF Request
<1>4. new.ctxDone
  BY <1>1 DEF Request
<1>5. req' = [req EXCEPT ![r] = new]
  BY DEF Cancel
<1> HIDE DEF new
<1> QED
  BY <1>2, <1>3, <1>4, <1>5 DEF TypeOK

\* A request's step leaves the locals of the others alone.
LEMMA OnlyItsOwn ==
  ASSUME TypeOK, NEW r \in Requests,
         \/ \E method \in Methods : Begin(r, method)
         \/ RequestStep(r)
         \/ Cancel(r)
  PROVE  \A q \in Requests \ {r} : req'[q] = req[q]
<1> DEFINE Goal == \A q \in Requests \ {r} : req'[q] = req[q]
<1>1. ASSUME NEW res \in {"ok", "failed", "ErrNoHealthyEndpoints", "ctx.Err"}, Finish(r, res) PROVE Goal
  BY <1>1, FinishFields
<1>2. ASSUME NEW pc \in {"next", "allow", "sending", "failed", "backoff"}, Goto(r, pc) PROVE Goal
  BY <1>2, GotoFields
<1>3. CASE \E method \in Methods : Begin(r, method)
  BY <1>3, BeginFields
<1>4. ASSUME NEW e \in Endpoints, NextReadsDown(r, e) PROVE Goal
  BY <1>1, <1>4, ReadsDownFields DEF NextReadsDown
<1>5. ASSUME NEW e \in Endpoints, NextReturns(r, e) PROVE Goal
  BY <1>5, ReturnsFields
<1>6. CASE Allow(r) \/ SendFails(r)
  BY <1>1, <1>2, <1>6 DEF Allow, SendFails, ForwardFails
<1>7. CASE Respond(r) \/ GiveUp(r)
  BY <1>1, <1>7 DEF Respond, GiveUp
<1>8. CASE MarkDown(r)
  BY <1>1, <1>2, <1>8 DEF MarkDown
<1>9. CASE Retry(r)
  BY <1>9, RetryFields
<1>10. CASE Cancel(r)
  BY <1>10, CancelFields
<1> QED
  BY <1>3, <1>4, <1>5, <1>6, <1>7, <1>8, <1>9, <1>10 DEF RequestStep

-----------------------------------------------------------------------------
LEMMA InitTypes == Init => TypeOK
<1> SUFFICES ASSUME Init PROVE TypeOK
  OBVIOUS
<1>1. healthy \in [Endpoints -> BOOLEAN] /\ cb = [e \in Endpoints |-> cb[e]]
  BY DEF Init
<1>2. req \in [Requests -> Request] /\ \A r \in Requests : req[r].pc = "idle"
  BY NoRequestFields DEF Init
<1> QED
  BY <1>1, <1>2 DEF TypeOK

\* A step that moves one request on, to a place where it has an endpoint.
LEMMA OneRequestTypes ==
  ASSUME TypeOK, NEW r \in Requests, req' \in [Requests -> Request],
         \A q \in Requests \ {r} : req'[q] = req[q],
         req'[r].pc \in {"allow", "sending", "failed"} => req'[r].ep \in Endpoints,
         healthy' \in [Endpoints -> BOOLEAN], cb' = [e \in Endpoints |-> cb'[e]]
  PROVE  TypeOK'
  BY DEF TypeOK

LEMMA NextTypes == TypeOK /\ [Next]_vars => TypeOK'
<1> SUFFICES ASSUME TypeOK, [Next]_vars PROVE TypeOK'
  OBVIOUS
<1>0. healthy \in [Endpoints -> BOOLEAN] /\ cb = [e \in Endpoints |-> cb[e]]
  BY DEF TypeOK
<1>1. ASSUME NEW r \in Requests, NEW method \in Methods, Begin(r, method) PROVE TypeOK'
  <2>1. healthy' = healthy /\ cb' = cb
    BY <1>1 DEF Begin
  <2> QED
    BY <1>0, <1>1, <2>1, BeginFields, OneRequestTypes
<1>2. ASSUME NEW r \in Requests, NEW e \in Endpoints, NextReadsDown(r, e) PROVE TypeOK'
  <2>1. healthy' = healthy /\ cb' = cb /\ req[r].pc = "next"
    BY <1>2 DEF NextReadsDown
  <2>2. CASE Finish(r, "ErrNoHealthyEndpoints")
    BY <1>0, <2>1, <2>2, FinishFields, OneRequestTypes
  <2>3. CASE req' = [req EXCEPT ![r].readDown = @ \cup {e}]
    BY <1>0, <2>1, <2>3, ReadsDownFields, OneRequestTypes
  <2> QED
    BY <1>2, <2>2, <2>3 DEF NextReadsDown
<1>3. ASSUME NEW r \in Requests, NEW e \in Endpoints, NextReturns(r, e) PROVE TypeOK'
  <2>1. healthy' = healthy /\ cb' = cb
    BY <1>3 DEF NextReturns
  <2> QED
    BY <1>0, <1>3, <2>1, ReturnsFields, OneRequestTypes
<1>4. ASSUME NEW r \in Requests, req[r].ep \in Endpoints,
             Goto(r, "sending") \/ ForwardFails(r),
             healthy' = healthy, cb' = [e \in Endpoints |-> cb'[e]]
      PROVE  TypeOK'
  <2>1. CASE Finish(r, "failed")
    BY <1>0, <1>4, <2>1, FinishFields, OneRequestTypes
  <2>2. CASE Goto(r, "failed")
    BY <1>0, <1>4, <2>2, GotoFields, OneRequestTypes
  <2>3. CASE Goto(r, "sending")
    BY <1>0, <1>4, <2>3, GotoFields, OneRequestTypes
  <2> QED
    BY <1>4, <2>1, <2>2, <2>3 DEF ForwardFails
<1>5. ASSUME NEW r \in Requests, Allow(r) \/ SendFails(r) PROVE TypeOK'
  <2>1. req[r].ep \in Endpoints
    BY <1>5 DEF Allow, SendFails, TypeOK
  <2>2. cb' = [e \in Endpoints |-> cb'[e]]
    BY <1>0, <1>5 DEF Allow, SendFails
  <2>3. healthy' = healthy
    BY <1>5 DEF Allow, SendFails
  <2>4. Goto(r, "sending") \/ ForwardFails(r)
    BY <1>5 DEF Allow, SendFails
  <2> QED
    BY <1>4, <2>1, <2>2, <2>3, <2>4
<1>6. ASSUME NEW r \in Requests, Respond(r) PROVE TypeOK'
  <2>1. cb' = [e \in Endpoints |-> cb'[e]] /\ healthy' = healthy /\ Finish(r, "ok")
    BY <1>0, <1>6 DEF Respond
  <2> QED
    BY <1>0, <2>1, FinishFields, OneRequestTypes
<1>7. ASSUME NEW r \in Requests, MarkDown(r) PROVE TypeOK'
  <2>1. healthy' \in [Endpoints -> BOOLEAN] /\ cb' = cb
    BY <1>0, <1>7 DEF MarkDown
  <2>2. CASE Finish(r, "failed")
    BY <1>0, <2>1, <2>2, FinishFields, OneRequestTypes
  <2>3. CASE Goto(r, "backoff")
    BY <1>0, <2>1, <2>3, GotoFields, OneRequestTypes
  <2> QED
    BY <1>7, <2>2, <2>3 DEF MarkDown
<1>8. ASSUME NEW r \in Requests, Retry(r) PROVE TypeOK'
  <2>1. healthy' = healthy /\ cb' = cb
    BY <1>8 DEF Retry
  <2> QED
    BY <1>0, <1>8, <2>1, RetryFields, OneRequestTypes
<1>9. ASSUME NEW r \in Requests, GiveUp(r) PROVE TypeOK'
  <2>1. healthy' = healthy /\ cb' = cb /\ Finish(r, "ctx.Err")
    BY <1>9 DEF GiveUp
  <2> QED
    BY <1>0, <2>1, FinishFields, OneRequestTypes
<1>10. ASSUME NEW r \in Requests, Cancel(r) PROVE TypeOK'
  <2>1. healthy' = healthy /\ cb' = cb
    BY <1>10 DEF Cancel
  <2>2. req'[r].pc \in {"allow", "sending", "failed"} => req'[r].ep \in Endpoints
    BY <1>10, CancelFields DEF TypeOK
  <2> QED
    BY <1>0, <1>10, <2>1, <2>2, CancelFields, OneRequestTypes
<1>11. ASSUME NEW e \in Endpoints, Check(e) \/ NodeFlips(e) PROVE TypeOK'
  BY <1>11 DEF Check, NodeFlips, TypeOK
<1>12. ASSUME NEW e \in Endpoints, Store(e) PROVE TypeOK'
  <2>1. (verdict[e] = "fit") \in BOOLEAN
    OBVIOUS
  <2>2. healthy' = [healthy EXCEPT ![e] = (verdict[e] = "fit")]
    BY <1>12 DEF Store
  <2>3. healthy' \in [Endpoints -> BOOLEAN]
    BY <1>0, <2>1, <2>2, Zenon
  <2>4. cb' = cb /\ req' = req
    BY <1>12 DEF Store
  <2> QED
    BY <2>3, <2>4 DEF TypeOK
<1>13. CASE TimePasses
  BY <1>13 DEF TimePasses, TypeOK
<1>14. CASE UNCHANGED vars
  BY <1>14 DEF vars, TypeOK
<1> QED
  BY <1>1, <1>2, <1>3, <1>5, <1>6, <1>7, <1>8, <1>9, <1>10, <1>11, <1>12, <1>13, <1>14
  DEF Next, Step, RequestStep

LEMMA Types == Spec => []TypeOK
  BY InitTypes, NextTypes, PTL DEF Spec

-----------------------------------------------------------------------------
(***************************************************************************)
(* The breakers.                                                           *)
(***************************************************************************)

\* The methods of an endpoint's breaker are those of BreakerMethods.
LEMMA SameMethods ==
  ASSUME NEW e
  PROVE  /\ EndpointBreaker(e)!NewBreaker = NewBreaker
         /\ \A b : /\ EndpointBreaker(e)!Allows(b) <=> Allows(b)
                   /\ EndpointBreaker(e)!AfterAllow(b) = AfterAllow(b)
                   /\ EndpointBreaker(e)!AfterSuccess(b) = AfterSuccess(b)
                   /\ EndpointBreaker(e)!AfterFailure(b) = AfterFailure(b)
                   /\ EndpointBreaker(e)!Elapse(b) = Elapse(b)
<1>1. EndpointBreaker(e)!NewBreaker = NewBreaker
  BY Zenon DEF EndpointBreaker!NewBreaker, NewBreaker
<1>2. \A b : EndpointBreaker(e)!CurrentState(b) = CurrentState(b)
  BY Zenon DEF EndpointBreaker!CurrentState, CurrentState
<1>3. \A b : EndpointBreaker(e)!Allows(b) <=> Allows(b)
  BY <1>2, Zenon DEF EndpointBreaker!Allows, Allows
<1>4. \A b : EndpointBreaker(e)!AfterAllow(b) = AfterAllow(b)
  BY Zenon
  DEF EndpointBreaker!AfterAllow, AfterAllow, EndpointBreaker!Allows, Allows,
      EndpointBreaker!CurrentState, CurrentState
<1>5. \A b : EndpointBreaker(e)!Trip(b) = Trip(b) /\ EndpointBreaker(e)!ResetFields(b) = ResetFields(b)
  BY Zenon DEF EndpointBreaker!Trip, Trip, EndpointBreaker!ResetFields, ResetFields
<1>6. \A b : EndpointBreaker(e)!AfterSuccess(b) = AfterSuccess(b)
  BY <1>2, <1>5, Zenon DEF EndpointBreaker!AfterSuccess, AfterSuccess
<1>7. \A b : EndpointBreaker(e)!AfterFailure(b) = AfterFailure(b)
  BY Zenon
  DEF EndpointBreaker!AfterFailure, AfterFailure, EndpointBreaker!Trip, Trip,
      EndpointBreaker!CurrentState, CurrentState
<1>8. \A b : EndpointBreaker(e)!Elapse(b) = Elapse(b)
  BY Zenon DEF EndpointBreaker!Elapse, Elapse
<1> QED
  BY <1>1, <1>3, <1>4, <1>6, <1>7, <1>8

\* A request that is and stays elsewhere is not being sent.
LEMMA SameSending ==
  ASSUME NEW r \in Requests, req[r].pc # "sending", req'[r].pc # "sending",
         \A q \in Requests \ {r} : req'[q] = req[q]
  PROVE  \A e \in Endpoints : Sending(e)' = Sending(e)
  BY DEF Sending

\* A request that has been sent, well or not, leaves its endpoint.
LEMMA SentAway ==
  ASSUME NEW r \in Requests, req[r].pc = "sending", req'[r].pc # "sending",
         \A q \in Requests \ {r} : req'[q] = req[q]
  PROVE  \A e \in Endpoints : /\ Sending(e)' = Sending(e) \ {r}
                              /\ e # req[r].ep => Sending(e)' = Sending(e)
                              /\ e = req[r].ep => r \in Sending(e)
  BY DEF Sending

LEMMA BreakerStep ==
  ASSUME TypeOK, [Next]_vars, NEW e \in Endpoints
  PROVE  EndpointBreaker(e)!Next \/ (cb'[e] = cb[e] /\ Sending(e)' = Sending(e))
<1> DEFINE Goal == EndpointBreaker(e)!Next \/ (cb'[e] = cb[e] /\ Sending(e)' = Sending(e))
<1>0. cb = [f \in Endpoints |-> cb[f]]
  BY DEF TypeOK
<1>1. ASSUME NEW r \in Requests, NEW method \in Methods, Begin(r, method) PROVE Goal
  BY <1>1, BeginFields, SameSending DEF Begin
<1>2. ASSUME NEW r \in Requests, NEW f \in Endpoints, NextReadsDown(r, f) PROVE Goal
  <2>1. cb' = cb /\ req[r].pc = "next"
    BY <1>2 DEF NextReadsDown
  <2>2. CASE Finish(r, "ErrNoHealthyEndpoints")
    BY <2>1, <2>2, FinishFields, SameSending
  <2>3. CASE req' = [req EXCEPT ![r].readDown = @ \cup {f}]
    BY <2>1, <2>3, ReadsDownFields, SameSending
  <2> QED
    BY <1>2, <2>2, <2>3 DEF NextReadsDown
<1>3. ASSUME NEW r \in Requests, NEW f \in Endpoints, NextReturns(r, f) PROVE Goal
  BY <1>3, ReturnsFields, SameSending DEF NextReturns
<1>4. ASSUME NEW r \in Requests, Allow(r) PROVE Goal
  <2>1. /\ req[r].pc = "allow" /\ req[r].ep \in Endpoints
        /\ cb' = [cb EXCEPT ![req[r].ep] = AfterAllow(cb[req[r].ep])]
    BY <1>4 DEF Allow, TypeOK
  <2>2. CASE Allows(cb[req[r].ep])
    <3>1. /\ req'[r].pc = "sending" /\ req'[r].ep = req[r].ep
          /\ \A q \in Requests \ {r} : req'[q] = req[q]
      BY <1>4, <2>2, GotoFields DEF Allow
    <3>2. CASE e = req[r].ep
      <4>1. r \notin Sending(e) /\ Sending(e)' = Sending(e) \cup {r}
        BY <2>1, <3>1, <3>2 DEF Sending
      <4>2. cb'[e] = AfterAllow(cb[e])
        BY <1>0, <2>1, <3>2
      <4>3. EndpointBreaker(e)!Allow(r)
        BY <2>2, <3>2, <4>1, <4>2, SameMethods DEF EndpointBreaker!Allow
      <4> QED
        BY <4>3 DEF EndpointBreaker!Next
    <3>3. CASE e # req[r].ep
      <4>1. Sending(e)' = Sending(e)
        BY <2>1, <3>1, <3>3 DEF Sending
      <4>2. cb'[e] = cb[e]
        BY <1>0, <2>1, <3>3
      <4> QED
        BY <4>1, <4>2
    <3> QED
      BY <3>2, <3>3
  <2>3. CASE ~Allows(cb[req[r].ep])
    <3>1. Finish(r, "failed") \/ Goto(r, "failed")
      BY <1>4, <2>3 DEF Allow, ForwardFails
    <3>2. req'[r].pc # "sending" /\ \A q \in Requests \ {r} : req'[q] = req[q]
      BY <3>1, FinishFields, GotoFields
    <3>3. AfterAllow(cb[req[r].ep]) = cb[req[r].ep]
      BY <2>3 DEF AfterAllow
    <3>4. cb'[e] = cb[e]
      BY <1>0, <2>1, <3>3
    <3> QED
      BY <2>1, <3>2, <3>4, SameSending
  <2> QED
    BY <2>2, <2>3
<1>5. ASSUME NEW r \in Requests, Respond(r) PROVE Goal
  <2>1. /\ req[r].pc = "sending" /\ req[r].ep \in Endpoints
        /\ cb' = [cb EXCEPT ![req[r].ep] = AfterSuccess(cb[req[r].ep])]
    BY <1>5 DEF Respond, TypeOK
  <2>2. req'[r].pc # "sending" /\ \A q \in Requests \ {r} : req'[q] = req[q]
    BY <1>5, FinishFields DEF Respond
  <2>3. CASE e = req[r].ep
    <3>1. r \in Sending(e) /\ Sending(e)' = Sending(e) \ {r}
      BY <2>1, <2>2, <2>3, SentAway
    <3>2. cb'[e] = AfterSuccess(cb[e])
      BY <1>0, <2>1, <2>3
    <3>3. EndpointBreaker(e)!RecordSuccess(r)
      BY <3>1, <3>2, SameMethods DEF EndpointBreaker!RecordSuccess
    <3> QED
      BY <3>3 DEF EndpointBreaker!Next
  <2>4. CASE e # req[r].ep
    BY <1>0, <2>1, <2>2, <2>4, SentAway
  <2> QED
    BY <2>3, <2>4
<1>6. ASSUME NEW r \in Requests, SendFails(r) PROVE Goal
  <2>1. /\ req[r].pc = "sending" /\ req[r].ep \in Endpoints
        /\ cb' = [cb EXCEPT ![req[r].ep] = AfterFailure(cb[req[r].ep])]
    BY <1>6 DEF SendFails, TypeOK
  <2>2. req'[r].pc # "sending" /\ \A q \in Requests \ {r} : req'[q] = req[q]
    BY <1>6, FinishFields, GotoFields DEF SendFails, ForwardFails
  <2>3. CASE e = req[r].ep
    <3>1. r \in Sending(e) /\ Sending(e)' = Sending(e) \ {r}
      BY <2>1, <2>2, <2>3, SentAway
    <3>2. cb'[e] = AfterFailure(cb[e])
      BY <1>0, <2>1, <2>3
    <3>3. EndpointBreaker(e)!RecordFailure(r)
      BY <3>1, <3>2, SameMethods DEF EndpointBreaker!RecordFailure
    <3> QED
      BY <3>3 DEF EndpointBreaker!Next
  <2>4. CASE e # req[r].ep
    BY <1>0, <2>1, <2>2, <2>4, SentAway
  <2> QED
    BY <2>3, <2>4
<1>7. ASSUME NEW r \in Requests, MarkDown(r) PROVE Goal
  <2>1. cb' = cb /\ req[r].pc = "failed" /\ (Finish(r, "failed") \/ Goto(r, "backoff"))
    BY <1>7 DEF MarkDown
  <2> QED
    BY <2>1, FinishFields, GotoFields, SameSending
<1>8. ASSUME NEW r \in Requests, Retry(r) PROVE Goal
  BY <1>8, RetryFields, SameSending DEF Retry
<1>9. ASSUME NEW r \in Requests, GiveUp(r) PROVE Goal
  BY <1>9, FinishFields, SameSending DEF GiveUp
<1>10. ASSUME NEW r \in Requests, Cancel(r) PROVE Goal
  <2>1. \A q \in Requests : req'[q].pc = req[q].pc /\ req'[q].ep = req[q].ep
    BY <1>10, CancelFields
  <2> QED
    BY <1>10, <2>1 DEF Cancel, Sending
<1>11. ASSUME NEW f \in Endpoints, Check(f) \/ Store(f) \/ NodeFlips(f) PROVE Goal
  BY <1>11 DEF Check, Store, NodeFlips, Sending
<1>12. CASE TimePasses
  <2>1. cb'[e] = Elapse(cb[e]) /\ Sending(e)' = Sending(e)
    BY <1>12 DEF TimePasses, Sending
  <2>2. EndpointBreaker(e)!TimePasses
    BY <2>1, SameMethods DEF EndpointBreaker!TimePasses
  <2> QED
    BY <2>2 DEF EndpointBreaker!Next
<1>13. CASE UNCHANGED vars
  BY <1>13 DEF vars, Sending
<1> QED
  BY <1>1, <1>2, <1>3, <1>4, <1>5, <1>6, <1>7, <1>8, <1>9, <1>10, <1>11, <1>12, <1>13
  DEF Next, Step, RequestStep

\* Endpoint.Forward reports exactly one outcome of each call that a breaker
\* admitted, and none of one that it refused, whichever way the call ends:
\* seen from one endpoint, the requests do what module CircuitBreaker says.
THEOREM OneOutcomePerCall == Spec => BreakersUsedProperly
<1>1. Init => \A e \in Endpoints : EndpointBreaker(e)!Init
  <2> SUFFICES ASSUME Init, NEW e \in Endpoints PROVE EndpointBreaker(e)!Init
    OBVIOUS
  <2>1. cb[e] = NewBreaker
    BY DEF Init
  <2>2. \A r \in Requests : req[r].pc = "idle"
    BY NoRequestFields DEF Init
  <2>3. Sending(e) = {}
    BY <2>2 DEF Sending
  <2> QED
    BY <2>1, <2>3, SameMethods DEF EndpointBreaker!Init
<1>2. TypeOK /\ [Next]_vars =>
        [\A e \in Endpoints : [EndpointBreaker(e)!Next]_(EndpointBreaker(e)!vars)]_vars
  <2> SUFFICES ASSUME TypeOK, [Next]_vars, NEW e \in Endpoints
               PROVE  EndpointBreaker(e)!Next \/ UNCHANGED EndpointBreaker(e)!vars
    OBVIOUS
  <2> QED
    BY BreakerStep DEF EndpointBreaker!vars
<1> QED
  BY <1>1, <1>2, Types, PTL DEF Spec, BreakersUsedProperly

-----------------------------------------------------------------------------
(***************************************************************************)
(* Failover.                                                               *)
(***************************************************************************)

\* Every earlier attempt took an endpoint of its own out of the rotation.
\* The endpoint of the attempt under way does not count, although another
\* request may have taken it out meanwhile.
EachTookOneOut(r) ==
  /\ req[r].pc = "next" => Cardinality(Down) >= req[r].attempt
  /\ req[r].pc \in {"allow", "sending", "failed"} =>
       Cardinality(Down \ {req[r].ep}) >= req[r].attempt
  /\ req[r].pc = "backoff" => Cardinality(Down) >= req[r].attempt + 1

\* A steady endpoint is fit to serve, was not read as down, and is not the
\* one an attempt failed on.
Spared(r) ==
  /\ \A e \in steady[r] : e \in Endpoints /\ FitToServe(e)
  /\ ~req[r].ctxDone =>
       /\ req[r].readDown \cap steady[r] = {}
       /\ req[r].pc = "failed" => req[r].ep \notin steady[r]

Progress == \A r \in Requests :
  Active(r) => Spared(r) /\ (~req[r].ctxDone /\ ~raised[r] => EachTookOneOut(r))

LEMMA DownFinite ==
  /\ IsFiniteSet(Down)
  /\ Cardinality(Down) \in Nat
  /\ \A e : IsFiniteSet(Down \ {e}) /\ Cardinality(Down \ {e}) \in Nat
<1>1. IsFiniteSet(Endpoints) /\ Down \subseteq Endpoints
  BY ChainConfig DEF ChainConfig, Down
<1>2. IsFiniteSet(Down) /\ \A e : IsFiniteSet(Down \ {e})
  BY <1>1, FS_Subset
<1> QED
  BY <1>2, FS_CardinalityType

\* What the history of a request that goes on remembers.
LEMMA Goes ==
  ASSUME Remember, NEW r \in Requests, Active(r)', Active(r) => Spared(r)
  PROVE  /\ \A e \in steady'[r] : e \in Endpoints /\ FitToServe(e)'
         /\ Active(r) => steady'[r] \subseteq steady[r]
         /\ ~raised'[r] => ~raised[r] /\ \A e \in Endpoints : healthy'[e] => healthy[e]
<1>1. steady'[r] = {e \in IF Active(r) THEN steady[r] ELSE Endpoints : FitToServe(e)'}
  BY DEF Remember
<1>2. raised'[r] = (Active(r)' /\ (raised[r] \/ \E e \in Endpoints : ~healthy[e] /\ healthy'[e]))
  BY DEF Remember
<1>3. ~raised'[r] => ~raised[r] /\ \A e \in Endpoints : healthy'[e] => healthy[e]
  BY <1>2, Zenon
<1>4. CASE Active(r)
  BY <1>1, <1>3, <1>4 DEF Spared
<1>5. CASE ~Active(r)
  BY <1>1, <1>3, <1>5
<1> QED
  BY <1>4, <1>5

\* While nothing comes back, fewer and fewer endpoints are in the rotation.
LEMMA DownGrows ==
  ASSUME \A e \in Endpoints : healthy'[e] => healthy[e]
  PROVE  /\ Down \subseteq Down'
         /\ Cardinality(Down) <= Cardinality(Down')
         /\ \A e : Cardinality(Down \ {e}) <= Cardinality(Down' \ {e})
         /\ Cardinality(Down') \in Nat
         /\ \A e : Cardinality(Down' \ {e}) \in Nat
<1>1. IsFiniteSet(Endpoints) /\ Down' \subseteq Endpoints /\ Down \subseteq Down'
  BY ChainConfig DEF ChainConfig, Down
<1>2. IsFiniteSet(Down') /\ \A e : IsFiniteSet(Down' \ {e})
  BY <1>1, FS_Subset
<1>3. \A e : Down \ {e} \subseteq Down' \ {e}
  BY <1>1
<1>4. /\ Cardinality(Down) <= Cardinality(Down')
      /\ \A e : Cardinality(Down \ {e}) <= Cardinality(Down' \ {e})
  BY <1>1, <1>2, <1>3, FS_Subset
<1>5. Cardinality(Down') \in Nat /\ \A e : Cardinality(Down' \ {e}) \in Nat
  BY <1>2, FS_CardinalityType
<1> QED
  BY <1>1, <1>4, <1>5

\* Steps of others, and steps that keep what EachTookOneOut speaks of.
LEMMA OthersKeep ==
  ASSUME TypeOK, Progress, Remember, NEW r \in Requests,
         req'[r] = req[r], Active(r)'
  PROVE  Spared(r)' /\ (~req'[r].ctxDone /\ ~raised'[r] => EachTookOneOut(r)')
<1>1. Active(r) /\ Spared(r)
  BY DEF Active, Progress
<1>2. Spared(r)'
  BY <1>1, Goes DEF Spared
<1>3. ASSUME ~req'[r].ctxDone, ~raised'[r] PROVE EachTookOneOut(r)'
  <2>1. EachTookOneOut(r) /\ \A e \in Endpoints : healthy'[e] => healthy[e]
    BY <1>1, <1>3, Goes DEF Progress
  <2>2. /\ Cardinality(Down) \in Nat /\ Cardinality(Down') \in Nat
        /\ Cardinality(Down) <= Cardinality(Down')
        /\ Cardinality(Down \ {req[r].ep}) <= Cardinality(Down' \ {req[r].ep})
        /\ Cardinality(Down \ {req[r].ep}) \in Nat /\ Cardinality(Down' \ {req[r].ep}) \in Nat
        /\ req[r].attempt \in Nat
    BY <2>1, DownGrows, DownFinite DEF TypeOK, Request
  <2> QED
    BY <2>1, <2>2 DEF EachTookOneOut
<1> QED
  BY <1>2, <1>3

\* The step of a request itself.  An attempt counts when its endpoint is
\* taken out; the endpoint was in the rotation when it was picked.
LEMMA OwnStepKeeps ==
  ASSUME TypeOK, Progress, Remember, NEW r \in Requests, Active(r)',
         \/ \E method \in Methods : Begin(r, method)
         \/ RequestStep(r)
         \/ Cancel(r)
  PROVE  Spared(r)' /\ (~req'[r].ctxDone /\ ~raised'[r] => EachTookOneOut(r)')
<1> DEFINE Goal == Spared(r)' /\ (~req'[r].ctxDone /\ ~raised'[r] => EachTookOneOut(r)')
<1>0. /\ \A e \in steady'[r] : e \in Endpoints /\ FitToServe(e)'
      /\ Active(r) => Spared(r) /\ steady'[r] \subseteq steady[r]
      /\ ~raised'[r] => ~raised[r] /\ \A e \in Endpoints : healthy'[e] => healthy[e]
      /\ req[r].attempt \in Nat
  BY Goes DEF Progress, TypeOK, Request
<1>t. \A q \in Requests : req[q] \in Request
  BY DEF TypeOK
<1>1. ASSUME NEW method \in Methods, Begin(r, method) PROVE Goal
  <2>1. req'[r].pc = "next" /\ req'[r].attempt = 0 /\ req'[r].readDown = {} /\ healthy' = healthy
    BY <1>1, BeginFields DEF Begin
  <2>2. Down' = Down
    BY <2>1 DEF Down
  <2>3. Cardinality(Down') >= 0
    BY <2>2, DownFinite
  <2> QED
    BY <1>0, <2>1, <2>3 DEF Spared, EachTookOneOut
<1>2. ASSUME NEW e \in Endpoints, NextReadsDown(r, e) PROVE Goal
  <2>1. ~healthy[e] /\ req[r].pc = "next" /\ healthy' = healthy /\ Active(r)
    BY <1>2 DEF NextReadsDown, Active
  <2>2. req' = [req EXCEPT ![r].readDown = @ \cup {e}]
    BY <1>2, FinishFields DEF NextReadsDown, Active
  <2>3. /\ req'[r].pc = req[r].pc /\ req'[r].attempt = req[r].attempt
        /\ req'[r].readDown = req[r].readDown \cup {e} /\ req'[r].ctxDone = req[r].ctxDone
    BY <2>2, ReadsDownFields
  <2>4. e \notin steady[r]
    BY <1>0, <2>1 DEF Spared, FitToServe
  <2>5. Spared(r)'
    BY <1>0, <2>1, <2>3, <2>4 DEF Spared
  <2>6. Down' = Down
    BY <2>1 DEF Down
  <2> QED
    BY <1>0, <2>1, <2>3, <2>5, <2>6 DEF EachTookOneOut, Progress
<1>3. ASSUME NEW e \in Endpoints, NextReturns(r, e) PROVE Goal
  <2>1. healthy[e] /\ req[r].pc = "next" /\ healthy' = healthy /\ Active(r)
    BY <1>3 DEF NextReturns, Active
  <2>2. /\ req'[r].pc = "allow" /\ req'[r].ep = e /\ req'[r].attempt = req[r].attempt
        /\ req'[r].readDown = {} /\ req'[r].ctxDone = req[r].ctxDone
    BY <1>3, ReturnsFields
  <2>3. Down' \ {e} = Down
    BY <2>1 DEF Down
  <2>4. Spared(r)'
    BY <1>0, <2>2 DEF Spared
  <2> QED
    BY <1>0, <2>1, <2>2, <2>3, <2>4 DEF EachTookOneOut, Progress
<1>4. ASSUME NEW pc \in {"sending", "failed"}, Goto(r, pc), healthy' = healthy,
             req[r].pc \in {"allow", "sending"},
             pc = "failed" /\ ~req[r].ctxDone => req[r].ep \notin steady[r]
      PROVE  Goal
  <2>1. /\ req'[r].pc = pc /\ req'[r].ep = req[r].ep /\ req'[r].attempt = req[r].attempt
        /\ req'[r].readDown = req[r].readDown /\ req'[r].ctxDone = req[r].ctxDone
    BY <1>4, GotoFields
  <2>2. Active(r) /\ Down' = Down
    BY <1>4 DEF Active, Down
  <2>3. Spared(r)'
    BY <1>0, <1>4, <2>1, <2>2 DEF Spared
  <2> QED
    BY <1>0, <1>4, <2>1, <2>2, <2>3 DEF EachTookOneOut, Progress
<1>5. ASSUME Allow(r) PROVE Goal
  <2>1. req[r].pc = "allow" /\ healthy' = healthy /\ req[r].ep \in Endpoints /\ Active(r)
    BY <1>5 DEF Allow, Active, TypeOK
  <2>2. CASE Allows(cb[req[r].ep])
    <3>1. Goto(r, "sending")
      BY <1>5, <2>2 DEF Allow
    <3> QED
      BY <1>4, <2>1, <3>1
  <2>3. CASE ~Allows(cb[req[r].ep])
    <3>1. Finish(r, "failed") \/ Goto(r, "failed")
      BY <1>5, <2>3 DEF Allow, ForwardFails
    <3>2. Goto(r, "failed")
      BY <3>1, FinishFields DEF Active
    <3>3. req[r].ep \notin steady[r]
      BY <1>0, <2>1, <2>3 DEF Spared, FitToServe, Allows
    <3> QED
      BY <1>4, <2>1, <3>2, <3>3
  <2> QED
    BY <2>2, <2>3
<1>6. ASSUME SendFails(r) PROVE Goal
  <2>1. /\ req[r].pc = "sending" /\ healthy' = healthy /\ Active(r)
        /\ ~up[req[r].ep] \/ req[r].ctxDone
    BY <1>6 DEF SendFails, Active
  <2>2. Finish(r, "failed") \/ Goto(r, "failed")
    BY <1>6 DEF SendFails, ForwardFails
  <2>3. Goto(r, "failed")
    BY <2>2, FinishFields DEF Active
  <2>4. ~req[r].ctxDone => req[r].ep \notin steady[r]
    BY <1>0, <2>1 DEF Spared, FitToServe
  <2> QED
    BY <1>4, <2>1, <2>3, <2>4
<1>7. ASSUME MarkDown(r) PROVE Goal
  <2>1. req[r].pc = "failed" /\ req[r].ep \in Endpoints /\ Active(r)
    BY <1>7 DEF MarkDown, Active, TypeOK
  <2>2. Finish(r, "failed") \/ Goto(r, "backoff")
    BY <1>7 DEF MarkDown
  <2>3. Goto(r, "backoff")
    BY <2>2, FinishFields DEF Active
  <2>4. /\ req'[r].pc = "backoff" /\ req'[r].attempt = req[r].attempt
        /\ req'[r].readDown = req[r].readDown /\ req'[r].ctxDone = req[r].ctxDone
    BY <2>3, GotoFields
  <2>5. Spared(r)'
    BY <1>0, <2>1, <2>4 DEF Spared
  <2>6. Down' = (Down \ {req[r].ep}) \cup {req[r].ep}
    <3>1. healthy' = [healthy EXCEPT ![req[r].ep] = FALSE]
      BY <1>7 DEF MarkDown
    <3>2. ~healthy'[req[r].ep] /\ \A e \in Endpoints \ {req[r].ep} : healthy'[e] = healthy[e]
      BY <2>1, <3>1 DEF TypeOK
    <3> QED
      BY <2>1, <3>2 DEF Down
  <2>7. Cardinality(Down') = Cardinality(Down \ {req[r].ep}) + 1
    BY <2>6, DownFinite, FS_AddElement
  <2>8. ASSUME ~req'[r].ctxDone, ~raised'[r] PROVE EachTookOneOut(r)'
    <3>1. Cardinality(Down \ {req[r].ep}) >= req[r].attempt
      BY <1>0, <2>1, <2>4, <2>8 DEF EachTookOneOut, Progress
    <3>2. Cardinality(Down \ {req[r].ep}) \in Nat
      BY DownFinite
    <3>3. Cardinality(Down') >= req'[r].attempt + 1
      BY <1>0, <2>4, <2>7, <3>1, <3>2
    <3> QED
      BY <2>4, <3>3 DEF EachTookOneOut
  <2> QED
    BY <2>5, <2>8
<1>8. ASSUME Retry(r) PROVE Goal
  <2>1. req[r].pc = "backoff" /\ healthy' = healthy /\ Active(r)
    BY <1>8 DEF Retry, Active
  <2>2. /\ req'[r].pc = "next" /\ req'[r].attempt = req[r].attempt + 1
        /\ req'[r].readDown = req[r].readDown /\ req'[r].ctxDone = req[r].ctxDone
    BY <1>8, RetryFields
  <2>3. Down' = Down
    BY <2>1 DEF Down
  <2>4. Spared(r)'
    BY <1>0, <2>1, <2>2 DEF Spared
  <2> QED
    BY <1>0, <2>1, <2>2, <2>3, <2>4 DEF EachTookOneOut, Progress
<1>9. ASSUME Respond(r) \/ GiveUp(r) PROVE Goal
  BY <1>9, FinishFields DEF Respond, GiveUp, Active
<1>10. ASSUME Cancel(r) PROVE Goal
  BY <1>0, <1>10, CancelFields DEF Spared
<1> QED
  BY <1>1, <1>2, <1>3, <1>5, <1>6, <1>7, <1>8, <1>9, <1>10 DEF RequestStep

LEMMA ProgressKept == TypeOK /\ Progress /\ [Next]_vars => Progress'
<1> SUFFICES ASSUME TypeOK, Progress, [Next]_vars PROVE Progress'
  OBVIOUS
<1>1. CASE UNCHANGED vars
  BY <1>1 DEF vars, Progress, Active, Spared, FitToServe, EachTookOneOut, Down
<1>2. CASE Next
  <2>0. Remember
    BY <1>2 DEF Next
  <2>1. ASSUME NEW r \in Requests, Active(r)'
        PROVE  Spared(r)' /\ (~req'[r].ctxDone /\ ~raised'[r] => EachTookOneOut(r)')
    <3>1. CASE req'[r] = req[r]
      BY <2>0, <2>1, <3>1, OthersKeep
    <3>2. CASE req'[r] # req[r]
      <4>1. PICK q \in Requests : \/ \E method \in Methods : Begin(q, method)
                                 \/ RequestStep(q)
                                 \/ Cancel(q)
        BY <1>2, <3>2 DEF Next, Step, Check, Store, NodeFlips, TimePasses
      <4>2. \A p \in Requests \ {q} : req'[p] = req[p]
        BY <4>1, OnlyItsOwn
      <4>3. q = r
        BY <3>2, <4>2
      <4> QED
        BY <2>0, <2>1, <4>1, <4>3, OwnStepKeeps
    <3> QED
      BY <3>1, <3>2
  <2> QED
    BY <2>1 DEF Progress
<1> QED
  BY <1>1, <1>2

LEMMA ProgressAlways == Spec => [](TypeOK /\ Progress)
<1>1. Init => TypeOK /\ Progress
  <2> SUFFICES ASSUME Init PROVE TypeOK /\ Progress
    OBVIOUS
  <2>1. \A r \in Requests : req[r].pc = "idle"
    BY NoRequestFields DEF Init
  <2> QED
    BY <2>1, InitTypes DEF Progress, Active
<1>2. TypeOK /\ Progress /\ [Next]_vars => (TypeOK /\ Progress)'
  BY NextTypes, ProgressKept
<1> QED
  BY <1>1, <1>2, PTL DEF Spec

\* If an endpoint is fit to serve throughout a request, it is never reached
\* by the attempts that fail; as each of those takes an endpoint of its own
\* out of the rotation, they end before the retries do.  This is what
\* ForwardWithRetry promises when every node but one is down.
THEOREM FailoverSucceeds == Spec => Failover
<1> DEFINE Goal(r) ==
      (/\ Active(r) /\ ~Active(r)' /\ req'[r].result # "ok"
       /\ req[r].method = "ForwardWithRetry" /\ ~req[r].ctxDone
       /\ MaxRetries + 1 >= Cardinality(Endpoints)
       /\ ~raised[r]) => steady[r] = {}
<1>1. TypeOK /\ Progress /\ [Next]_vars => [\A r \in Requests : Goal(r)]_vars
  <2> SUFFICES ASSUME TypeOK, Progress, Next, NEW r \in Requests,
                      Active(r), ~Active(r)', req'[r].result # "ok",
                      req[r].method = "ForwardWithRetry", ~req[r].ctxDone,
                      MaxRetries + 1 >= Cardinality(Endpoints), ~raised[r],
                      NEW s \in steady[r]
               PROVE  FALSE
    OBVIOUS
  <2>0. /\ s \in Endpoints /\ FitToServe(s) /\ s \notin req[r].readDown
        /\ req[r].pc = "failed" => req[r].ep # s
        /\ EachTookOneOut(r)
    BY DEF Progress, Spared
  <2>1. req[r].pc # "idle" /\ req'[r].pc = "idle"
    BY DEF Active
  <2>2. PICK q \in Requests : \/ \E method \in Methods : Begin(q, method)
                             \/ RequestStep(q)
                             \/ Cancel(q)
    BY <2>1 DEF Next, Step, Check, Store, NodeFlips, TimePasses
  <2>3. q = r
    BY <2>1, <2>2, OnlyItsOwn
  <2>4. ASSUME NEW method \in Methods, Begin(r, method) PROVE FALSE
    BY <2>1, <2>4 DEF Begin, Active
  <2>5. ASSUME NEW e \in Endpoints, NextReadsDown(r, e) PROVE FALSE
    <3>1. req[r].readDown \cup {e} # Endpoints
      BY <2>0, <2>5 DEF NextReadsDown, FitToServe
    <3>2. req' = [req EXCEPT ![r].readDown = @ \cup {e}]
      BY <2>5, <3>1 DEF NextReadsDown
    <3> QED
      BY <2>1, <3>2, ReadsDownFields
  <2>6. ASSUME NEW e \in Endpoints, NextReturns(r, e) PROVE FALSE
    BY <2>1, <2>6, ReturnsFields
  <2>7. ASSUME Allow(r) \/ SendFails(r) PROVE FALSE
    <3>1. Goto(r, "sending") \/ Goto(r, "failed")
      BY <2>7 DEF Allow, SendFails, ForwardFails
    <3> QED
      BY <2>1, <3>1, GotoFields
  <2>8. ASSUME Respond(r) PROVE FALSE
    BY <2>8, FinishFields DEF Respond
  <2>9. ASSUME MarkDown(r) PROVE FALSE
    <3>1. req[r].pc = "failed" /\ ~(req[r].attempt < MaxRetries)
      BY <2>1, <2>9, GotoFields DEF MarkDown
    <3>2. req[r].ep \in Endpoints /\ req[r].ep # s /\ req[r].attempt \in Nat
      BY <2>0, <3>1 DEF TypeOK, Request
    <3>3. Cardinality(Down \ {req[r].ep}) >= req[r].attempt
      BY <2>0, <3>1 DEF EachTookOneOut
    <3>4. Cardinality(Down \ {req[r].ep}) <= Cardinality(Endpoints) - 2
      <4> DEFINE Rest == (Endpoints \ {s}) \ {req[r].ep}
      <4>1. IsFiniteSet(Endpoints) /\ IsFiniteSet(Endpoints \ {s}) /\ IsFiniteSet(Rest)
        BY ChainConfig, FS_Subset DEF ChainConfig
      <4>2. Cardinality(Endpoints \ {s}) = Cardinality(Endpoints) - 1
        BY <2>0, <4>1, FS_RemoveElement
      <4>3. Cardinality(Rest) = Cardinality(Endpoints \ {s}) - 1
        BY <3>2, <4>1, FS_RemoveElement
      <4>4. Down \ {req[r].ep} \subseteq Rest
        BY <2>0 DEF Down, FitToServe
      <4>5. Cardinality(Down \ {req[r].ep}) <= Cardinality(Rest)
        BY <4>1, <4>4, FS_Subset
      <4>6. Cardinality(Endpoints) \in Nat
        BY <4>1, FS_CardinalityType
      <4> HIDE DEF Rest
      <4> QED
        BY <4>2, <4>3, <4>5, <4>6
    <3>5. MaxRetries \in Nat /\ Cardinality(Endpoints) \in Nat
      BY ChainConfig, FS_CardinalityType DEF ChainConfig
    <3>6. Cardinality(Down \ {req[r].ep}) \in Nat
      BY DownFinite
    <3> QED
      BY <3>1, <3>2, <3>3, <3>4, <3>5, <3>6
  <2>10. ASSUME Retry(r) PROVE FALSE
    BY <2>1, <2>10, RetryFields
  <2>11. ASSUME GiveUp(r) \/ Cancel(r) PROVE FALSE
    BY <2>1, <2>11, CancelFields DEF GiveUp
  <2> QED
    BY <2>2, <2>3, <2>4, <2>5, <2>6, <2>7, <2>8, <2>9, <2>10, <2>11 DEF RequestStep
<1> QED
  BY <1>1, ProgressAlways, PTL DEF Spec, Failover

-----------------------------------------------------------------------------
(***************************************************************************)
(* Every request comes to an end after a bounded number of its own steps.  *)
(***************************************************************************)

Size == Cardinality(Endpoints)

\* A bound on the steps that an attempt has left, and on those of a request.
Stage(q) ==
  CASE q.pc = "next" -> 4 + (Size - Cardinality(q.readDown))
    [] q.pc = "allow" -> 4
    [] q.pc = "sending" -> 3
    [] q.pc = "failed" -> 2
    [] q.pc = "backoff" -> 1
    [] q.pc = "idle" -> 0

Work(q) ==
  IF q.pc = "idle" THEN 0 ELSE (MaxRetries - q.attempt) * (Size + 5) + Stage(q)

\* A request backs off only if it has an attempt left, and an attempt looks
\* for an endpoint only while there is one that it has not read.
WithinRetries(q) ==
  /\ q.attempt <= MaxRetries
  /\ q.pc = "backoff" => q.attempt < MaxRetries
  /\ q.readDown # Endpoints

Bounded == \A r \in Requests : WithinRetries(req[r])

LEMMA StageValues ==
  ASSUME NEW q \in Request
  PROVE  /\ Size \in Nat /\ MaxRetries \in Nat
         /\ Cardinality(q.readDown) \in 0..Size
         /\ q.readDown # Endpoints => Cardinality(q.readDown) < Size
         /\ q.pc = "next" => Stage(q) = 4 + (Size - Cardinality(q.readDown))
         /\ q.pc = "allow" => Stage(q) = 4
         /\ q.pc = "sending" => Stage(q) = 3
         /\ q.pc = "failed" => Stage(q) = 2
         /\ q.pc = "backoff" => Stage(q) = 1
         /\ Stage(q) \in 0..(Size + 4)
         /\ q.pc # "idle" => Stage(q) >= 1
<1>1. IsFiniteSet(Endpoints) /\ q.readDown \subseteq Endpoints /\ MaxRetries \in Nat
  BY ChainConfig DEF ChainConfig, Request
<1>2. /\ Size \in Nat /\ Cardinality(q.readDown) \in Nat
      /\ Cardinality(q.readDown) <= Size
      /\ Cardinality(q.readDown) = Size => q.readDown = Endpoints
  BY <1>1, FS_Subset, FS_CardinalityType DEF Size
<1>3. /\ q.pc = "next" => Stage(q) = 4 + (Size - Cardinality(q.readDown))
      /\ q.pc = "allow" => Stage(q) = 4
      /\ q.pc = "sending" => Stage(q) = 3
      /\ q.pc = "failed" => Stage(q) = 2
      /\ q.pc = "backoff" => Stage(q) = 1
      /\ q.pc = "idle" => Stage(q) = 0
  BY DEF Stage
<1>4. q.pc \in {"idle", "next", "allow", "sending", "failed", "backoff"}
  BY DEF Request
<1> QED
  BY <1>1, <1>2, <1>3, <1>4

\* Work is a number, and within an attempt it goes down with the stage.
LEMMA WorkValues ==
  ASSUME NEW q \in Request, WithinRetries(q)
  PROVE  /\ Work(q) \in 0..((MaxRetries + 1) * (Size + 5))
         /\ q.pc # "idle" => Work(q) > 0
         /\ (MaxRetries - q.attempt) * (Size + 5) \in Nat
<1> DEFINE left == MaxRetries - q.attempt
           cost == Size + 5
<1>1. /\ left \in Nat /\ left <= MaxRetries /\ cost \in Nat /\ MaxRetries \in Nat
      /\ Stage(q) \in 0..(cost - 1) /\ (q.pc # "idle" => Stage(q) >= 1)
  BY StageValues DEF WithinRetries, Request
<1>2. left * cost \in Nat
  BY <1>1
<1>3. left * cost <= MaxRetries * cost
  <2>1. MaxRetries - left \in Nat
    BY <1>1
  <2> HIDE DEF left, cost
  <2>2. (MaxRetries - left) * cost \in Nat
    BY <1>1, <2>1
  <2>3. (MaxRetries - left) * cost = MaxRetries * cost - left * cost
    BY <1>1
  <2>4. MaxRetries * cost \in Nat /\ left * cost \in Nat
    BY <1>1
  <2> QED
    BY <2>2, <2>3, <2>4
<1>4. (MaxRetries + 1) * cost = MaxRetries * cost + cost /\ MaxRetries * cost \in Nat
  BY <1>1
<1>5. Work(q) = IF q.pc = "idle" THEN 0 ELSE left * cost + Stage(q)
  BY DEF Work
<1> DEFINE lc == left * cost
           mc == MaxRetries * cost
<1> HIDE DEF lc, mc
<1>6. lc \in Nat /\ mc \in Nat /\ lc <= mc /\ (MaxRetries + 1) * cost = mc + cost
      /\ Work(q) = IF q.pc = "idle" THEN 0 ELSE lc + Stage(q)
  BY <1>2, <1>3, <1>4, <1>5 DEF lc, mc
<1>7. Work(q) \in 0..((MaxRetries + 1) * cost) /\ (q.pc # "idle" => Work(q) > 0)
  <2> HIDE DEF left, cost
  <2>1. Work(q) \in 0..(mc + cost) /\ (q.pc # "idle" => Work(q) > 0)
    BY <1>1, <1>6
  <2> QED
    BY <1>6, <2>1
<1> QED
  BY <1>2, <1>7

\* A step of a request that goes on with the same attempt.
LEMMA SameAttempt ==
  ASSUME NEW q \in Request, NEW p \in Request, WithinRetries(q), WithinRetries(p),
         q.pc # "idle", p.pc # "idle", p.attempt = q.attempt
  PROVE  /\ Stage(p) < Stage(q) => Work(p) < Work(q)
         /\ Stage(p) = Stage(q) => Work(p) = Work(q)
<1> DEFINE base == (MaxRetries - q.attempt) * (Size + 5)
<1>1. base \in Nat /\ Stage(p) \in Nat /\ Stage(q) \in Nat
  BY WorkValues, StageValues
<1>2. Work(p) = base + Stage(p) /\ Work(q) = base + Stage(q)
  BY DEF Work
<1> HIDE DEF base
<1> QED
  BY <1>1, <1>2

\* What a step of a request does to its work.
LEMMA OwnWork ==
  ASSUME TypeOK, TypeOK', NEW r \in Requests, RequestStep(r), WithinRetries(req[r])
  PROVE  WithinRetries(req'[r]) /\ Work(req'[r]) < Work(req[r])
<1> DEFINE q == req[r]
           p == req'[r]
           Goal == WithinRetries(p) /\ Work(p) < Work(q)
<1>1. q \in Request /\ p \in Request /\ MaxRetries \in Nat /\ Endpoints # {} /\ q.attempt \in Nat
  BY ChainConfig DEF ChainConfig, TypeOK, Request
<1> HIDE DEF q, p
<1>2. ASSUME q.pc # "idle", NEW res \in {"ok", "failed", "ErrNoHealthyEndpoints", "ctx.Err"}, Finish(r, res)
      PROVE  Goal
  <2>1. p.pc = "idle" /\ p.attempt = 0 /\ p.readDown = {}
    BY <1>2, FinishFields DEF p
  <2>2. WithinRetries(p)
    BY <1>1, <2>1 DEF WithinRetries
  <2>3. Work(p) = 0
    BY <2>1 DEF Work
  <2> QED
    BY <1>1, <1>2, <2>2, <2>3, WorkValues DEF q
<1>3. ASSUME NEW pc \in {"sending", "failed", "backoff"}, Goto(r, pc), q.pc # "idle",
             pc = "backoff" => q.attempt < MaxRetries,
             \/ pc = "sending" /\ q.pc = "allow"
             \/ pc = "failed" /\ q.pc \in {"allow", "sending"}
             \/ pc = "backoff" /\ q.pc = "failed"
      PROVE  Goal
  <2>1. p.pc = pc /\ p.attempt = q.attempt /\ p.readDown = q.readDown
    BY <1>3, GotoFields DEF p, q
  <2>2. WithinRetries(p)
    BY <1>3, <2>1 DEF WithinRetries, q
  <2>3. Stage(p) < Stage(q)
    BY <1>1, <1>3, <2>1, StageValues
  <2> QED
    BY <1>1, <1>3, <2>1, <2>2, <2>3, SameAttempt DEF q
<1>4. ASSUME NEW e \in Endpoints, NextReadsDown(r, e) PROVE Goal
  <2>1. q.pc = "next" /\ e \notin q.readDown
    BY <1>4 DEF NextReadsDown, q
  <2>2. CASE q.readDown \cup {e} = Endpoints
    BY <1>2, <1>4, <2>1, <2>2 DEF NextReadsDown, q
  <2>3. CASE q.readDown \cup {e} # Endpoints
    <3>1. req' = [req EXCEPT ![r].readDown = @ \cup {e}]
      BY <1>4, <2>3 DEF NextReadsDown, q
    <3>2. p.pc = "next" /\ p.attempt = q.attempt /\ p.readDown = q.readDown \cup {e}
      BY <2>1, <3>1, ReadsDownFields DEF p, q
    <3>3. WithinRetries(p)
      BY <2>3, <3>2 DEF WithinRetries, q
    <3>4. IsFiniteSet(q.readDown)
      BY <1>1, ChainConfig, FS_Subset DEF ChainConfig, Request
    <3>5. Cardinality(p.readDown) = Cardinality(q.readDown) + 1
      BY <2>1, <3>2, <3>4, FS_AddElement
    <3>6. Stage(p) = 4 + (Size - Cardinality(p.readDown))
      BY <1>1, <3>2, StageValues, Zenon
    <3>7. /\ Stage(q) = 4 + (Size - Cardinality(q.readDown))
          /\ Cardinality(q.readDown) \in 0..Size /\ Size \in Nat
      BY <1>1, <2>1, StageValues, Zenon
    <3>8. Stage(p) < Stage(q)
      BY <3>5, <3>6, <3>7
    <3> QED
      BY <1>1, <2>1, <3>2, <3>3, <3>8, SameAttempt DEF q
  <2> QED
    BY <2>2, <2>3
<1>5. ASSUME NEW e \in Endpoints, NextReturns(r, e) PROVE Goal
  <2>1. /\ q.pc = "next" /\ q.readDown # Endpoints
        /\ p.pc = "allow" /\ p.attempt = q.attempt /\ p.readDown = {}
    BY <1>5, ReturnsFields DEF NextReturns, WithinRetries, p, q
  <2>2. WithinRetries(p)
    BY <1>1, <2>1 DEF WithinRetries, q
  <2>3. Stage(p) < Stage(q)
    BY <1>1, <2>1, StageValues
  <2> QED
    BY <1>1, <2>1, <2>2, <2>3, SameAttempt DEF q
<1>6. ASSUME Allow(r) \/ SendFails(r) PROVE Goal
  <2>1. q.pc \in {"allow", "sending"}
    BY <1>6 DEF Allow, SendFails, q
  <2>2. \/ Goto(r, "sending") /\ q.pc = "allow"
        \/ Goto(r, "failed")
        \/ Finish(r, "failed")
    BY <1>6 DEF Allow, SendFails, ForwardFails, q
  <2> QED
    BY <1>2, <1>3, <2>1, <2>2
<1>7. ASSUME Respond(r) \/ GiveUp(r) PROVE Goal
  BY <1>2, <1>7 DEF Respond, GiveUp, q
<1>8. ASSUME MarkDown(r) PROVE Goal
  <2>1. q.pc = "failed"
    BY <1>8 DEF MarkDown, q
  <2>2. CASE q.attempt < MaxRetries
    BY <1>3, <1>8, <2>1, <2>2 DEF MarkDown, q
  <2>3. CASE ~(q.attempt < MaxRetries)
    BY <1>2, <1>8, <2>1, <2>3 DEF MarkDown, q
  <2> QED
    BY <2>2, <2>3
<1>9. ASSUME Retry(r) PROVE Goal
  <2>1. /\ q.pc = "backoff" /\ q.attempt < MaxRetries /\ q.readDown # Endpoints
        /\ p.pc = "next" /\ p.attempt = q.attempt + 1 /\ p.readDown = q.readDown
    BY <1>9, RetryFields DEF Retry, WithinRetries, p, q
  <2>2. WithinRetries(p)
    BY <1>1, <2>1 DEF WithinRetries
  <2> DEFINE left == MaxRetries - q.attempt
             cost == Size + 5
             small == (left - 1) * cost
  <2>3. left \in Nat /\ cost \in Nat /\ Stage(q) = 1 /\ Stage(p) \in 0..(cost - 1)
    BY <1>1, <2>1, StageValues
  <2>4. left * cost = small + cost /\ small \in Int
    <3> HIDE DEF left, cost
    <3> QED
      BY <2>3
  <2>5. Work(p) = small + Stage(p)
    <3>1. MaxRetries - p.attempt = left - 1
      BY <1>1, <2>1
    <3> HIDE DEF left
    <3> QED
      BY <2>1, <3>1 DEF Work
  <2>6. Work(q) = left * cost + Stage(q)
    BY <2>1 DEF Work
  <2> HIDE DEF small, cost, left
  <2>7. Work(p) < Work(q)
    BY <2>3, <2>4, <2>5, <2>6
  <2> QED
    BY <2>2, <2>7
<1> QED
  BY <1>4, <1>5, <1>6, <1>7, <1>8, <1>9 DEF RequestStep, p, q

\* What the other steps do to the work of a request that is under way.
LEMMA OthersWork ==
  ASSUME TypeOK, TypeOK', [Next]_vars, NEW r \in Requests, ~RequestStep(r), WithinRetries(req[r])
  PROVE  WithinRetries(req'[r]) /\ (Active(r) => Work(req'[r]) = Work(req[r]))
<1> DEFINE Goal == WithinRetries(req'[r]) /\ (Active(r) => Work(req'[r]) = Work(req[r]))
<1>1. req[r] \in Request /\ req'[r] \in Request /\ MaxRetries \in Nat /\ Endpoints # {}
  BY ChainConfig DEF ChainConfig, TypeOK
<1>2. CASE req'[r] = req[r]
  BY <1>2
<1>3. ASSUME NEW method \in Methods, Begin(r, method) PROVE Goal
  BY <1>1, <1>3, BeginFields DEF Active, WithinRetries
<1>4. CASE Cancel(r)
  <2>1. /\ req'[r].pc = req[r].pc /\ req'[r].attempt = req[r].attempt
        /\ req'[r].readDown = req[r].readDown
    BY <1>4, CancelFields
  <2> QED
    BY <2>1 DEF WithinRetries, Work, Stage
<1>5. ASSUME NEW q \in Requests,
             \/ \E method \in Methods : Begin(q, method)
             \/ RequestStep(q)
             \/ Cancel(q)
      PROVE  Goal
  <2>1. CASE q = r
    BY <1>3, <1>4, <1>5, <2>1
  <2>2. CASE q # r
    BY <1>2, <1>5, <2>2, OnlyItsOwn
  <2> QED
    BY <2>1, <2>2
<1>6. CASE req' = req
  BY <1>2, <1>6
<1>7. CASE Next
  BY <1>5, <1>6, <1>7 DEF Next, Step, Check, Store, NodeFlips, TimePasses
<1>8. CASE UNCHANGED vars
  BY <1>6, <1>8 DEF vars
<1> QED
  BY <1>7, <1>8

\* The bound on the steps of a request: in each of its attempts it reads no
\* flag twice and passes each stage once.
LEMMA BoundedAlways == Spec => [](TypeOK /\ Bounded)
<1>1. Init => Bounded
  <2> SUFFICES ASSUME Init, NEW r \in Requests PROVE WithinRetries(req[r])
    BY DEF Bounded
  <2> QED
    BY NoRequestFields, ChainConfig DEF Init, WithinRetries, ChainConfig
<1>2. TypeOK /\ TypeOK' /\ Bounded /\ [Next]_vars => Bounded'
  <2> SUFFICES ASSUME TypeOK, TypeOK', Bounded, [Next]_vars, NEW r \in Requests
               PROVE  WithinRetries(req'[r])
    BY DEF Bounded
  <2>1. WithinRetries(req[r])
    BY DEF Bounded
  <2> QED
    BY <2>1, OwnWork, OthersWork
<1> QED
  BY <1>1, <1>2, Types, PTL DEF Spec

\* Forward and ForwardWithRetry come to an end by their own steps, however
\* nodes, flags and breakers change meanwhile: a step of a request lowers its
\* work, nothing else raises it, and it starts below the number of attempts
\* times what one attempt can take.
THEOREM RequestsAreBounded ==
  Spec => [][\A r \in Requests :
               /\ Work(req[r]) \in 0..((MaxRetries + 1) * (Cardinality(Endpoints) + 5))
               /\ RequestStep(r) => Work(req'[r]) < Work(req[r])
               /\ Active(r) /\ ~RequestStep(r) => Work(req'[r]) = Work(req[r])]_vars
<1> DEFINE Goal(r) ==
      /\ Work(req[r]) \in 0..((MaxRetries + 1) * (Cardinality(Endpoints) + 5))
      /\ RequestStep(r) => Work(req'[r]) < Work(req[r])
      /\ Active(r) /\ ~RequestStep(r) => Work(req'[r]) = Work(req[r])
<1>1. TypeOK /\ TypeOK' /\ Bounded /\ [Next]_vars => [\A r \in Requests : Goal(r)]_vars
  <2> SUFFICES ASSUME TypeOK, TypeOK', Bounded, [Next]_vars, NEW r \in Requests
               PROVE  Goal(r)
    OBVIOUS
  <2>1. WithinRetries(req[r]) /\ req[r] \in Request
    BY DEF Bounded, TypeOK
  <2>2. Work(req[r]) \in 0..((MaxRetries + 1) * (Cardinality(Endpoints) + 5))
    BY <2>1, WorkValues DEF Size
  <2>3. RequestStep(r) => Work(req'[r]) < Work(req[r])
    BY <2>1, OwnWork
  <2>4. Active(r) /\ ~RequestStep(r) => Work(req'[r]) = Work(req[r])
    BY <2>1, OthersWork
  <2> QED
    BY <2>2, <2>3, <2>4
<1> QED
  BY <1>1, BoundedAlways, PTL DEF Spec
=============================================================================
