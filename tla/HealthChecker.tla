----------------------------- MODULE HealthChecker -----------------------------
(***************************************************************************)
(* chain.HealthChecker: a goroutine that, at start and on every tick, asks *)
(* all endpoints for their block number concurrently, waits for the last   *)
(* answer, and only then compares and applies the answers one endpoint at  *)
(* a time, while requests keep reading and clearing the same flags.        *)
(*                                                                         *)
(* External: the nodes behind the endpoints (up, head), and the requests   *)
(* that clear a flag when a call through an endpoint fails.  The block a   *)
(* node reports may change at any time and for ever, forwards or back.     *)
(*                                                                         *)
(* Apply sets the flag and the height of an endpoint in one step: no code  *)
(* that changes anything reads the two together.                           *)
(***************************************************************************)
EXTENDS Integers, FiniteSetsExt

CONSTANTS
  Endpoints,
  MaxBlockLag,   (* HealthCheckConfig.MaxBlockLag                            *)
  MaxHeight,     (* bounds of what parseBlockNumber yields, up and down: it is *)
  MaxNegative    (* an int64, negative for 16 digits that begin with 8 to f   *)

ASSUME CheckerConfig ==
  /\ IsFiniteSet(Endpoints) /\ Endpoints # {}
  /\ MaxBlockLag \in Nat
  /\ MaxHeight \in Nat /\ MaxNegative \in Nat

VARIABLES
  healthy, blockHeight,  (* Endpoint: atomics                                *)
  highestBlock,          (* Chain: atomic                                    *)
  pc,                    (* where run() is                                   *)
  answer,                (* heights: this round's answers, or Failed         *)
  waiting,               (* endpoints whose answer is still outstanding      *)
  pending,               (* endpoints whose answer is still to be applied    *)
  cancelled,             (* Stop cancelled h.ctx                             *)
  up, head               (* external: node reachable in time, its block      *)

roundVars == <<highestBlock, blockHeight, pc, answer, waiting, pending, cancelled>>
nodeVars == <<up, head>>
checkerVars == <<healthy, roundVars, nodeVars>>

Heights == (-MaxNegative)..MaxHeight

\* checkEndpoint's (0, false); nobody looks at the second result, so a node at
\* block 0 cannot be told from one that failed.
Failed == 0

CheckerInit ==
  /\ healthy = [e \in Endpoints |-> TRUE]
  /\ blockHeight = [e \in Endpoints |-> 0]
  /\ highestBlock = 0
  /\ pc = "new"
  /\ answer = [e \in Endpoints |-> Failed]
  /\ waiting = {} /\ pending = {}
  /\ cancelled = FALSE
  /\ up \in [Endpoints -> BOOLEAN]
  /\ head \in [Endpoints -> Heights]

-----------------------------------------------------------------------------
\* The locals of checkAll at the start of a round.
NewRound ==
  /\ pc' = "round"
  /\ answer' = [e \in Endpoints |-> Failed]
  /\ waiting' = Endpoints
  /\ pending' = Endpoints

\* Start: go h.run(), which checks once before it waits for the ticker.
Start ==
  /\ pc = "new"
  /\ NewRound
  /\ UNCHANGED <<healthy, blockHeight, highestBlock, cancelled, nodeVars>>

\* The ticker fires.  With the context cancelled too, select may pick it.
Tick ==
  /\ pc = "wait"
  /\ NewRound
  /\ UNCHANGED <<healthy, blockHeight, highestBlock, cancelled, nodeVars>>

\* checkEndpoint returns: any error on the way is (0, false).
CheckEndpoint(e) ==
  /\ pc = "round" /\ e \in waiting
  /\ answer' = [answer EXCEPT ![e] =
       IF up[e] /\ ~cancelled THEN head[e] ELSE Failed]
  /\ waiting' = waiting \ {e}
  /\ UNCHANGED <<healthy, blockHeight, highestBlock, pc, pending, cancelled, nodeVars>>

\* maxHeight of the round.
BestAnswer == Max({0} \cup {answer[e] : e \in Endpoints})

\* Mutant: a failed check leaves the endpoint's flag as it was.
ApplyKeepsFailed(e) ==
  /\ pc = "round" /\ waiting = {} /\ e \in pending
  /\ IF answer[e] = Failed
     THEN UNCHANGED <<healthy, blockHeight>>
     ELSE /\ healthy' = [healthy EXCEPT ![e] = BestAnswer - answer[e] <= MaxBlockLag]
          /\ blockHeight' = [blockHeight EXCEPT ![e] = answer[e]]
  /\ pending' = pending \ {e}
  /\ UNCHANGED <<highestBlock, pc, answer, waiting, cancelled, nodeVars>>

\* Mutant: the lag is measured against the block published by the last round.
ApplyStale(e) ==
  /\ pc = "round" /\ waiting = {} /\ e \in pending
  /\ IF answer[e] = Failed
     THEN /\ healthy' = [healthy EXCEPT ![e] = FALSE]
          /\ UNCHANGED blockHeight
     ELSE /\ healthy' = [healthy EXCEPT ![e] = highestBlock - answer[e] <= MaxBlockLag]
          /\ blockHeight' = [blockHeight EXCEPT ![e] = answer[e]]
  /\ pending' = pending \ {e}
  /\ UNCHANGED <<highestBlock, pc, answer, waiting, cancelled, nodeVars>>

\* Mutant: a flag that is down stays down.
ApplyNeverRaises(e) ==
  /\ pc = "round" /\ waiting = {} /\ e \in pending
  /\ healthy' = [healthy EXCEPT
       ![e] = @ /\ answer[e] # Failed /\ BestAnswer - answer[e] <= MaxBlockLag]
  /\ blockHeight' = [blockHeight EXCEPT
       ![e] = IF answer[e] = Failed THEN @ ELSE answer[e]]
  /\ pending' = pending \ {e}
  /\ UNCHANGED <<highestBlock, pc, answer, waiting, cancelled, nodeVars>>

\* The loop over heights, in map order.
Apply(e) ==
  /\ pc = "round" /\ waiting = {} /\ e \in pending
  /\ IF answer[e] = Failed
     THEN /\ healthy' = [healthy EXCEPT ![e] = FALSE]
          /\ UNCHANGED blockHeight
     ELSE /\ healthy' = [healthy EXCEPT ![e] = BestAnswer - answer[e] <= MaxBlockLag]
          /\ blockHeight' = [blockHeight EXCEPT ![e] = answer[e]]
  /\ pending' = pending \ {e}
  /\ UNCHANGED <<highestBlock, pc, answer, waiting, cancelled, nodeVars>>

\* UpdateHighestBlock(maxHeight), a plain store, ends the round.
UpdateHighestBlock ==
  /\ pc = "round" /\ waiting = {} /\ pending = {}
  /\ highestBlock' = BestAnswer
  /\ pc' = "wait"
  /\ UNCHANGED <<healthy, blockHeight, answer, waiting, pending, cancelled, nodeVars>>

\* Stop cancels the context, then waits for run to return.
Stop ==
  /\ ~cancelled
  /\ cancelled' = TRUE
  /\ UNCHANGED <<healthy, highestBlock, blockHeight, pc, answer, waiting, pending, nodeVars>>

\* Mutant: run() looks at the ticker only.
NeverReturn == FALSE /\ UNCHANGED checkerVars

\* run() sees the cancelled context and returns.
Return ==
  /\ pc = "wait" /\ cancelled
  /\ pc' = "stopped"
  /\ UNCHANGED <<healthy, highestBlock, blockHeight, answer, waiting, pending,
                 cancelled, nodeVars>>

\* Environment: ForwardWithRetry clears the flag of an endpoint that failed.
MarkDown(e) ==
  /\ healthy' = [healthy EXCEPT ![e] = FALSE]
  /\ UNCHANGED <<roundVars, nodeVars>>

\* Environment: a node imports blocks, is reorganised or synchronises anew; it
\* becomes unreachable or reachable.
NodeMoves(e) ==
  /\ \E h \in Heights \ {head[e]} : head' = [head EXCEPT ![e] = h]
  /\ UNCHANGED <<healthy, roundVars, up>>

NodeFlips(e) ==
  /\ up' = [up EXCEPT ![e] = ~@]
  /\ UNCHANGED <<healthy, roundVars, head>>

Checker ==
  \/ Start \/ Tick
  \/ \E e \in Endpoints : CheckEndpoint(e) \/ Apply(e)
  \/ UpdateHighestBlock
  \/ Return

Environment ==
  \/ Stop
  \/ \E e \in Endpoints : MarkDown(e) \/ NodeMoves(e) \/ NodeFlips(e)

CheckerNext == Checker \/ Environment

CheckerSpec == CheckerInit /\ [][CheckerNext]_checkerVars

\* The goroutines of a round run (there are finitely many, so all of them do),
\* the ticker ticks, and select, when both its cases keep being ready, does not
\* pick the ticker for ever.
CheckerFairness ==
  /\ WF_checkerVars(Checker)
  /\ SF_checkerVars(Return)

CheckerFairSpec == CheckerSpec /\ CheckerFairness

-----------------------------------------------------------------------------
\* Flags, heights and the locals of a round keep their types; answers are
\* outstanding or pending only inside a round.
CheckerTypeOK ==
  /\ healthy \in [Endpoints -> BOOLEAN]
  /\ blockHeight \in [Endpoints -> Heights]
  /\ highestBlock \in Heights
  /\ pc \in {"new", "round", "wait", "stopped"}
  /\ answer \in [Endpoints -> Heights]
  /\ waiting \subseteq pending /\ pending \subseteq Endpoints
  /\ pc # "round" => pending = {}
  /\ cancelled \in BOOLEAN
  /\ up \in [Endpoints -> BOOLEAN]
  /\ head \in [Endpoints -> Heights]

\* Between rounds, an endpoint offered to the load balancer answered the last
\* round, and its height is within MaxBlockLag of the published highest
\* block: the flags, the heights and highestBlock belong to one round
\* although they are stored separately and other goroutines clear flags.
LagRespected ==
  pc \in {"wait", "stopped"} =>
    \A e \in Endpoints :
      healthy[e] => blockHeight[e] # 0 /\ highestBlock - blockHeight[e] <= MaxBlockLag

\* The strengthening that makes LagRespected inductive: inside a round, the
\* flags of the endpoints already treated agree with this round's answers.
AppliedAgree ==
  pc \in {"round", "wait", "stopped"} =>
    \A e \in Endpoints \ pending :
      healthy[e] => /\ answer[e] # Failed
                    /\ blockHeight[e] = answer[e]
                    /\ BestAnswer - answer[e] <= MaxBlockLag

CollectedFirst == waiting # {} => pending = Endpoints

PublishedAgrees == pc \in {"wait", "stopped"} => highestBlock = BestAnswer

\* What f contributes to the round: its answer, or the head it would give now.
Contributes(f) == IF pc = "round" /\ f \notin waiting THEN answer[f] ELSE head[f]

\* Node e is reachable, has a block, and neither another answer nor the 0 that
\* maxHeight begins with is more than MaxBlockLag beyond what it contributes.
\* Heads that are close at every instant are not enough: the probes of a round
\* are answered at different instants, and a node that is answered late can
\* outrun one that was answered early, round after round.
Fit(e) ==
  /\ up[e] /\ head[e] # 0
  /\ \A h \in {0} \cup {Contributes(f) : f \in Endpoints} :
       h - Contributes(e) <= MaxBlockLag

\* A node that is fit for good, while heads keep moving, is offered again and
\* again, however often requests clear its flag, unless the checker is stopped.
Recovers ==
  \A e \in Endpoints : <>[](Fit(e) /\ ~cancelled) => []<>healthy[e]

\* A node that is gone for good is eventually never offered again.
Evicted ==
  \A e \in Endpoints : <>[](~up[e] /\ ~cancelled) => <>[]~healthy[e]

\* Stop returns: run() gets out of its loop, also from the middle of a round
\* and if the ticker competes with the cancelled context.
StopReturns == (cancelled /\ pc # "new") ~> (pc = "stopped")
=============================================================================
