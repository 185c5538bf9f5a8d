------------------------------ MODULE MultiLimiter ------------------------------
(***************************************************************************)
(* ratelimit.MultiLimiter: a global limiter and a limiter per chain, here  *)
(* a token bucket for all chains and a sliding window for one of them (the *)
(* other chains have none).  A request is asked for in two steps: first    *)
(* the global limiter is charged, then, without a lock over both, the      *)
(* limiter of the chain.  A request that the chain refuses has been paid   *)
(* for.  The limiters can be asked directly, too (AllowN).                 *)
(*                                                                         *)
(* SetChainLimiter is called once; a second limiter would start from       *)
(* nothing.                                                                *)
(***************************************************************************)
EXTENDS TokenBucket, SlidingWindow, FiniteSets

CONSTANTS
  Requests,    (* goroutines that ask *)
  One          (* what a request costs in the global bucket *)

ASSUME MultiConfig ==
  /\ One \in Costs /\ 1 \in Batches
  /\ WindowKeys = Keys /\ "none" \notin Keys
  /\ IsFiniteSet(Requests)

VARIABLES
  limited,     (* m.perChain has the chain's limiter *)
  asking,      (* requests that the global limiter has let through *)
  bunched      (* history: like excess, at the time of admission *)

multiVars == <<limited, asking, bunched>>
allVars == <<vars, windowVars, multiVars>>

NotAsking == [key |-> "none", onChain |-> FALSE]

MultiInit ==
  /\ Init /\ WindowInit
  /\ limited = FALSE
  /\ asking = [q \in Requests |-> NotAsking]
  /\ bunched = [k \in Keys |-> 0]

SetChainLimiter == limited' = TRUE /\ UNCHANGED <<asking, bunched, vars, windowVars>>

\* Mutant: the global limiter is asked, but not charged.
AskGlobalUncharged(q, k, onChain) ==
  /\ asking[q] = NotAsking /\ Enough(Refilled(bucket[k]), One)
  /\ asking' = [asking EXCEPT ![q] = [key |-> k, onChain |-> onChain]]
  /\ UNCHANGED <<vars, limited, bunched, windowVars>>

\* The global limiter: what it refuses is over.
AskGlobal(q, k, onChain) ==
  /\ asking[q] = NotAsking
  /\ Allow(k, One)
  /\ asking' = IF Enough(Refilled(bucket[k]), One)
               THEN [asking EXCEPT ![q] = [key |-> k, onChain |-> onChain]]
               ELSE asking
  /\ UNCHANGED <<limited, bunched, windowVars>>

\* The limiter of the chain, if there is one.
AskChain(q) ==
  LET k == asking[q].key
      asked == asking[q].onChain /\ limited
      granted == asked => Fits(Rotated(window[k]), 1)
  IN  /\ asking[q] # NotAsking
      /\ IF asked THEN WindowAllow(k, 1) ELSE UNCHANGED windowVars
      /\ asking' = [asking EXCEPT ![q] = NotAsking]
      /\ bunched' = IF granted THEN [bunched EXCEPT ![k] = @ + One] ELSE bunched
      /\ UNCHANGED <<limited, vars>>

Tick ==
  /\ TimePasses /\ WindowTick
  /\ bunched' = [k \in Keys |-> Less(bunched[k], Rate)]
  /\ UNCHANGED <<limited, asking>>

SweepBuckets == Cleanup /\ UNCHANGED <<windowVars, multiVars>>
SweepWindows == WindowCleanup /\ UNCHANGED <<vars, multiVars>>

MultiNext ==
  \/ SetChainLimiter
  \/ \E q \in Requests :
       AskChain(q) \/ \E k \in Keys, onChain \in BOOLEAN : AskGlobal(q, k, onChain)
  \/ \E k \in Keys : \/ \E n \in Costs : Allow(k, n) /\ UNCHANGED <<windowVars, multiVars>>
                     \/ \E n \in Batches : WindowAllow(k, n) /\ UNCHANGED <<vars, multiVars>>
  \/ SweepBuckets \/ SweepWindows
  \/ Stop /\ UNCHANGED <<windowVars, multiVars>>
  \/ WindowStop /\ UNCHANGED <<vars, multiVars>>
  \/ Tick

MultiSpec == MultiInit /\ [][MultiNext]_allVars

\* Time passes, and the cleanup tickers fire while they run.
MultiFairSpec ==
  MultiSpec /\ WF_allVars(Tick) /\ WF_allVars(SweepBuckets) /\ WF_allVars(SweepWindows)

-----------------------------------------------------------------------------
InFlight(k) == Cardinality({q \in Requests : asking[q].key = k})

\* Time may pass between the two checks, so requests paid for at different
\* times may be admitted together; but no stretch of time admits more than
\* Burst + Rate * t, and the requests that can be between the checks.
BunchBound ==
  \A k \in Keys : bunched[k] + One * InFlight(k) <= Burst + One * Cardinality(Requests)
=============================================================================
