------------------------------ MODULE TokenBucket ------------------------------
(***************************************************************************)
(* The token bucket limiters: proxy.RateLimiter, which the HTTP server     *)
(* uses with one bucket per client address, and its twin                   *)
(* ratelimit.TokenBucketLimiter, which admits n requests at a time and can *)
(* be stopped.  Both refill a bucket lazily when it is used, create it     *)
(* full on first use, and drop it when it has not been used for more than  *)
(* ten minutes.  Each method holds the mutex throughout.                   *)
(*                                                                         *)
(* Tokens are counted in units in which both the refill of one tick and    *)
(* the cost of a call are whole (a call may cost several units).  The      *)
(* record keeps the time since lastCheck, saturated at Horizon: from there *)
(* on the bucket is full and old enough to be dropped.                     *)
(***************************************************************************)
EXTENDS Naturals

CONSTANTS
  Keys,       (* client addresses                            *)
  Costs,      (* units a call may ask for                    *)
  Rate,       (* units refilled per tick                     *)
  Burst,      (* capacity in units                           *)
  IdleLimit   (* ticks a bucket may be unused: ten minutes   *)

ASSUME LimiterConfig ==
  /\ Costs \subseteq Nat \ {0}
  /\ Rate \in Nat \ {0}
  /\ Burst \in Nat
  /\ IdleLimit \in Nat

\* What makes dropping a bucket harmless: it would be full again.  100
\* requests per second fill a bucket of 200 in two seconds, but nothing in
\* the code relates the settings to the ten minutes.
FullWhenDropped == Rate * (IdleLimit + 1) >= Burst

VARIABLES
  bucket,    (* rl.buckets; NoBucket for a key that is not in the map      *)
  stopped,   (* Stop ended the cleanup goroutine                           *)
  excess     (* history: the most any stretch of time up to now admitted   *)
             (* beyond Rate times its length, per key                      *)

vars == <<bucket, stopped, excess>>

Horizon == IdleLimit + 1 + Burst
NoBucket == [present |-> FALSE, tokens |-> 0, idle |-> 0]
Bucket == [present : BOOLEAN, tokens : 0..Burst, idle : 0..Horizon]

Least(a, b) == IF a <= b THEN a ELSE b
Less(a, b) == IF a >= b THEN a - b ELSE 0

Init ==
  /\ bucket = [k \in Keys |-> NoBucket]
  /\ stopped = FALSE
  /\ excess = [k \in Keys |-> 0]

-----------------------------------------------------------------------------
\* Mutant: the capacity is forgotten.
RefilledUncapped(b) == IF b.present THEN b.tokens + b.idle * Rate ELSE Burst

\* Tokens at the time of a call: a new bucket is full, an old one is
\* refilled for the time since it was last used.
Refilled(b) == IF b.present THEN Least(Burst, b.tokens + b.idle * Rate) ELSE Burst

Enough(tokens, n) == tokens >= n

\* Mutant: a refused call refills the bucket but does not move lastCheck.
AllowRefillsTwice(k, n) ==
  LET tokens == Refilled(bucket[k])
  IN  /\ IF Enough(tokens, n)
         THEN /\ bucket' = [bucket EXCEPT ![k] =
                    [present |-> TRUE, tokens |-> tokens - n, idle |-> 0]]
              /\ excess' = [excess EXCEPT ![k] = @ + n]
         ELSE /\ bucket' = [bucket EXCEPT ![k].present = TRUE, ![k].tokens = tokens]
              /\ UNCHANGED excess
      /\ UNCHANGED stopped

\* Allow and AllowN.
Allow(k, n) ==
  LET tokens == Refilled(bucket[k])
      granted == Enough(tokens, n)
  IN  /\ bucket' = [bucket EXCEPT ![k] =
            [present |-> TRUE, tokens |-> IF granted THEN tokens - n ELSE tokens,
             idle |-> 0]]
      /\ excess' = IF granted THEN [excess EXCEPT ![k] = @ + n] ELSE excess
      /\ UNCHANGED stopped

\* Mutant: the sweep looks for buckets older than any bucket gets.
SweepNothing(b) == b.idle > Horizon

\* Is the bucket old enough to be dropped?
Expired(b) == b.idle > IdleLimit

\* One pass of the cleanup goroutine.
Cleanup ==
  /\ ~stopped
  /\ bucket' = [k \in Keys |-> IF Expired(bucket[k]) THEN NoBucket ELSE bucket[k]]
  /\ UNCHANGED <<stopped, excess>>

\* Stop may be called once; a second call panics on the closed channel.
Stop ==
  /\ ~stopped
  /\ stopped' = TRUE
  /\ UNCHANGED <<bucket, excess>>

\* One tick of the clock.
TimePasses ==
  /\ bucket' = [k \in Keys |->
       IF bucket[k].present
       THEN [bucket[k] EXCEPT !.idle = Least(Horizon, @ + 1)]
       ELSE bucket[k]]
  /\ excess' = [k \in Keys |-> Less(excess[k], Rate)]
  /\ UNCHANGED stopped

Next ==
  \/ \E k \in Keys, n \in Costs : Allow(k, n)
  \/ Cleanup
  \/ Stop
  \/ TimePasses

Spec == Init /\ [][Next]_vars

-----------------------------------------------------------------------------
\* Buckets hold between 0 and Burst tokens; a key without one has no fields.
TypeOK ==
  /\ bucket \in [Keys -> Bucket]
  /\ \A k \in Keys : ~bucket[k].present => bucket[k] = NoBucket
  /\ stopped \in BOOLEAN
  /\ excess \in [Keys -> Nat]

\* No key is ever granted more than Burst + Rate * t in any t ticks,
\* wherever the stretch begins and however often its bucket was dropped and
\* created anew in between, given FullWhenDropped.
RateBound == \A k \in Keys : excess[k] <= Burst

\* The strengthening: what a key has left and what it overdrew add up to at
\* most Burst.
Balanced == \A k \in Keys : excess[k] + Refilled(bucket[k]) <= Burst

\* Lazy refills, late creation and eviction cannot be told from a meter that
\* runs all the time.
Meter == INSTANCE RateMeter WITH credit <- [k \in Keys |-> Refilled(bucket[k])]

ImplementsMeter == Meter!Spec

\* A bucket that nobody uses any more is eventually reclaimed, as long as
\* the cleanup goroutine runs.
Reclaimed ==
  \A k \in Keys : []<>(stopped \/ ~bucket[k].present \/ bucket[k].idle = 0)
=============================================================================
