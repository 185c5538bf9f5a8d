----------------------------- MODULE LimiterProofs -----------------------------
(***************************************************************************)
(* What TLAPS proves about the rate limiters, each on its own and asked    *)
(* one after the other, for every rate, capacity, window size, idle limit, *)
(* set of keys, of costs and of requests.                                  *)
(***************************************************************************)
EXTENDS MultiLimiter, FiniteSetTheorems, TLAPS

-----------------------------------------------------------------------------
(***************************************************************************)
(* The token bucket.                                                       *)
(***************************************************************************)

\* The arithmetic of refills, with the product named so that later steps are
\* linear.
LEMMA RefillArithmetic ==
  ASSUME NEW i \in Nat
  PROVE  /\ i * Rate \in Nat
         /\ (i + 1) * Rate = i * Rate + Rate
         /\ i * Rate >= i
<1> USE LimiterConfig DEF LimiterConfig
<1>1. i * Rate \in Nat
  OBVIOUS
<1>2. (i + 1) * Rate = i * Rate + Rate
  OBVIOUS
<1>3. i * Rate >= i
  <2>1. PICK d \in Nat : Rate = d + 1
    <3>1. Rate - 1 \in Nat /\ Rate = (Rate - 1) + 1
      OBVIOUS
    <3> QED
      BY <3>1
  <2>2. i * (d + 1) = i * d + i
    OBVIOUS
  <2>3. i * d \in Nat
    OBVIOUS
  <2> QED
    BY <2>1, <2>2, <2>3
<1> QED
  BY <1>1, <1>2, <1>3

\* Refilled returns a number of tokens within the capacity.
LEMMA RefilledTyped ==
  ASSUME NEW b \in Bucket
  PROVE  Refilled(b) \in 0..Burst
<1>1. b.idle \in Nat /\ b.tokens \in Nat
  BY LimiterConfig DEF LimiterConfig, Bucket, Horizon
<1>2. b.idle * Rate \in Nat
  BY <1>1, RefillArithmetic
<1> QED
  BY <1>1, <1>2, LimiterConfig DEF LimiterConfig, Refilled, Least

\* One tick of lazy refill is one tick of the meter, saturation included.
LEMMA RefillOneTick ==
  ASSUME NEW b \in Bucket, b.present,
         NEW c \in Bucket, c.present, c.tokens = b.tokens,
         c.idle = Least(Horizon, b.idle + 1)
  PROVE  Refilled(c) = Least(Burst, Refilled(b) + Rate)
<1> USE LimiterConfig DEF LimiterConfig
<1>1. /\ b.idle \in Nat /\ b.idle <= Horizon /\ Horizon \in Nat /\ Horizon >= Burst
      /\ b.tokens \in Nat
  BY DEF Bucket, Horizon
<1> DEFINE p == b.idle * Rate
<1>2. p \in Nat /\ p >= b.idle
  BY <1>1, RefillArithmetic
<1>3. CASE b.idle + 1 <= Horizon
  <2>1. c.idle * Rate = p + Rate
    BY <1>1, <1>3, RefillArithmetic DEF Least
  <2> HIDE DEF p
  <2>2. Refilled(b) = Least(Burst, b.tokens + p)
    BY DEF Refilled, p
  <2>3. Refilled(c) = Least(Burst, b.tokens + (p + Rate))
    BY <2>1 DEF Refilled
  <2> QED
    BY <1>1, <1>2, <2>2, <2>3 DEF Least
<1>4. CASE b.idle = Horizon
  <2>1. c.idle = b.idle
    BY <1>1, <1>4 DEF Least
  <2> HIDE DEF p
  <2>2. Refilled(b) = Least(Burst, b.tokens + p) /\ Refilled(c) = Refilled(b)
    BY <2>1 DEF Refilled, p
  <2> QED
    BY <1>1, <1>2, <1>4, <2>2 DEF Least
<1> QED
  BY <1>1, <1>3, <1>4

\* A bucket that is old enough to be dropped is full, if the settings are
\* as FullWhenDropped says.
LEMMA DroppedIsFull ==
  ASSUME FullWhenDropped, NEW b \in Bucket, b.present, Expired(b)
  PROVE  Refilled(b) = Burst
<1> USE LimiterConfig DEF LimiterConfig
<1>1. b.idle \in Nat /\ b.idle >= IdleLimit + 1 /\ b.tokens \in Nat
  BY DEF Bucket, Horizon, Expired
<1>2. PICK d \in Nat : b.idle = (IdleLimit + 1) + d
  <2>1. b.idle - (IdleLimit + 1) \in Nat
    BY <1>1
  <2> QED
    BY <1>1, <2>1
<1>3. b.idle * Rate = (IdleLimit + 1) * Rate + d * Rate
  BY <1>2
<1>4. d * Rate \in Nat /\ (IdleLimit + 1) * Rate \in Nat /\ b.idle * Rate \in Nat
  BY <1>1, RefillArithmetic
<1>5. (IdleLimit + 1) * Rate >= Burst
  BY DEF FullWhenDropped
<1>6. b.idle * Rate >= Burst
  BY <1>3, <1>4, <1>5
<1> QED
  BY <1>1, <1>4, <1>6 DEF Refilled, Least

-----------------------------------------------------------------------------
\* The map of buckets starts empty.
LEMMA InitTypeOK == Init => TypeOK
<1>1. NoBucket \in Bucket
  BY LimiterConfig DEF LimiterConfig, Bucket, NoBucket, Horizon
<1> SUFFICES ASSUME Init PROVE TypeOK
  OBVIOUS
<1>2. \A k \in Keys : bucket[k] = NoBucket
  BY DEF Init
<1>3. bucket \in [Keys -> Bucket] /\ excess \in [Keys -> Nat] /\ stopped \in BOOLEAN
  BY <1>1 DEF Init
<1> QED
  BY <1>2, <1>3 DEF TypeOK

\* Every call, sweep and tick keeps the buckets within their ranges.
LEMMA NextTypeOK == TypeOK /\ [Next]_vars => TypeOK'
<1> SUFFICES ASSUME TypeOK, [Next]_vars PROVE TypeOK'
  OBVIOUS
<1> USE LimiterConfig DEF LimiterConfig
<1>0. /\ bucket \in [Keys -> Bucket]
      /\ \A k \in Keys : ~bucket[k].present => bucket[k] = NoBucket
      /\ stopped \in BOOLEAN
      /\ excess \in [Keys -> Nat]
      /\ NoBucket \in Bucket
  BY DEF TypeOK, NoBucket, Bucket, Horizon
<1>1. ASSUME NEW k \in Keys, NEW n \in Costs, Allow(k, n)
      PROVE  TypeOK'
  <2> DEFINE tokens == Refilled(bucket[k])
             granted == Enough(tokens, n)
             rest == IF granted THEN tokens - n ELSE tokens
             new == [present |-> TRUE, tokens |-> rest, idle |-> 0]
  <2>1. tokens \in 0..Burst
    BY <1>0, RefilledTyped
  <2>2. rest \in 0..Burst
    BY <2>1 DEF Enough
  <2>3. new \in Bucket
    BY <2>2 DEF Bucket, Horizon
  <2>4. bucket' = [bucket EXCEPT ![k] = new] /\ UNCHANGED stopped
    BY <1>1 DEF Allow
  <2>5. excess' \in [Keys -> Nat]
    BY <1>0, <1>1 DEF Allow
  <2> QED
    BY <1>0, <2>3, <2>4, <2>5 DEF TypeOK
<1>2. CASE Cleanup
  BY <1>0, <1>2 DEF Cleanup, TypeOK
<1>3. CASE Stop
  BY <1>0, <1>3 DEF Stop, TypeOK
<1>4. CASE TimePasses
  <2>1. ASSUME NEW k \in Keys, bucket[k].present
        PROVE  [bucket[k] EXCEPT !.idle = Least(Horizon, bucket[k].idle + 1)] \in Bucket
    BY <1>0, <2>1 DEF Bucket, Least, Horizon
  <2>2. bucket' \in [Keys -> Bucket]
    BY <1>0, <1>4, <2>1 DEF TimePasses
  <2>3. \A k \in Keys : ~bucket'[k].present => bucket'[k] = NoBucket
    BY <1>0, <1>4 DEF TimePasses, Bucket
  <2>4. excess' \in [Keys -> Nat]
    BY <1>0, <1>4 DEF TimePasses, Less
  <2> QED
    BY <1>0, <1>4, <2>2, <2>3, <2>4 DEF TimePasses, TypeOK
<1>5. CASE UNCHANGED vars
  BY <1>0, <1>5 DEF vars, TypeOK
<1> QED
  BY <1>1, <1>2, <1>3, <1>4, <1>5 DEF Next

\* Every bucket always holds between 0 and Burst tokens.
THEOREM TypeCorrect == Spec => []TypeOK
  BY InitTypeOK, NextTypeOK, PTL DEF Spec

-----------------------------------------------------------------------------
\* What one step does to the credit of a key, the refinement mapping of Meter.
Credit(k) == Refilled(bucket[k])

\* What a call of Allow does to the credit: it pays n or changes nothing.
LEMMA AllowCredit ==
  ASSUME TypeOK, NEW k \in Keys, NEW n \in Costs, Allow(k, n)
  PROVE  \/ /\ Enough(Credit(k), n)
            /\ \A j \in Keys : Credit(j)' = IF j = k THEN Credit(k) - n ELSE Credit(j)
            /\ excess' = [excess EXCEPT ![k] = @ + n]
         \/ /\ \A j \in Keys : Credit(j)' = Credit(j)
            /\ excess' = excess
<1> USE LimiterConfig DEF LimiterConfig
<1> DEFINE tokens == Refilled(bucket[k])
           granted == Enough(tokens, n)
           rest == IF granted THEN tokens - n ELSE tokens
           new == [present |-> TRUE, tokens |-> rest, idle |-> 0]
<1>1. tokens \in 0..Burst /\ bucket \in [Keys -> Bucket]
  BY RefilledTyped DEF TypeOK
<1>2. rest \in 0..Burst
  BY <1>1 DEF Enough
<1>3. bucket' = [bucket EXCEPT ![k] = new]
  BY DEF Allow
<1>4. Refilled(new) = rest
  <2>1. 0 * Rate = 0
    OBVIOUS
  <2>2. new.present /\ new.tokens = rest /\ new.idle = 0
    OBVIOUS
  <2> HIDE DEF new, rest
  <2> QED
    BY <1>2, <2>1, <2>2 DEF Refilled, Least
<1> HIDE DEF new
<1>5. \A j \in Keys : Credit(j)' = IF j = k THEN rest ELSE Credit(j)
  BY <1>1, <1>3, <1>4 DEF Credit
<1>6. CASE granted
  BY <1>5, <1>6 DEF Allow, Credit
<1>7. CASE ~granted
  BY <1>5, <1>7 DEF Allow, Credit
<1> QED
  BY <1>6, <1>7

\* A sweep changes no credit.
LEMMA CleanupCredit ==
  ASSUME FullWhenDropped, TypeOK, Cleanup
  PROVE  \A k \in Keys : Credit(k)' = Credit(k)
<1> SUFFICES ASSUME NEW k \in Keys PROVE Credit(k)' = Credit(k)
  OBVIOUS
<1>1. CASE bucket[k].present /\ Expired(bucket[k])
  <2>1. Refilled(bucket[k]) = Burst
    BY <1>1, DroppedIsFull DEF TypeOK
  <2>2. bucket'[k] = NoBucket
    BY <1>1 DEF Cleanup
  <2> QED
    BY <2>1, <2>2 DEF Credit, Refilled, NoBucket
<1>2. CASE ~(bucket[k].present /\ Expired(bucket[k]))
  BY <1>2 DEF TypeOK, Cleanup, Credit
<1> QED
  BY <1>1, <1>2

\* A tick of the clock adds Rate, up to Burst.
LEMMA TickCredit ==
  ASSUME TypeOK, TypeOK', TimePasses
  PROVE  \A k \in Keys : Credit(k)' = Least(Burst, Credit(k) + Rate)
<1> SUFFICES ASSUME NEW k \in Keys PROVE Credit(k)' = Least(Burst, Credit(k) + Rate)
  OBVIOUS
<1>0. bucket[k] \in Bucket /\ bucket'[k] \in Bucket
  BY DEF TypeOK
<1>1. CASE bucket[k].present
  <2>1. /\ bucket'[k].present /\ bucket'[k].tokens = bucket[k].tokens
        /\ bucket'[k].idle = Least(Horizon, bucket[k].idle + 1)
    BY <1>0, <1>1 DEF TimePasses, Bucket
  <2> QED
    BY <1>0, <1>1, <2>1, RefillOneTick DEF Credit
<1>2. CASE ~bucket[k].present
  <2>1. bucket'[k] = bucket[k]
    BY <1>2 DEF TimePasses
  <2>2. Credit(k) = Burst /\ Credit(k)' = Burst
    BY <1>2, <2>1 DEF Credit, Refilled
  <2> QED
    BY <2>2, LimiterConfig DEF LimiterConfig, Least
<1> QED
  BY <1>1, <1>2

-----------------------------------------------------------------------------
\* Balanced is inductive: a grant moves units from the credit to the excess,
\* a tick adds at most Rate to the one and takes up to Rate from the other,
\* and dropping a full bucket changes neither.
LEMMA NextBalanced ==
  ASSUME FullWhenDropped, TypeOK, TypeOK', Balanced, [Next]_vars
  PROVE  Balanced'
<1> USE LimiterConfig DEF LimiterConfig
<1>0. \A k \in Keys : /\ excess[k] \in Nat
                      /\ Credit(k) \in 0..Burst
                      /\ excess[k] + Credit(k) <= Burst
  BY RefilledTyped DEF TypeOK, Balanced, Credit
<1> SUFFICES ASSUME NEW k \in Keys
             PROVE  excess'[k] + Credit(k)' <= Burst
  BY DEF Balanced, Credit
<1>1. ASSUME NEW j \in Keys, NEW n \in Costs, Allow(j, n)
      PROVE  excess'[k] + Credit(k)' <= Burst
  BY <1>0, <1>1, AllowCredit DEF TypeOK, Enough
<1>2. CASE Cleanup
  BY <1>0, <1>2, CleanupCredit DEF Cleanup
<1>3. CASE Stop
  BY <1>0, <1>3 DEF Stop, Credit
<1>4. CASE TimePasses
  <2>1. Credit(k)' = Least(Burst, Credit(k) + Rate)
    BY <1>4, TickCredit
  <2>2. excess'[k] = Less(excess[k], Rate)
    BY <1>4 DEF TimePasses
  <2> QED
    BY <1>0, <2>1, <2>2 DEF Least, Less
<1>5. CASE UNCHANGED vars
  BY <1>0, <1>5 DEF vars, Credit
<1> QED
  BY <1>1, <1>2, <1>3, <1>4, <1>5 DEF Next

\* No client gets more than Burst plus Rate per tick over any stretch of
\* time, although its bucket is refilled lazily and may be dropped and
\* created full in between.
THEOREM RateLimited ==
  ASSUME FullWhenDropped
  PROVE  Spec => []RateBound
<1>1. Init => Balanced
  <2> SUFFICES ASSUME Init, NEW k \in Keys
               PROVE  excess[k] + Refilled(bucket[k]) <= Burst
    BY DEF Balanced
  <2>1. excess[k] = 0 /\ ~bucket[k].present
    BY DEF Init, NoBucket
  <2>2. Refilled(bucket[k]) = Burst
    BY <2>1 DEF Refilled
  <2> QED
    BY <2>1, <2>2, LimiterConfig DEF LimiterConfig
<1>2. TypeOK /\ TypeOK' /\ Balanced /\ [Next]_vars => Balanced'
  BY NextBalanced
<1>3. TypeOK /\ Balanced => RateBound
  <2> SUFFICES ASSUME TypeOK, Balanced, NEW k \in Keys PROVE excess[k] <= Burst
    BY DEF RateBound
  <2>1. excess[k] \in Nat /\ Refilled(bucket[k]) \in 0..Burst
    BY RefilledTyped DEF TypeOK
  <2>2. excess[k] + Refilled(bucket[k]) <= Burst
    BY DEF Balanced
  <2> QED
    BY <2>1, <2>2, LimiterConfig DEF LimiterConfig
<1> QED
  BY <1>1, <1>2, <1>3, TypeCorrect, PTL DEF Spec

\* The lazy buckets implement the meter that runs all the time.
THEOREM Refinement ==
  ASSUME FullWhenDropped
  PROVE  Spec => ImplementsMeter
<1> DEFINE credit == [k \in Keys |-> Credit(k)]
<1>1. Init => Meter!Init
  BY DEF Init, Meter!Init, Refilled, NoBucket
<1>2. TypeOK /\ TypeOK' /\ [Next]_vars => [Meter!Next]_credit
  <2> SUFFICES ASSUME TypeOK, TypeOK', [Next]_vars
               PROVE  Meter!Next \/ credit' = credit
    OBVIOUS
  <2>1. ASSUME NEW k \in Keys, NEW n \in Costs, Allow(k, n)
        PROVE  Meter!Next \/ credit' = credit
    <3>1. CASE \A j \in Keys : Credit(j)' = Credit(j)
      BY <3>1
    <3>2. CASE /\ Enough(Credit(k), n)
               /\ \A j \in Keys : Credit(j)' = IF j = k THEN Credit(k) - n ELSE Credit(j)
      <4>1. credit[k] >= n
        BY <3>2 DEF Enough
      <4>2. credit' = [credit EXCEPT ![k] = credit[k] - n]
        BY <3>2
      <4>3. Meter!Admit(k, n)
        BY <4>1, <4>2 DEF Meter!Admit, Credit
      <4> QED
        BY <4>3 DEF Meter!Next
    <3> QED
      BY <2>1, <3>1, <3>2, AllowCredit
  <2>2. CASE Cleanup
    BY <2>2, CleanupCredit
  <2>3. CASE Stop
    BY <2>3 DEF Stop, Credit
  <2>4. CASE TimePasses
    <3>1. credit' = [k \in Keys |-> Least(Burst, credit[k] + Rate)]
      BY <2>4, TickCredit
    <3>2. Meter!Earn
      BY <3>1 DEF Meter!Earn, Meter!Least, Least, Credit
    <3> QED
      BY <3>2 DEF Meter!Next
  <2>5. CASE UNCHANGED vars
    BY <2>5 DEF vars, Credit
  <2> QED
    BY <2>1, <2>2, <2>3, <2>4, <2>5 DEF Next
<1>3. [Meter!Next]_credit <=> [Meter!Next]_([k \in Keys |-> Refilled(bucket[k])])
  BY DEF Credit
<1> QED
  BY <1>1, <1>2, <1>3, TypeCorrect, PTL DEF Spec, ImplementsMeter, Meter!Spec

-----------------------------------------------------------------------------
(***************************************************************************)
(* The sliding window.                                                     *)
(***************************************************************************)

\* Products grow with their factors.
LEMMA ProductMonotone ==
  ASSUME NEW a \in Nat, NEW b \in Nat, a <= b, NEW c \in Nat, NEW d \in Nat, c <= d
  PROVE  a * c \in Nat /\ b * d \in Nat /\ a * c <= b * d
<1>1. PICK x \in Nat : b = a + x
  <2>1. b - a \in Nat /\ b = a + (b - a)
    OBVIOUS
  <2> QED
    BY <2>1
<1>2. PICK y \in Nat : d = c + y
  <2>1. d - c \in Nat /\ d = c + (d - c)
    OBVIOUS
  <2> QED
    BY <2>1
<1>3. (a + x) * (c + y) = a * c + a * y + x * c + x * y
  OBVIOUS
<1>4. a * c \in Nat /\ a * y \in Nat /\ x * c \in Nat /\ x * y \in Nat
  OBVIOUS
<1> QED
  BY <1>1, <1>2, <1>3, <1>4

LEMMA ProductCancel ==
  ASSUME NEW a \in Nat, NEW b \in Nat, NEW c \in Nat \ {0}, a * c <= b * c
  PROVE  a <= b
<1> SUFFICES ASSUME ~(a <= b) PROVE FALSE
  OBVIOUS
<1>1. (b + 1) * c \in Nat /\ a * c \in Nat /\ (b + 1) * c <= a * c
  BY ProductMonotone
<1>2. (b + 1) * c = b * c + c /\ b * c \in Nat
  OBVIOUS
<1> QED
  BY <1>1, <1>2

-----------------------------------------------------------------------------
Window == [present : BOOLEAN, prev : Nat, curr : Nat, behind : Nat]

\* What Rotated makes of the two counts.
Curr(w) == IF w.behind = 0 THEN w.curr ELSE 0
Prev(w) == IF w.behind = 0 THEN w.prev ELSE IF w.behind = 1 THEN w.curr ELSE 0

\* The estimate for these counts at phase f is within the rate.
Room(curr, prev, f) == prev * (WindowSize - f) + curr * WindowSize <= WindowRate * WindowSize

WindowTypeOK ==
  /\ window \in [WindowKeys -> Window]
  /\ \A k \in WindowKeys : ~window[k].present => window[k] = NoWindow
  /\ phase \in 0..(WindowSize - 1)
  /\ recent \in [WindowKeys -> [1..WindowSize -> Nat]]

\* The counts cover what was admitted: the current one since the window
\* began, both together in the last WindowSize ticks; and they are within
\* what the estimate allows.
Covered(k) ==
  LET curr == Curr(window[k])
      prev == Prev(window[k])
  IN  /\ \A i \in 1..(phase + 1) : recent[k][i] <= curr
      /\ \A i \in 1..WindowSize : recent[k][i] <= curr + prev
      /\ prev <= WindowRate
      /\ Room(curr, prev, phase)

WindowInv == WindowTypeOK /\ \A k \in WindowKeys : Covered(k)

\* Rotated is a window of the current time with the counts Curr and Prev.
LEMMA RotatedCounts ==
  ASSUME NEW w \in Window
  PROVE  /\ Rotated(w) \in Window
         /\ Rotated(w).behind = 0
         /\ Rotated(w).curr = Curr(w) /\ Rotated(w).prev = Prev(w)
<1>1. CASE w.behind = 0
  <2>1. Rotated(w) = w
    BY <1>1 DEF Rotated
  <2> QED
    BY <1>1, <2>1 DEF Curr, Prev
<1>2. CASE w.behind = 1
  <2>1. Rotated(w) = [w EXCEPT !.prev = w.curr, !.curr = 0, !.behind = 0]
    BY <1>2 DEF Rotated
  <2>2. [w EXCEPT !.prev = w.curr, !.curr = 0, !.behind = 0] \in Window
    BY DEF Window
  <2>3. LET v == [w EXCEPT !.prev = w.curr, !.curr = 0, !.behind = 0]
        IN  v.behind = 0 /\ v.curr = 0 /\ v.prev = w.curr
    BY DEF Window
  <2> QED
    BY <1>2, <2>1, <2>2, <2>3 DEF Curr, Prev
<1>3. CASE w.behind \notin {0, 1}
  <2>1. w.behind >= 2
    BY <1>3 DEF Window
  <2>2. Rotated(w) = [w EXCEPT !.prev = 0, !.curr = 0, !.behind = 0]
    BY <1>3, <2>1 DEF Rotated
  <2>3. [w EXCEPT !.prev = 0, !.curr = 0, !.behind = 0] \in Window
    BY DEF Window
  <2>4. LET v == [w EXCEPT !.prev = 0, !.curr = 0, !.behind = 0]
        IN  v.behind = 0 /\ v.curr = 0 /\ v.prev = 0
    BY DEF Window
  <2> QED
    BY <1>3, <2>2, <2>3, <2>4 DEF Curr, Prev
<1> QED
  BY <1>1, <1>2, <1>3

\* What is within the estimate is within the rate.
LEMMA RoomForCurr ==
  ASSUME NEW c \in Nat, NEW p \in Nat, NEW f \in 0..(WindowSize - 1), Room(c, p, f)
  PROVE  c <= WindowRate
<1> USE WindowConfig DEF WindowConfig
<1>1. p * (WindowSize - f) \in Nat
  <2>1. WindowSize - f \in Nat
    OBVIOUS
  <2> QED
    BY <2>1, ProductMonotone
<1>2. c * WindowSize \in Nat /\ WindowRate * WindowSize \in Nat
  BY ProductMonotone
<1>3. c * WindowSize <= WindowRate * WindowSize
  BY <1>1, <1>2 DEF Room
<1> QED
  BY <1>3, ProductCancel

\* The estimate only falls while nothing is admitted.
LEMMA RoomLater ==
  ASSUME NEW c \in Nat, NEW p \in Nat, NEW f \in 0..(WindowSize - 2), Room(c, p, f)
  PROVE  Room(c, p, f + 1)
<1> USE WindowConfig DEF WindowConfig
<1> DEFINE x == WindowSize - f
           y == WindowSize - (f + 1)
<1>1. x \in Nat /\ y \in Nat /\ y <= x
  OBVIOUS
<1>2. p * y \in Nat /\ p * x \in Nat /\ p * y <= p * x
  BY <1>1, ProductMonotone
<1>3. c * WindowSize \in Nat /\ WindowRate * WindowSize \in Nat
  BY ProductMonotone
<1>4. p * x + c * WindowSize <= WindowRate * WindowSize
  BY DEF Room
<1>5. p * y + c * WindowSize <= WindowRate * WindowSize
  <2> HIDE DEF x, y
  <2> QED
    BY <1>2, <1>3, <1>4
<1> QED
  BY <1>5 DEF Room

\* A window at the rate leaves room as the previous one.
LEMMA RoomTurned ==
  ASSUME NEW c \in Nat, c <= WindowRate
  PROVE  Room(0, c, 0)
<1> USE WindowConfig DEF WindowConfig
<1>1. c * WindowSize <= WindowRate * WindowSize /\ c * WindowSize \in Nat
  BY ProductMonotone
<1>2. WindowSize - 0 = WindowSize /\ 0 * WindowSize = 0
  OBVIOUS
<1> QED
  BY <1>1, <1>2 DEF Room

-----------------------------------------------------------------------------
LEMMA InitWindowInv == WindowInit => WindowInv
<1> SUFFICES ASSUME WindowInit PROVE WindowInv
  OBVIOUS
<1> USE WindowConfig DEF WindowConfig, WindowInit
<1>1. NoWindow \in Window /\ Curr(NoWindow) = 0 /\ Prev(NoWindow) = 0
  BY DEF NoWindow, Window, Curr, Prev
<1>2. WindowTypeOK
  BY <1>1 DEF WindowTypeOK
<1>3. Room(0, 0, 0)
  BY RoomTurned
<1> QED
  BY <1>1, <1>2, <1>3 DEF WindowInv, Covered

\* A call moves the counts and adds what it admits to the current one.
LEMMA WindowAllowKeeps ==
  ASSUME WindowInv, NEW k \in WindowKeys, NEW n \in Batches, WindowAllow(k, n)
  PROVE  WindowInv'
<1> USE WindowConfig DEF WindowConfig
<1> DEFINE w == [Rotated(window[k]) EXCEPT !.present = TRUE]
           c == Curr(window[k])
           p == Prev(window[k])
<1>0. n \in Nat
  OBVIOUS
<1>1. WindowTypeOK /\ window[k] \in Window /\ phase' = phase
  BY DEF WindowInv, WindowTypeOK, WindowAllow
<1>2. /\ w \in Window /\ w.behind = 0 /\ w.curr = c /\ w.prev = p /\ w.present
      /\ c \in Nat /\ p \in Nat
  BY <1>1, RotatedCounts DEF Window, Curr, Prev
<1>3. CASE Fits(w, n)
  <2> DEFINE w2 == [w EXCEPT !.curr = w.curr + n]
  <2>1. /\ window' = [window EXCEPT ![k] = w2]
        /\ recent' = [recent EXCEPT ![k] = [i \in 1..WindowSize |-> recent[k][i] + n]]
    BY <1>3 DEF WindowAllow, Admit
  <2>2. Room(c + n, p, phase)
    BY <1>2, <1>3 DEF Fits, Room
  <2> HIDE DEF w
  <2>3. w2 \in Window /\ w2.behind = 0 /\ w2.curr = c + n /\ w2.prev = p /\ w2.present
    BY <1>0, <1>2 DEF Window
  <2> HIDE DEF w2
  <2>4. Curr(w2) = c + n /\ Prev(w2) = p
    BY <2>3 DEF Curr, Prev
  <2>5. \A j \in 1..WindowSize : recent'[k][j] = recent[k][j] + n /\ recent[k][j] \in Nat
    BY <1>1, <2>1 DEF WindowTypeOK
  <2>6. WindowTypeOK'
    <3>1. [i \in 1..WindowSize |-> recent[k][i] + n] \in [1..WindowSize -> Nat]
      BY <1>0, <2>5
    <3> QED
      BY <1>1, <2>1, <2>3, <3>1 DEF WindowTypeOK
  <2>7. Covered(k)'
    <3>1. window'[k] = w2
      BY <1>1, <2>1 DEF WindowTypeOK
    <3>2. /\ \A i \in 1..(phase + 1) : recent[k][i] <= c
          /\ \A i \in 1..WindowSize : recent[k][i] <= c + p
          /\ p <= WindowRate
      BY DEF WindowInv, Covered
    <3>3. \A i \in 1..(phase + 1) : i \in 1..WindowSize
      BY <1>1 DEF WindowTypeOK
    <3> HIDE DEF c, p
    <3>4. \A i \in 1..(phase + 1) : recent'[k][i] <= c + n
      BY <1>0, <1>2, <2>5, <3>2, <3>3
    <3>5. \A i \in 1..WindowSize : recent'[k][i] <= c + n + p
      BY <1>0, <1>2, <2>5, <3>2
    <3> QED
      BY <1>1, <2>2, <2>4, <3>1, <3>2, <3>4, <3>5 DEF Covered
  <2>8. ASSUME NEW j \in WindowKeys, j # k PROVE Covered(j)'
    <3>1. window'[j] = window[j] /\ recent'[j] = recent[j]
      BY <1>1, <2>1, <2>8 DEF WindowTypeOK
    <3> QED
      BY <1>1, <3>1 DEF WindowInv, Covered
  <2> QED
    BY <2>6, <2>7, <2>8 DEF WindowInv
<1>4. CASE ~Fits(w, n)
  <2>1. window' = [window EXCEPT ![k] = w] /\ recent' = recent
    BY <1>4 DEF WindowAllow
  <2> HIDE DEF w
  <2>2. Curr(w) = c /\ Prev(w) = p
    BY <1>2 DEF Curr, Prev
  <2>3. WindowTypeOK'
    BY <1>1, <1>2, <2>1 DEF WindowTypeOK
  <2>4. \A j \in WindowKeys : Curr(window'[j]) = Curr(window[j]) /\ Prev(window'[j]) = Prev(window[j])
    BY <1>1, <2>1, <2>2 DEF WindowTypeOK
  <2> QED
    BY <1>1, <2>1, <2>3, <2>4 DEF WindowInv, Covered
<1> QED
  BY <1>3, <1>4

\* Only a key whose two windows are over is dropped.
LEMMA WindowCleanupKeeps ==
  ASSUME WindowInv, WindowCleanup
  PROVE  WindowInv'
<1> USE WindowConfig DEF WindowConfig
<1>1. WindowTypeOK /\ phase' = phase /\ recent' = recent
  BY DEF WindowInv, WindowCleanup
<1>2. NoWindow \in Window /\ Curr(NoWindow) = 0 /\ Prev(NoWindow) = 0
  BY DEF NoWindow, Window, Curr, Prev
<1>3. WindowTypeOK'
  BY <1>1, <1>2 DEF WindowTypeOK, WindowCleanup
<1>4. ASSUME NEW k \in WindowKeys, window[k].present, WindowExpired(window[k])
      PROVE  Curr(window[k]) = 0 /\ Prev(window[k]) = 0
  <2>1. window[k].behind \in Nat /\ phase \in 0..(WindowSize - 1)
    BY <1>1 DEF WindowTypeOK, Window
  <2>2. window[k].behind * WindowSize + phase >= 2 * WindowSize
    <3>1. window[k].behind * WindowSize \in Nat
      BY <2>1, ProductMonotone
    <3> QED
      BY <1>4, <2>1, <3>1 DEF WindowExpired
  <2>3. window[k].behind # 0 /\ window[k].behind # 1
    <3>1. 0 * WindowSize = 0 /\ 1 * WindowSize = WindowSize
      OBVIOUS
    <3> QED
      BY <2>1, <2>2, <3>1
  <2> QED
    BY <2>3 DEF Curr, Prev
<1>5. \A k \in WindowKeys : Curr(window'[k]) = Curr(window[k]) /\ Prev(window'[k]) = Prev(window[k])
  BY <1>1, <1>2, <1>4 DEF WindowCleanup
<1> QED
  BY <1>1, <1>3, <1>5 DEF WindowInv, Covered

\* A tick either only ages the counts, or it begins a window: the current
\* count becomes the previous one.
LEMMA WindowTickKeeps ==
  ASSUME WindowInv, WindowTick
  PROVE  WindowInv'
<1> USE WindowConfig DEF WindowConfig
<1>1. /\ WindowTypeOK /\ phase \in Nat /\ phase <= WindowSize - 1
      /\ \A k \in WindowKeys : window[k] \in Window
  BY DEF WindowInv, WindowTypeOK
<1>2. /\ recent' \in [WindowKeys -> [1..WindowSize -> Nat]]
      /\ \A k \in WindowKeys : /\ recent'[k][1] = 0
                               /\ \A i \in 2..WindowSize : recent'[k][i] = recent[k][i - 1]
  <2>1. \A i \in 1..WindowSize : i = 1 \/ i - 1 \in 1..WindowSize
    OBVIOUS
  <2>2. recent' = [k \in WindowKeys |-> [i \in 1..WindowSize |->
           IF i = 1 THEN 0 ELSE recent[k][i - 1]]]
    BY DEF WindowTick
  <2>3. \A k \in WindowKeys : \A i \in 1..WindowSize :
          (IF i = 1 THEN 0 ELSE recent[k][i - 1]) \in Nat
    BY <1>1, <2>1 DEF WindowTypeOK
  <2> QED
    BY <2>2, <2>3
<1>3. \A k \in WindowKeys : /\ Curr(window[k]) \in Nat /\ Prev(window[k]) \in Nat
                            /\ \A i \in 1..WindowSize : recent[k][i] \in Nat
  BY <1>1 DEF Curr, Prev, Window, WindowTypeOK
<1>4. CASE phase + 1 = WindowSize
  <2>1. /\ phase' = 0
        /\ window' = [k \in WindowKeys |->
             IF window[k].present
             THEN [window[k] EXCEPT !.behind = Nearer(window[k].behind)] ELSE window[k]]
    BY <1>4 DEF WindowTick
  <2>2. Nearer(0) = 1 /\ \A b \in Nat : Nearer(b) \in Nat /\ (b > 0 => Nearer(b) >= 2)
    <3>1. Far \in Nat /\ Far >= 2
      BY DEF Far
    <3> QED
      BY <3>1 DEF Nearer
  <2>3. ASSUME NEW k \in WindowKeys
        PROVE  /\ window'[k] \in Window
               /\ Curr(window'[k]) = 0 /\ Prev(window'[k]) = Curr(window[k])
               /\ ~window'[k].present => window'[k] = NoWindow
    <3>1. CASE window[k].present
      <4>1. window'[k] = [window[k] EXCEPT !.behind = Nearer(window[k].behind)]
        BY <2>1, <3>1
      <4>2. Nearer(window[k].behind) \in Nat /\ window[k].behind \in Nat
        BY <1>1, <2>2 DEF Window
      <4>3. window'[k] \in Window
        BY <1>1, <4>1, <4>2 DEF Window
      <4>4. /\ window'[k].behind = Nearer(window[k].behind)
            /\ window'[k].curr = window[k].curr
        BY <1>1, <4>1 DEF Window
      <4>5. window'[k].present
        BY <1>1, <3>1, <4>1 DEF Window
      <4> QED
        BY <2>2, <4>2, <4>3, <4>4, <4>5 DEF Curr, Prev
    <3>2. CASE ~window[k].present
      <4>1. window[k] = NoWindow
        BY <1>1, <3>2 DEF WindowTypeOK
      <4>2. window'[k] = NoWindow
        BY <2>1, <3>2, <4>1
      <4>3. NoWindow.behind = 0 /\ NoWindow.curr = 0 /\ NoWindow.prev = 0
        BY DEF NoWindow
      <4>4. window'[k] \in Window
        BY <1>1, <4>1, <4>2
      <4> QED
        BY <4>1, <4>2, <4>3, <4>4 DEF Curr, Prev
    <3> QED
      BY <3>1, <3>2
  <2>4. WindowTypeOK'
    <3>1. window' \in [WindowKeys -> Window]
      BY <2>1, <2>3
    <3>2. phase' \in 0..(WindowSize - 1)
      BY <2>1
    <3> QED
      BY <1>2, <2>3, <3>1, <3>2 DEF WindowTypeOK
  <2>5. ASSUME NEW k \in WindowKeys PROVE Covered(k)'
    <3>1. /\ \A i \in 1..WindowSize : recent[k][i] <= Curr(window[k])
          /\ Curr(window[k]) <= WindowRate
      BY <1>1, <1>3, <1>4, RoomForCurr DEF WindowInv, Covered
    <3>2. \A i \in 1..(phase' + 1) : i = 1
      BY <2>1
    <3>3. \A i \in 1..WindowSize : i = 1 \/ (i \in 2..WindowSize /\ i - 1 \in 1..WindowSize)
      OBVIOUS
    <3>4. ASSUME NEW i \in 1..WindowSize PROVE recent'[k][i] <= 0 + Curr(window[k])
      <4>1. CASE i = 1
        BY <1>2, <1>3, <4>1
      <4>2. CASE i \in 2..WindowSize /\ i - 1 \in 1..WindowSize
        BY <1>2, <1>3, <3>1, <4>2
      <4> QED
        BY <3>3, <4>1, <4>2
    <3>5. Room(0, Curr(window[k]), 0)
      BY <1>3, <3>1, RoomTurned
    <3> QED
      BY <1>2, <2>1, <2>3, <3>1, <3>2, <3>4, <3>5 DEF Covered
  <2> QED
    BY <2>4, <2>5 DEF WindowInv
<1>5. CASE phase + 1 # WindowSize
  <2>1. phase' = phase + 1 /\ phase \in 0..(WindowSize - 2)
    BY <1>1, <1>5 DEF WindowTick
  <2>2. window' = window
    BY <1>1, <1>5 DEF WindowTick, WindowTypeOK
  <2>3. WindowTypeOK'
    BY <1>1, <1>2, <2>1, <2>2 DEF WindowTypeOK
  <2>4. ASSUME NEW k \in WindowKeys PROVE Covered(k)'
    <3>1. /\ \A i \in 1..(phase + 1) : recent[k][i] <= Curr(window[k])
          /\ \A i \in 1..WindowSize : recent[k][i] <= Curr(window[k]) + Prev(window[k])
          /\ Prev(window[k]) <= WindowRate
          /\ Room(Curr(window[k]), Prev(window[k]), phase)
      BY DEF WindowInv, Covered
    <3>2. \A i \in 1..(phase' + 1) : i = 1 \/ (i \in 2..WindowSize /\ i - 1 \in 1..(phase + 1))
      BY <2>1
    <3>3. \A i \in 1..WindowSize : i = 1 \/ (i \in 2..WindowSize /\ i - 1 \in 1..WindowSize)
      OBVIOUS
    <3>4. ASSUME NEW i \in 1..(phase' + 1) PROVE recent'[k][i] <= Curr(window[k])
      <4>1. CASE i = 1
        BY <1>2, <1>3, <4>1
      <4>2. CASE i \in 2..WindowSize /\ i - 1 \in 1..(phase + 1)
        BY <1>2, <3>1, <4>2
      <4> QED
        BY <3>2, <4>1, <4>2
    <3>5. ASSUME NEW i \in 1..WindowSize
          PROVE  recent'[k][i] <= Curr(window[k]) + Prev(window[k])
      <4>1. CASE i = 1
        BY <1>2, <1>3, <4>1
      <4>2. CASE i \in 2..WindowSize /\ i - 1 \in 1..WindowSize
        BY <1>2, <3>1, <4>2
      <4> QED
        BY <3>3, <4>1, <4>2
    <3>6. Room(Curr(window[k]), Prev(window[k]), phase')
      BY <1>3, <2>1, <3>1, RoomLater
    <3> QED
      BY <2>2, <3>1, <3>4, <3>5, <3>6 DEF Covered
  <2> QED
    BY <2>3, <2>4 DEF WindowInv
<1> QED
  BY <1>4, <1>5

LEMMA NextWindowInv == WindowInv /\ [WindowNext]_windowVars => WindowInv'
<1> SUFFICES ASSUME WindowInv, [WindowNext]_windowVars PROVE WindowInv'
  OBVIOUS
<1>1. CASE WindowStop \/ UNCHANGED windowVars
  BY <1>1 DEF WindowStop, windowVars, WindowInv, WindowTypeOK, Covered
<1> QED
  BY <1>1, WindowAllowKeeps, WindowCleanupKeeps, WindowTickKeeps DEF WindowNext

\* The counts and the estimate bound what a stretch of WindowSize ticks admits.
LEMMA CoveredBounds == WindowInv => SlidingBound
<1> SUFFICES ASSUME WindowInv, NEW k \in WindowKeys
             PROVE  /\ recent[k][WindowSize] * WindowSize <= WindowRate * (2 * WindowSize - 2)
                    /\ phase = WindowSize - 1 => recent[k][WindowSize] <= WindowRate
  BY DEF SlidingBound
<1> USE WindowConfig DEF WindowConfig
<1> DEFINE t == recent[k][WindowSize]
           c == Curr(window[k])
           p == Prev(window[k])
<1>1. t \in Nat /\ c \in Nat /\ p \in Nat /\ phase \in 0..(WindowSize - 1)
  BY DEF WindowInv, WindowTypeOK, Window, Curr, Prev
<1>2. /\ phase = WindowSize - 1 => t <= c
      /\ t <= c + p
      /\ p <= WindowRate
      /\ Room(c, p, phase)
  BY DEF WindowInv, Covered
<1>3. c <= WindowRate
  BY <1>1, <1>2, RoomForCurr
<1> HIDE DEF t, c, p
<1>4. CASE phase = WindowSize - 1
  <2>1. t <= WindowRate
    BY <1>1, <1>2, <1>3, <1>4
  <2>2. WindowSize <= 2 * WindowSize - 2 /\ 2 * WindowSize - 2 \in Nat
    OBVIOUS
  <2>3. t * WindowSize <= WindowRate * (2 * WindowSize - 2)
    BY <1>1, <2>1, <2>2, ProductMonotone
  <2> QED
    BY <2>1, <2>3 DEF t
<1>5. CASE phase # WindowSize - 1
  <2> DEFINE rest == WindowSize - phase
  <2>1. rest \in Nat /\ WindowSize = rest + phase /\ phase \in Nat
    BY <1>1
  <2>2. phase <= WindowSize - 2 /\ WindowSize - 2 \in Nat
    BY <1>1, <1>5
  <2>3. p * rest + c * WindowSize <= WindowRate * WindowSize
    BY <1>2 DEF Room
  <2> HIDE DEF rest
  <2>4. p * phase <= WindowRate * (WindowSize - 2)
    BY <1>1, <1>2, <2>1, <2>2, ProductMonotone
  <2>5. t * WindowSize <= (c + p) * WindowSize
    BY <1>1, <1>2, ProductMonotone
  <2>6. (c + p) * WindowSize = c * WindowSize + p * WindowSize
    BY <1>1
  <2>7. p * WindowSize = p * rest + p * phase
    BY <1>1, <2>1
  <2>8. WindowRate * (2 * WindowSize - 2) = WindowRate * WindowSize + WindowRate * (WindowSize - 2)
    OBVIOUS
  <2>9. /\ t * WindowSize \in Nat /\ c * WindowSize \in Nat /\ p * WindowSize \in Nat
        /\ p * rest \in Nat /\ p * phase \in Nat /\ WindowRate * WindowSize \in Nat
        /\ WindowRate * (WindowSize - 2) \in Nat
    BY <1>1, <2>1, <2>2, ProductMonotone
  <2>10. t * WindowSize <= WindowRate * (2 * WindowSize - 2)
    BY <2>3, <2>4, <2>5, <2>6, <2>7, <2>8, <2>9
  <2> QED
    BY <1>5, <2>10 DEF t
<1> QED
  BY <1>4, <1>5

-----------------------------------------------------------------------------
(***************************************************************************)
(* Both limiters and the requests that are asked for at both.              *)
(***************************************************************************)
Asking == [key : Keys, onChain : BOOLEAN]

MultiTypes ==
  /\ asking \in [Requests -> Asking \cup {NotAsking}]
  /\ bunched \in [Keys -> Nat]

LEMMA OneIsNat == One \in Nat \ {0} /\ One \in Costs
  BY LimiterConfig, MultiConfig DEF LimiterConfig, MultiConfig

LEMMA InitMultiTypes == MultiInit => MultiTypes
  BY DEF MultiInit, MultiTypes

LEMMA NextMultiTypes == MultiTypes /\ [MultiNext]_allVars => MultiTypes'
<1> SUFFICES ASSUME MultiTypes, [MultiNext]_allVars PROVE MultiTypes'
  OBVIOUS
<1>1. CASE UNCHANGED <<asking, bunched>>
  BY <1>1 DEF MultiTypes
<1>2. ASSUME NEW q \in Requests, NEW k \in Keys, NEW onChain \in BOOLEAN,
             AskGlobal(q, k, onChain)
      PROVE  MultiTypes'
  <2>1. [key |-> k, onChain |-> onChain] \in Asking
    BY DEF Asking
  <2> QED
    BY <1>2, <2>1 DEF MultiTypes, AskGlobal
<1>3. ASSUME NEW q \in Requests, AskChain(q) PROVE MultiTypes'
  <2>1. asking' \in [Requests -> Asking \cup {NotAsking}]
    <3>1. asking' = [asking EXCEPT ![q] = NotAsking]
      BY <1>3 DEF AskChain
    <3> QED
      BY <3>1 DEF MultiTypes
  <2>2. bunched' \in [Keys -> Nat]
    <3>1. bunched' = bunched \/ bunched' = [bunched EXCEPT ![asking[q].key] = @ + One]
      BY <1>3 DEF AskChain
    <3>2. asking[q].key \in Keys
      BY <1>3 DEF AskChain, MultiTypes, Asking
    <3> QED
      BY <3>1, <3>2, OneIsNat DEF MultiTypes
  <2> QED
    BY <2>1, <2>2 DEF MultiTypes
<1>4. CASE Tick
  BY <1>4, LimiterConfig DEF MultiTypes, Tick, Less, LimiterConfig
<1> QED
  BY <1>1, <1>2, <1>3, <1>4
  DEF MultiNext, allVars, multiVars, SetChainLimiter, SweepBuckets, SweepWindows

\* Every step of the composition is a step of the token bucket or leaves it
\* alone.
LEMMA BucketStep == [MultiNext]_allVars => [Next]_vars
<1> SUFFICES ASSUME [MultiNext]_allVars PROVE Next \/ UNCHANGED vars
  OBVIOUS
<1>1. ASSUME NEW q \in Requests, AskChain(q) PROVE UNCHANGED vars
  BY <1>1 DEF AskChain
<1>2. ASSUME NEW q \in Requests, NEW k \in Keys, NEW onChain \in BOOLEAN,
             AskGlobal(q, k, onChain)
      PROVE  Next
  BY <1>2, OneIsNat DEF AskGlobal, Next
<1>3. CASE Tick \/ SweepBuckets \/ SetChainLimiter \/ SweepWindows
  BY <1>3 DEF Tick, SweepBuckets, SetChainLimiter, SweepWindows, Next
<1> QED
  BY <1>1, <1>2, <1>3 DEF MultiNext, allVars, Next

\* The same for the sliding window.
LEMMA WindowStep == MultiTypes /\ [MultiNext]_allVars => [WindowNext]_windowVars
<1> SUFFICES ASSUME MultiTypes, [MultiNext]_allVars PROVE WindowNext \/ UNCHANGED windowVars
  OBVIOUS
<1>1. ASSUME NEW q \in Requests, AskChain(q) PROVE WindowNext \/ UNCHANGED windowVars
  <2>1. asking[q].key \in Keys
    BY <1>1 DEF AskChain, MultiTypes, Asking
  <2>2. asking[q].key \in WindowKeys /\ 1 \in Batches
    BY <2>1, MultiConfig DEF MultiConfig
  <2> QED
    BY <1>1, <2>2 DEF AskChain, WindowNext
<1>2. ASSUME NEW q \in Requests, NEW k \in Keys, NEW onChain \in BOOLEAN,
             AskGlobal(q, k, onChain)
      PROVE  UNCHANGED windowVars
  BY <1>2 DEF AskGlobal
<1>3. CASE Tick \/ SweepBuckets \/ SetChainLimiter \/ SweepWindows
  BY <1>3 DEF Tick, SweepBuckets, SetChainLimiter, SweepWindows, WindowNext
<1>4. Keys = WindowKeys
  BY MultiConfig DEF MultiConfig
<1> QED
  BY <1>1, <1>2, <1>3, <1>4 DEF MultiNext, allVars, WindowNext

\* Asked together, directly and with time passing between the two checks,
\* each limiter still behaves as it does on its own.
THEOREM Composition == MultiSpec => Spec /\ WindowSpec
<1>1. MultiInit => Init /\ WindowInit
  BY DEF MultiInit
<1> QED
  BY <1>1, InitMultiTypes, NextMultiTypes, BucketStep, WindowStep, PTL
  DEF MultiSpec, Spec, WindowSpec

\* In no stretch of WindowSize ticks does the sliding window admit twice its
\* rate, wherever the stretch begins and whatever cleanup dropped.
THEOREM WindowLimited == MultiSpec => []SlidingBound
  BY Composition, InitWindowInv, NextWindowInv, CoveredBounds, PTL DEF WindowSpec

\* The bound of the token bucket and the meter it implements hold in the
\* composition, too.
THEOREM GlobalLimited ==
  ASSUME FullWhenDropped
  PROVE  MultiSpec => []RateBound /\ ImplementsMeter
  BY Composition, RateLimited, Refinement, PTL

-----------------------------------------------------------------------------
\* What was bunched and what may still be is covered by what was paid for
\* and by the requests that can be between the checks.
Bunched ==
  \A k \in Keys :
    bunched[k] + One * InFlight(k) <= excess[k] + One * Cardinality(Requests)

Between(k) == {q \in Requests : asking[q].key = k}

LEMMA InFlightTyped ==
  ASSUME NEW k \in Keys
  PROVE  /\ IsFiniteSet(Between(k))
         /\ InFlight(k) = Cardinality(Between(k))
         /\ InFlight(k) \in Nat /\ Cardinality(Requests) \in Nat
         /\ InFlight(k) <= Cardinality(Requests)
<1>1. IsFiniteSet(Requests) /\ Between(k) \subseteq Requests
  BY MultiConfig DEF MultiConfig, Between
<1>2. /\ IsFiniteSet(Between(k))
      /\ Cardinality(Between(k)) <= Cardinality(Requests)
  BY <1>1, FS_Subset
<1>3. Cardinality(Between(k)) \in Nat /\ Cardinality(Requests) \in Nat
  BY <1>1, <1>2, FS_CardinalityType
<1> QED
  BY <1>2, <1>3 DEF InFlight, Between

\* A request that the global limiter lets through is one more.
LEMMA AskGlobalInFlight ==
  ASSUME MultiTypes, NEW q \in Requests, NEW k \in Keys, NEW onChain \in BOOLEAN,
         AskGlobal(q, k, onChain), NEW j \in Keys
  PROVE  InFlight(j)' = IF j = k /\ Enough(Refilled(bucket[k]), One)
                        THEN InFlight(j) + 1 ELSE InFlight(j)
<1>0. NotAsking.key \notin Keys
  BY MultiConfig DEF MultiConfig, NotAsking
<1>1. q \notin Between(j)
  BY <1>0 DEF AskGlobal, Between
<1>2. CASE ~Enough(Refilled(bucket[k]), One)
  BY <1>2 DEF AskGlobal, InFlight
<1>3. CASE Enough(Refilled(bucket[k]), One)
  <2>1. asking' = [asking EXCEPT ![q] = [key |-> k, onChain |-> onChain]]
    BY <1>3 DEF AskGlobal
  <2>2. asking'[q].key = k /\ \A r \in Requests \ {q} : asking'[r] = asking[r]
    BY <2>1 DEF MultiTypes
  <2>3. CASE j = k
    <3>1. Between(j)' = Between(j) \cup {q}
      BY <2>2, <2>3 DEF Between
    <3>2. Cardinality(Between(j) \cup {q}) = Cardinality(Between(j)) + 1
      BY <1>1, InFlightTyped, FS_AddElement
    <3> QED
      BY <1>3, <2>3, <3>1, <3>2 DEF InFlight, Between
  <2>4. CASE j # k
    <3>1. Between(j)' = Between(j)
      BY <1>1, <2>2, <2>4 DEF Between
    <3> QED
      BY <2>4, <3>1 DEF InFlight, Between
  <2> QED
    BY <2>3, <2>4
<1> QED
  BY <1>2, <1>3

\* A request that has asked both is one less.
LEMMA AskChainInFlight ==
  ASSUME MultiTypes, NEW q \in Requests, AskChain(q), NEW j \in Keys
  PROVE  IF j = asking[q].key THEN InFlight(j) = InFlight(j)' + 1 /\ InFlight(j)' \in Nat
         ELSE InFlight(j)' = InFlight(j)
<1>0. NotAsking.key \notin Keys
  BY MultiConfig DEF MultiConfig, NotAsking
<1>1. asking'[q].key \notin Keys /\ \A r \in Requests \ {q} : asking'[r] = asking[r]
  BY <1>0 DEF AskChain, MultiTypes
<1>2. Between(j)' = Between(j) \ {q}
  BY <1>1 DEF Between
<1>3. CASE j = asking[q].key
  <2>1. q \in Between(j)
    BY <1>3 DEF Between
  <2>2. /\ Cardinality(Between(j) \ {q}) = Cardinality(Between(j)) - 1
        /\ IsFiniteSet(Between(j) \ {q})
    BY <2>1, InFlightTyped, FS_RemoveElement
  <2>3. Cardinality(Between(j) \ {q}) \in Nat /\ Cardinality(Between(j)) \in Nat
    BY <2>2, InFlightTyped, FS_CardinalityType
  <2>4. InFlight(j)' = Cardinality(Between(j) \ {q}) /\ InFlight(j) = Cardinality(Between(j))
    BY <1>2 DEF InFlight, Between
  <2> QED
    BY <1>3, <2>2, <2>3, <2>4
<1>4. CASE j # asking[q].key
  <2>1. Between(j)' = Between(j)
    BY <1>2, <1>4 DEF Between
  <2> QED
    BY <1>4, <2>1 DEF InFlight, Between
<1> QED
  BY <1>3, <1>4

LEMMA NextBunched ==
  ASSUME MultiTypes, TypeOK, Bunched, [MultiNext]_allVars
  PROVE  Bunched'
<1> SUFFICES ASSUME NEW j \in Keys
             PROVE  bunched'[j] + One * InFlight(j)' <= excess'[j] + One * Cardinality(Requests)
  BY DEF Bunched
<1> USE LimiterConfig DEF LimiterConfig
<1> DEFINE f == One * InFlight(j)
           g == One * InFlight(j)'
           all == One * Cardinality(Requests)
<1>1. /\ bunched[j] \in Nat /\ excess[j] \in Nat
      /\ bunched[j] + f <= excess[j] + all
  BY DEF MultiTypes, TypeOK, Bunched
<1>2. InFlight(j) \in Nat /\ Cardinality(Requests) \in Nat /\ InFlight(j) <= Cardinality(Requests)
  BY InFlightTyped
<1>3. One \in Nat /\ One \in Costs
  BY OneIsNat
<1>4. f \in Nat /\ all \in Nat /\ f <= all
  BY <1>2, <1>3, ProductMonotone
<1>5. ASSUME asking' = asking PROVE g = f
  BY <1>5 DEF InFlight
<1>6. ASSUME NEW k \in Keys, NEW n \in Costs, Allow(k, n)
      PROVE  /\ excess'[j] \in Nat /\ excess'[j] >= excess[j]
             /\ k = j /\ Enough(Refilled(bucket[k]), n) => excess'[j] = excess[j] + n
  BY <1>1, <1>6 DEF Allow, TypeOK
<1>7. CASE UNCHANGED <<asking, bunched, excess>>
  BY <1>1, <1>5, <1>7
<1>8. ASSUME NEW k \in Keys, NEW n \in Costs, Allow(k, n), UNCHANGED <<asking, bunched>>
      PROVE  bunched'[j] + g <= excess'[j] + all
  BY <1>1, <1>4, <1>5, <1>6, <1>8
<1>9. ASSUME NEW q \in Requests, NEW k \in Keys, NEW onChain \in BOOLEAN,
             AskGlobal(q, k, onChain)
      PROVE  bunched'[j] + g <= excess'[j] + all
  <2>1. bunched' = bunched /\ Allow(k, One)
    BY <1>9 DEF AskGlobal
  <2>2. CASE j = k /\ Enough(Refilled(bucket[k]), One)
    <3>1. InFlight(j)' = InFlight(j) + 1
      BY <1>9, <2>2, AskGlobalInFlight
    <3>2. g = f + One
      BY <1>2, <1>3, <3>1
    <3>3. excess'[j] = excess[j] + One
      BY <1>3, <1>6, <2>1, <2>2
    <3> HIDE DEF f, g, all
    <3> QED
      BY <1>1, <1>3, <1>4, <2>1, <3>2, <3>3
  <2>3. CASE ~(j = k /\ Enough(Refilled(bucket[k]), One))
    <3>1. g = f
      BY <1>9, <2>3, AskGlobalInFlight
    <3>2. excess'[j] \in Nat /\ excess'[j] >= excess[j]
      BY <1>3, <1>6, <2>1
    <3> HIDE DEF f, g, all
    <3> QED
      BY <1>1, <1>4, <2>1, <3>1, <3>2
  <2> QED
    BY <2>2, <2>3
<1>10. ASSUME NEW q \in Requests, AskChain(q)
       PROVE  bunched'[j] + g <= excess'[j] + all
  <2>1. excess' = excess
    BY <1>10 DEF AskChain, vars
  <2>2. CASE j = asking[q].key
    <3>1. InFlight(j) = InFlight(j)' + 1 /\ InFlight(j)' \in Nat
      BY <1>10, <2>2, AskChainInFlight
    <3>2. f = g + One /\ g \in Nat
      BY <1>3, <3>1
    <3>3. bunched'[j] = bunched[j] + One \/ bunched'[j] = bunched[j]
      BY <1>10, <2>2 DEF AskChain, MultiTypes
    <3> HIDE DEF f, g, all
    <3> QED
      BY <1>1, <1>3, <1>4, <2>1, <3>2, <3>3
  <2>3. CASE j # asking[q].key
    <3>1. g = f
      BY <1>10, <2>3, AskChainInFlight
    <3>2. bunched'[j] = bunched[j]
      BY <1>10, <2>3 DEF AskChain, MultiTypes
    <3> QED
      BY <1>1, <2>1, <3>1, <3>2
  <2> QED
    BY <2>2, <2>3
<1>11. CASE Tick
  <2>1. bunched'[j] = Less(bunched[j], Rate) /\ excess'[j] = Less(excess[j], Rate)
    BY <1>11 DEF Tick, TimePasses
  <2>2. g = f
    BY <1>5, <1>11 DEF Tick
  <2>3. bunched'[j] + g <= excess'[j] + all
    <3> HIDE DEF f, g, all
    <3> QED
      BY <1>1, <1>4, <2>1, <2>2 DEF Less
  <2> QED
    BY <2>3
<1>12. CASE Stop /\ UNCHANGED <<windowVars, multiVars>>
  BY <1>7, <1>12 DEF Stop, multiVars
<1>13. CASE SetChainLimiter \/ SweepBuckets \/ SweepWindows
  BY <1>7, <1>13 DEF SetChainLimiter, SweepBuckets, SweepWindows, Cleanup, vars, multiVars
<1>14. CASE WindowStop /\ UNCHANGED <<vars, multiVars>>
  BY <1>7, <1>14 DEF vars, multiVars
<1>15. CASE UNCHANGED allVars
  BY <1>7, <1>15 DEF allVars, vars, multiVars
<1>16. ASSUME NEW k \in Keys, NEW n \in Batches, WindowAllow(k, n) /\ UNCHANGED <<vars, multiVars>>
       PROVE  bunched'[j] + g <= excess'[j] + all
  BY <1>7, <1>16 DEF vars, multiVars
<1>17. ASSUME NEW k \in Keys, NEW n \in Costs, Allow(k, n) /\ UNCHANGED <<windowVars, multiVars>>
       PROVE  bunched'[j] + g <= excess'[j] + all
  BY <1>8, <1>17 DEF multiVars
<1> QED
  BY <1>9, <1>10, <1>11, <1>12, <1>13, <1>14, <1>15, <1>16, <1>17 DEF MultiNext

\* However time and other requests come between the two checks, no stretch of
\* time admits more than Burst, Rate per tick and the requests that can be
\* between them.
THEOREM BunchingBounded ==
  ASSUME FullWhenDropped
  PROVE  MultiSpec => []BunchBound
<1>1. MultiInit => Bunched
  <2> SUFFICES ASSUME MultiInit, NEW k \in Keys
               PROVE  bunched[k] + One * InFlight(k) <= excess[k] + One * Cardinality(Requests)
    BY DEF Bunched
  <2>1. bunched[k] = 0 /\ excess[k] = 0
    BY DEF MultiInit, Init
  <2>2. One * InFlight(k) \in Nat /\ One * Cardinality(Requests) \in Nat
        /\ One * InFlight(k) <= One * Cardinality(Requests)
    BY InFlightTyped, OneIsNat, ProductMonotone
  <2> QED
    BY <2>1, <2>2
<1>2. MultiTypes /\ TypeOK /\ Bunched /\ [MultiNext]_allVars => Bunched'
  BY NextBunched
<1>3. MultiTypes /\ TypeOK /\ Bunched /\ RateBound => BunchBound
  <2> SUFFICES ASSUME MultiTypes, TypeOK, Bunched, RateBound, NEW k \in Keys
               PROVE  bunched[k] + One * InFlight(k) <= Burst + One * Cardinality(Requests)
    BY DEF BunchBound
  <2>1. /\ bunched[k] + One * InFlight(k) <= excess[k] + One * Cardinality(Requests)
        /\ excess[k] <= Burst
        /\ bunched[k] \in Nat /\ excess[k] \in Nat /\ Burst \in Nat
    BY LimiterConfig DEF Bunched, RateBound, MultiTypes, TypeOK, LimiterConfig
  <2>2. One * InFlight(k) \in Nat /\ One * Cardinality(Requests) \in Nat
    BY InFlightTyped, OneIsNat, ProductMonotone
  <2> QED
    BY <2>1, <2>2
<1>4. MultiSpec => []MultiTypes
  BY InitMultiTypes, NextMultiTypes, PTL DEF MultiSpec
<1>5. MultiSpec => []TypeOK /\ []RateBound
  BY Composition, TypeCorrect, RateLimited, PTL
<1> QED
  BY <1>1, <1>2, <1>3, <1>4, <1>5, PTL DEF MultiSpec
=============================================================================
