------------------------- MODULE ConnectionPoolProofs -------------------------
(***************************************************************************)
(* Proofs about the connection pool, for every set of clients and every    *)
(* setting of its limits.                                                  *)
(***************************************************************************)
EXTENDS ConnectionPool, FiniteSetTheorems, TLAPS

\* The list itself respects the limit.
Bounded == IsFiniteSet(pool) /\ Cardinality(pool) <= MaxConnections

\* The inductive invariant.  Exclusive alone is not inductive: that a
\* connection Get lends is not held already follows from HeldIsOpen.
IInv == TypeOK /\ Exclusive /\ HeldIsOpen /\ NoLeak /\ Bounded

\* A record with fields of the right types is a PooledConnection.
LEMMA ConnectionTyped ==
  ASSUME NEW o \in BOOLEAN, NEW u \in BOOLEAN,
         NEW i \in 0..(IdleTimeout + 1), NEW a \in 0..(MaxLifetime + 1)
  PROVE  [open |-> o, inUse |-> u, idle |-> i, age |-> a] \in PooledConnection
  BY Zenon DEF PooledConnection

\* The values that the operations assign have their types, and what they
\* leave alone is unchanged.
LEMMA ValuesTyped ==
  /\ Unused \in PooledConnection /\ Dialed \in PooledConnection /\ Away \in Borrower
  /\ \A r \in PooledConnection :
       /\ \A u \in BOOLEAN : Used(r, u) \in PooledConnection
       /\ Shut(r) \in PooledConnection
       /\ Aged(r) \in PooledConnection
<1> USE PoolConfig DEF PoolConfig
<1>0. 0 \in 0..(IdleTimeout + 1) /\ 0 \in 0..(MaxLifetime + 1)
  OBVIOUS
<1>1. Unused \in PooledConnection /\ Dialed \in PooledConnection
  BY <1>0, ConnectionTyped DEF Unused, Dialed
<1>2. Away \in Borrower
  BY DEF Away, Borrower
<1>3. ASSUME NEW r \in PooledConnection
      PROVE  /\ \A u \in BOOLEAN : Used(r, u) \in PooledConnection
             /\ Shut(r) \in PooledConnection
             /\ Aged(r) \in PooledConnection
  <2>1. /\ r.open \in BOOLEAN /\ r.inUse \in BOOLEAN
        /\ r.idle \in 0..(IdleTimeout + 1) /\ r.age \in 0..(MaxLifetime + 1)
    BY Zenon DEF PooledConnection
  <2>2. /\ Older(r.idle, IdleTimeout) \in 0..(IdleTimeout + 1)
        /\ Older(r.age, MaxLifetime) \in 0..(MaxLifetime + 1)
    BY <2>1 DEF Older
  <2> QED
    BY <1>0, <2>1, <2>2, ConnectionTyped DEF Used, Shut, Aged
<1> QED
  BY <1>1, <1>2, <1>3

\* A new pool is empty.
LEMMA InitIInv == Init => IInv
<1> SUFFICES ASSUME Init PROVE IInv
  OBVIOUS
<1>1. TypeOK
  <2>1. \A k \in Clients : client[k].pc # "holding"
    BY DEF Init, Away
  <2> QED
    BY ValuesTyped, <2>1 DEF Init, TypeOK
<1>2. Exclusive /\ HeldIsOpen /\ NoLeak
  BY DEF Init, Exclusive, HeldIsOpen, NoLeak, Holds, Unused, Away
<1>3. Bounded
  BY FS_EmptySet, PoolConfig DEF PoolConfig, Init, Bounded
<1> QED
  BY <1>1, <1>2, <1>3 DEF IInv

\* What the lending of a connection does to who holds what.
LEMMA LendHolds ==
  ASSUME TypeOK, NEW k \in Clients, NEW c \in Conns, Asks(k), Lend(k, c)
  PROVE  \A j \in Clients, d \in Conns :
           Holds(j, d)' <=> (j = k /\ d = c) \/ Holds(j, d)
  BY DEF TypeOK, Asks, Lend, Holds

\* What a client that returns, gives up or fails holds afterwards: nothing.
LEMMA AwayHolds ==
  ASSUME TypeOK, NEW k \in Clients, client' = [client EXCEPT ![k] = Away]
  PROVE  \A j \in Clients, d \in Conns : Holds(j, d)' <=> j # k /\ Holds(j, d)
  BY DEF TypeOK, Away, Holds

\* Types are kept by every step.
LEMMA NextTypeOK == TypeOK /\ [Next]_vars => TypeOK'
<1> SUFFICES ASSUME TypeOK, [Next]_vars PROVE TypeOK'
  OBVIOUS
<1> USE ValuesTyped
<1>1. ASSUME NEW k \in Clients, NEW c \in Conns, GetReuses(k, c) PROVE TypeOK'
  BY <1>1 DEF GetReuses, TypeOK, Lend, Borrower
<1>2. ASSUME NEW k \in Clients, NEW c \in Conns, GetDials(k, c) PROVE TypeOK'
  BY <1>2 DEF GetDials, TypeOK, Lend, Borrower
<1>3. ASSUME NEW k \in Clients, client' = [client EXCEPT ![k] = Away]
      PROVE  /\ client' \in [Clients -> Borrower]
             /\ \A j \in Clients : client'[j].pc = "holding" => client'[j].lent \in Conns
  BY <1>3 DEF TypeOK, Away
<1>4. ASSUME NEW k \in Clients, GetFails(k) \/ GiveUp(k) PROVE TypeOK'
  BY <1>3, <1>4 DEF GetFails, GiveUp, TypeOK
<1>5. ASSUME NEW k \in Clients, Wait(k) PROVE TypeOK'
  BY <1>5 DEF Wait, TypeOK, Asks, Borrower
<1>6. ASSUME NEW k \in Clients, Put(k) PROVE TypeOK'
  BY <1>3, <1>6 DEF Put, TypeOK
<1>7. ASSUME NEW k \in Clients, Remove(k) PROVE TypeOK'
  BY <1>3, <1>7 DEF Remove, TypeOK
<1>8. CASE Close
  BY <1>8 DEF Close, TypeOK
<1>9. CASE Cleanup
  BY <1>9 DEF Cleanup, TypeOK
<1>10. CASE TimePasses
  BY <1>10 DEF TimePasses, TypeOK
<1>11. CASE UNCHANGED vars
  BY <1>11 DEF vars, TypeOK
<1> QED
  BY <1>1, <1>2, <1>4, <1>5, <1>6, <1>7, <1>8, <1>9, <1>10, <1>11 DEF Next

\* The set of connections stays within the limit.
LEMMA NextBounded == TypeOK /\ Bounded /\ [Next]_vars => Bounded'
<1> SUFFICES ASSUME TypeOK, Bounded, [Next]_vars PROVE Bounded'
  OBVIOUS
<1>1. ASSUME NEW k \in Clients, NEW c \in Conns, GetDials(k, c) PROVE Bounded'
  <2>1. /\ IsFiniteSet(pool \cup {c})
        /\ Cardinality(pool \cup {c}) = Cardinality(pool) + 1
    BY <1>1, FS_AddElement DEF GetDials, Forgotten, Bounded
  <2>2. Cardinality(pool) \in Nat
    BY FS_CardinalityType DEF Bounded
  <2> QED
    BY <1>1, <2>1, <2>2, PoolConfig DEF PoolConfig, GetDials, Room, Bounded
<1>2. ASSUME pool' \subseteq pool PROVE Bounded'
  <2>1. IsFiniteSet(pool') /\ Cardinality(pool') <= Cardinality(pool)
    BY <1>2, FS_Subset DEF Bounded
  <2>2. Cardinality(pool) \in Nat /\ Cardinality(pool') \in Nat
    BY <2>1, FS_CardinalityType DEF Bounded
  <2> QED
    BY <2>1, <2>2, PoolConfig DEF PoolConfig, Bounded
<1>3. (\E k \in Clients, c \in Conns : GetDials(k, c)) \/ pool' \subseteq pool
  BY DEF Next, GetReuses, GetFails, Wait, GiveUp, Put, Remove, Close, Cleanup,
         TimePasses, vars
<1> QED
  BY <1>1, <1>2, <1>3

\* The invariant is inductive.
LEMMA NextIInv == IInv /\ [Next]_vars => IInv'
<1> SUFFICES ASSUME IInv, [Next]_vars PROVE (Exclusive /\ HeldIsOpen /\ NoLeak)'
  BY NextTypeOK, NextBounded DEF IInv
<1>0. TypeOK /\ Exclusive /\ HeldIsOpen /\ NoLeak
  BY DEF IInv
<1>1. ASSUME NEW k \in Clients, NEW c \in Conns, GetReuses(k, c)
      PROVE  (Exclusive /\ HeldIsOpen /\ NoLeak)'
  <2>1. \A j \in Clients : ~Holds(j, c)
    BY <1>0, <1>1 DEF GetReuses, Lendable, HeldIsOpen
  <2>2. \A j \in Clients, d \in Conns : Holds(j, d)' <=> (j = k /\ d = c) \/ Holds(j, d)
    BY <1>0, <1>1, LendHolds DEF GetReuses
  <2>3. /\ pool' = pool /\ closed' = closed /\ c \in pool
        /\ conn'[c].inUse /\ conn'[c].open = conn[c].open
        /\ \A d \in Conns : d # c => conn'[d] = conn[d]
    BY <1>0, <1>1 DEF GetReuses, TypeOK, Lendable, Used
  <2>4. Exclusive'
    BY <1>0, <2>1, <2>2, Zenon DEF Exclusive
  <2>5. NoLeak'
    BY <1>0, <2>2, <2>3 DEF NoLeak
  <2>6. conn[c].open
    BY <1>0, <2>3 DEF NoLeak
  <2> QED
    BY <1>0, <2>2, <2>3, <2>4, <2>5, <2>6 DEF HeldIsOpen
<1>2. ASSUME NEW k \in Clients, NEW c \in Conns, GetDials(k, c)
      PROVE  (Exclusive /\ HeldIsOpen /\ NoLeak)'
  <2>1. \A j \in Clients : ~Holds(j, c)
    BY <1>2 DEF GetDials, Forgotten
  <2>2. \A j \in Clients, d \in Conns : Holds(j, d)' <=> (j = k /\ d = c) \/ Holds(j, d)
    BY <1>0, <1>2, LendHolds DEF GetDials
  <2>3. /\ pool' = pool \cup {c} /\ closed' = closed
        /\ conn'[c].inUse /\ conn'[c].open
        /\ \A d \in Conns : d # c => conn'[d] = conn[d]
    BY <1>0, <1>2 DEF GetDials, TypeOK, Dialed
  <2>4. Exclusive'
    BY <1>0, <2>1, <2>2, Zenon DEF Exclusive
  <2>5. NoLeak'
    BY <1>0, <2>2, <2>3 DEF NoLeak
  <2> QED
    BY <1>0, <2>2, <2>3, <2>4, <2>5 DEF HeldIsOpen
<1>3. ASSUME NEW k \in Clients, GetFails(k) \/ Wait(k) \/ GiveUp(k)
      PROVE  (Exclusive /\ HeldIsOpen /\ NoLeak)'
  <2>1. pool' = pool /\ conn' = conn /\ closed' = closed
    BY <1>3 DEF GetFails, Wait, GiveUp
  <2>2. \A j \in Clients, d \in Conns : Holds(j, d)' <=> Holds(j, d)
    <3>1. client[k].pc # "holding"
      BY <1>3 DEF GetFails, Wait, GiveUp, Asks
    <3>2. CASE Wait(k)
      BY <1>0, <3>1, <3>2 DEF Wait, Holds, TypeOK
    <3>3. CASE GetFails(k) \/ GiveUp(k)
      BY <1>0, <3>1, <3>3, AwayHolds DEF GetFails, GiveUp, Holds
    <3> QED
      BY <1>3, <3>2, <3>3
  <2> QED
    BY <1>0, <2>1, <2>2 DEF Exclusive, HeldIsOpen, NoLeak
<1>4. ASSUME NEW k \in Clients, Put(k) \/ Remove(k)
      PROVE  (Exclusive /\ HeldIsOpen /\ NoLeak)'
  <2>0. PICK c \in Conns : c = client[k].lent
    BY <1>0, <1>4 DEF Put, Remove, TypeOK
  <2>1. Holds(k, c)
    BY <1>4, <2>0 DEF Put, Remove, Holds
  <2>2. \A j \in Clients, d \in Conns : Holds(j, d)' <=> j # k /\ Holds(j, d)
    BY <1>0, <1>4, AwayHolds DEF Put, Remove
  <2>3. \A j \in Clients : ~Holds(j, c)'
    BY <1>0, <2>1, <2>2 DEF Exclusive
  <2>4. /\ closed' = closed
        /\ \A d \in Conns : d # c => conn'[d] = conn[d] /\ (d \in pool' <=> d \in pool)
    BY <1>0, <1>4, <2>0 DEF Put, Remove, TypeOK
  <2>5. /\ conn'[c].open <=> c \in pool'
        /\ c \in pool' => ~conn'[c].inUse
    <3>1. CASE Put(k)
      BY <1>0, <2>0, <3>1 DEF Put, TypeOK, Used, NoLeak
    <3>2. CASE Remove(k)
      BY <1>0, <2>0, <3>2 DEF Remove, TypeOK, Unused, NoLeak
    <3> QED
      BY <1>4, <3>1, <3>2
  <2>6. Exclusive'
    BY <1>0, <2>2 DEF Exclusive
  <2>7. HeldIsOpen'
    BY <1>0, <2>2, <2>3, <2>4 DEF HeldIsOpen
  <2>8. NoLeak'
    <3>1. ASSUME NEW d \in Conns, d # c, d \in pool', conn'[d].inUse
          PROVE  \E j \in Clients : Holds(j, d)'
      <4>1. PICK j \in Clients : Holds(j, d)
        BY <1>0, <2>4, <3>1 DEF NoLeak
      <4>2. j # k
        BY <2>1, <3>1, <4>1 DEF Holds
      <4> QED
        BY <2>2, <4>1, <4>2
    <3>2. \A d \in Conns : conn'[d].open <=> d \in pool'
      BY <1>0, <2>4, <2>5 DEF NoLeak
    <3> QED
      BY <2>5, <3>1, <3>2 DEF NoLeak
  <2> QED
    BY <2>6, <2>7, <2>8
<1>5. ASSUME client' = client PROVE \A j \in Clients, d \in Conns : Holds(j, d)' <=> Holds(j, d)
  BY <1>5 DEF Holds
<1>6. CASE Close
  <2>1. /\ client' = client /\ closed' /\ pool' = {}
        /\ \A d \in Conns : ~conn'[d].open
    BY <1>0, <1>6 DEF Close, NoLeak, Shut
  <2> QED
    BY <1>0, <1>5, <2>1 DEF Exclusive, HeldIsOpen, NoLeak
<1>7. CASE Cleanup
  <2>1. /\ client' = client /\ closed' = closed /\ ~closed /\ pool' = pool \ Swept
        /\ \A d \in Conns : conn'[d] = IF d \in Swept THEN Unused ELSE conn[d]
    BY <1>7 DEF Cleanup
  <2>2. \A d \in Conns : d \in Swept => \A j \in Clients : ~Holds(j, d)
    BY <1>0, <2>1 DEF HeldIsOpen, Swept
  <2>3. Exclusive' /\ HeldIsOpen'
    BY <1>0, <1>5, <2>1, <2>2 DEF Exclusive, HeldIsOpen
  <2>4. NoLeak'
    BY <1>0, <1>5, <2>1 DEF NoLeak, Unused
  <2> QED
    BY <2>3, <2>4
<1>8. CASE TimePasses
  <2>1. /\ client' = client /\ closed' = closed /\ pool' = pool
        /\ \A d \in Conns : conn'[d].open = conn[d].open /\ conn'[d].inUse = conn[d].inUse
    BY <1>8 DEF TimePasses, Aged
  <2> QED
    BY <1>0, <1>5, <2>1 DEF Exclusive, HeldIsOpen, NoLeak
<1>9. CASE UNCHANGED vars
  BY <1>0, <1>5, <1>9 DEF vars, Exclusive, HeldIsOpen, NoLeak
<1> QED
  BY <1>1, <1>2, <1>3, <1>4, <1>6, <1>7, <1>8, <1>9 DEF Next

\* So it holds for ever.
LEMMA Invariance == Spec => []IInv
  BY InitIInv, NextIInv, PTL DEF Spec

\* Fields keep their types; a closed pool is empty.
THEOREM TypeCorrect == Spec => []TypeOK
  BY Invariance, PTL DEF IInv

\* However clients, the sweep and Close interleave, a connection is lent to
\* one client at a time.
THEOREM LentOnce == Spec => []Exclusive
  BY Invariance, PTL DEF IInv

\* Until Close, a connection that a client holds stays open, listed and
\* marked in use: neither cleanup nor another client's Put or Remove ends it.
THEOREM HeldStaysOpen == Spec => []HeldIsOpen
  BY Invariance, PTL DEF IInv

\* Get, Put, Remove, cleanup and Close together lose neither a socket nor a
\* slot of the pool.
THEOREM NothingLost == Spec => []NoLeak
  BY Invariance, PTL DEF IInv

\* The backend never has more than MaxConnections open connections.
THEOREM WithinCapacity == Spec => []Capacity
<1>1. IInv => Capacity
  <2> SUFFICES ASSUME IInv PROVE Capacity
    OBVIOUS
  <2> DEFINE open == {c \in Conns : conn[c].open}
  <2>1. open \subseteq pool /\ IsFiniteSet(pool) /\ Cardinality(pool) <= MaxConnections
    BY DEF IInv, NoLeak, Bounded
  <2>2. IsFiniteSet(open) /\ Cardinality(open) <= Cardinality(pool)
    BY <2>1, FS_Subset
  <2>3. Cardinality(open) \in Nat /\ Cardinality(pool) \in Nat
    BY <2>1, <2>2, FS_CardinalityType
  <2> QED
    BY <2>1, <2>2, <2>3, PoolConfig DEF PoolConfig, Capacity
<1> QED
  BY <1>1, Invariance, PTL
=============================================================================
