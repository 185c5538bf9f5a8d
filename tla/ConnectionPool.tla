---------------------------- MODULE ConnectionPool ----------------------------
(***************************************************************************)
(* websocket.ConnectionPool: connections to one backend, lent to clients   *)
(* by Get and GetWithWait and returned by Put or given up by Remove, while *)
(* a goroutine closes idle ones and Close may come at any time.  Get, Put, *)
(* Remove, Close and cleanup hold p.mu throughout, the dial of Get         *)
(* included; GetWithWait holds it only while it polls.                     *)
(*                                                                         *)
(* The pool is a set: its order only decides which of several usable idle  *)
(* connections Get lends.  Ages are in ticks, saturated where isHealthy    *)
(* and cleanup cannot tell them apart any more.                            *)
(*                                                                         *)
(* External: whether a dial succeeds, and clients that return what they    *)
(* were lent once.                                                         *)
(***************************************************************************)
EXTENDS Naturals, FiniteSets

CONSTANTS
  Conns,            (* identities of connections, reused when forgotten *)
  Clients,
  MaxConnections,
  IdleTimeout,      (* ticks *)
  MaxLifetime       (* ticks; 0 is no limit *)

ASSUME PoolConfig ==
  /\ MaxConnections \in Nat
  /\ IdleTimeout \in Nat
  /\ MaxLifetime \in Nat

VARIABLES
  pool,     (* p.connections                                       *)
  conn,     (* PooledConnection, and whether its socket is open    *)
  closed,   (* p.closed                                            *)
  client    (* what each client is doing and the connection it has *)

vars == <<pool, conn, closed, client>>

PooledConnection ==
  [open : BOOLEAN, inUse : BOOLEAN,
   idle : 0..(IdleTimeout + 1), age : 0..(MaxLifetime + 1)]
Borrower == [pc : {"away", "waiting", "holding"}, lent : Conns \cup {"none"}]

Unused == [open |-> FALSE, inUse |-> FALSE, idle |-> 0, age |-> 0]
Dialed == [open |-> TRUE, inUse |-> TRUE, idle |-> 0, age |-> 0]
Away == [pc |-> "away", lent |-> "none"]

\* The socket is closed; InUse and LastUsedAt are set; a tick goes by.
Shut(r) == [open |-> FALSE, inUse |-> r.inUse, idle |-> r.idle, age |-> r.age]
Used(r, inUse) == [open |-> r.open, inUse |-> inUse, idle |-> 0, age |-> r.age]
Older(n, bound) == IF n > bound THEN n ELSE n + 1
Aged(r) ==
  [open |-> r.open, inUse |-> r.inUse,
   idle |-> Older(r.idle, IdleTimeout), age |-> Older(r.age, MaxLifetime)]

Holds(k, c) == client[k].pc = "holding" /\ client[k].lent = c
Forgotten(c) == c \notin pool /\ ~conn[c].open /\ \A k \in Clients : ~Holds(k, c)

Init ==
  /\ pool = {}
  /\ conn = [c \in Conns |-> Unused]
  /\ closed = FALSE
  /\ client = [k \in Clients |-> Away]

-----------------------------------------------------------------------------
isHealthy(c) ==
  /\ conn[c].idle <= IdleTimeout
  /\ MaxLifetime > 0 => conn[c].age <= MaxLifetime

Lendable(c) == c \in pool /\ ~conn[c].inUse /\ isHealthy(c)
NothingToLend == \A c \in pool : ~Lendable(c)

\* Mutant: one connection too many.
RoomForOneMore == Cardinality(pool) <= MaxConnections

Room == Cardinality(pool) < MaxConnections

\* Get is called by a client that has nothing, or by the ticker of its
\* GetWithWait.
Asks(k) == client[k].pc \in {"away", "waiting"}
Lend(k, c) == client' = [client EXCEPT ![k] = [pc |-> "holding", lent |-> c]]

\* Mutant: the connection is not marked.
GetReusesUnmarked(k, c) ==
  /\ Asks(k) /\ ~closed /\ Lendable(c)
  /\ conn' = [conn EXCEPT ![c] = Used(@, FALSE)]
  /\ Lend(k, c)
  /\ UNCHANGED <<pool, closed>>

\* Get finds an idle connection that is still good.
GetReuses(k, c) ==
  /\ Asks(k) /\ ~closed /\ Lendable(c)
  /\ conn' = [conn EXCEPT ![c] = Used(@, TRUE)]
  /\ Lend(k, c)
  /\ UNCHANGED <<pool, closed>>

\* Get dials: createConnection.
GetDials(k, c) ==
  /\ Asks(k) /\ ~closed /\ NothingToLend /\ Room
  /\ Forgotten(c)
  /\ conn' = [conn EXCEPT ![c] = Dialed]
  /\ pool' = pool \cup {c}
  /\ Lend(k, c)
  /\ UNCHANGED closed

\* Get fails: the pool is closed or the dial does not succeed.
GetFails(k) ==
  /\ Asks(k)
  /\ closed \/ (NothingToLend /\ Room)
  /\ client' = [client EXCEPT ![k] = Away]
  /\ UNCHANGED <<pool, conn, closed>>

\* ErrPoolExhausted makes GetWithWait wait for its ticker.
Wait(k) ==
  /\ Asks(k) /\ ~closed /\ NothingToLend /\ ~Room
  /\ client' = [client EXCEPT ![k].pc = "waiting"]
  /\ UNCHANGED <<pool, conn, closed>>

\* GetWithWait's timeout, or the end of its context.
GiveUp(k) ==
  /\ client[k].pc = "waiting"
  /\ client' = [client EXCEPT ![k] = Away]
  /\ UNCHANGED <<pool, conn, closed>>

\* Put looks neither at the pool nor at closed.
Put(k) ==
  /\ client[k].pc = "holding"
  /\ conn' = [conn EXCEPT ![client[k].lent] = Used(@, FALSE)]
  /\ client' = [client EXCEPT ![k] = Away]
  /\ UNCHANGED <<pool, closed>>

\* Remove does nothing to a connection that left the pool with Close.
Remove(k) ==
  LET c == client[k].lent
  IN  /\ client[k].pc = "holding"
      /\ pool' = pool \ {c}
      /\ conn' = IF c \in pool THEN [conn EXCEPT ![c] = Unused] ELSE conn
      /\ client' = [client EXCEPT ![k] = Away]
      /\ UNCHANGED closed

\* Close closes what clients hold, too.  A second Close would panic on the
\* closed channel; the pool's owner calls it once.
Close ==
  /\ ~closed
  /\ closed' = TRUE
  /\ conn' = [c \in Conns |-> IF c \in pool THEN Shut(conn[c]) ELSE conn[c]]
  /\ pool' = {}
  /\ UNCHANGED client

Expired(c) == conn[c].idle > IdleTimeout

\* Mutant: connections in use are swept, too.
SweptInUse == {c \in pool : Expired(c)}

\* Mutant: only connections within their lifetime are swept.
SweptYoung == {c \in pool : ~conn[c].inUse /\ Expired(c) /\ conn[c].age <= MaxLifetime}

\* The connections that cleanup closes.  It does not ask for their age.
Swept == {c \in pool : ~conn[c].inUse /\ Expired(c)}

\* Mutant: what leaves the list stays open.
CleanupKeepsOpen ==
  /\ ~closed
  /\ pool' = pool \ Swept
  /\ UNCHANGED <<conn, closed, client>>

Cleanup ==
  /\ ~closed
  /\ pool' = pool \ Swept
  /\ conn' = [c \in Conns |-> IF c \in Swept THEN Unused ELSE conn[c]]
  /\ UNCHANGED <<closed, client>>

\* One tick of the clock.
TimePasses ==
  /\ conn' = [c \in Conns |-> IF c \in pool THEN Aged(conn[c]) ELSE conn[c]]
  /\ UNCHANGED <<pool, closed, client>>

Next ==
  \/ \E k \in Clients :
       \/ \E c \in Conns : GetReuses(k, c) \/ GetDials(k, c)
       \/ GetFails(k) \/ Wait(k) \/ GiveUp(k) \/ Put(k) \/ Remove(k)
  \/ Close \/ Cleanup \/ TimePasses

Spec == Init /\ [][Next]_vars

\* The clock runs and so does the ticker of healthCheck.
FairSpec == Spec /\ WF_vars(TimePasses) /\ WF_vars(Cleanup)

-----------------------------------------------------------------------------
\* Fields keep their types, a client that waits has nothing, and a closed
\* pool lists nothing.
TypeOK ==
  /\ pool \subseteq Conns
  /\ conn \in [Conns -> PooledConnection]
  /\ closed \in BOOLEAN
  /\ client \in [Clients -> Borrower]
  /\ \A k \in Clients : client[k].pc = "holding" => client[k].lent \in Conns
  /\ closed => pool = {}

\* A connection is lent to one client at a time, whatever Put, Remove,
\* cleanup and Close did to it before.
Exclusive ==
  \A j, k \in Clients, c \in Conns : Holds(j, c) /\ Holds(k, c) => j = k

\* Nobody closes a connection that a client holds, or forgets that it is in
\* use, except Close.
HeldIsOpen ==
  ~closed => \A k \in Clients, c \in Conns :
    Holds(k, c) => c \in pool /\ conn[c].open /\ conn[c].inUse

\* Nothing is lost: the pool lists exactly the open connections, so Close
\* finds them all and none that is closed is lent, and one that counts as in
\* use is held by a client that can return it.
NoLeak ==
  \A c \in Conns :
    /\ conn[c].open <=> c \in pool
    /\ c \in pool /\ conn[c].inUse => \E k \in Clients : Holds(k, c)

\* The backend never sees more than MaxConnections connections at once.
Capacity ==
  LET open == {c \in Conns : conn[c].open}
  IN  IsFiniteSet(open) /\ Cardinality(open) <= MaxConnections

\* A pool cannot stay full of connections that nobody holds and Get will not
\* lend: those past their lifetime count against MaxConnections until they
\* are idle for long enough, but no longer.
Available ==
  []<>(closed \/ Room \/ \E c \in pool : conn[c].inUse \/ Lendable(c))
=============================================================================
