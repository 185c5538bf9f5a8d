-------------------------------- MODULE Session --------------------------------
(***************************************************************************)
(* websocket.ClientSession: one client, one connection to a backend at a   *)
(* time, and two goroutines.  Run connects and starts forwardFromBackend;  *)
(* the client goroutine c forwards requests (forwardFromClient) and closes *)
(* the session when it returns or panics, the backend goroutine b forwards *)
(* what the backend sends and reconnects when the connection fails.  Both  *)
(* test, use, close, clear and assign the field backendConn without a      *)
(* lock, so every load and every store of it is a step of its own.         *)
(*                                                                         *)
(* A nil backendConn that is used panics.  In c net/http recovers after    *)
(* the deferred Close; in b nobody does and the process ends.              *)
(*                                                                         *)
(* Left out, since they change nothing here: messages that are not text or *)
(* not JSON, the error replies of sendError, the choice of the endpoint in *)
(* connectToBackend (it succeeds or it does not), and StartPinger, which   *)
(* nothing calls.  writeMu is held for one write with a deadline at most,  *)
(* so a write to the client is one step.                                   *)
(***************************************************************************)
EXTENDS Naturals

CONSTANTS
  Conns,          (* connections to backends; how many may be open at once *)
  MaxReconnects

ASSUME SessionConfig == "nil" \notin Conns /\ MaxReconnects \in Nat

VARIABLES
  backendConn,  (* s.backendConn *)
  sock,         (* a connection: not in use, working, no longer taking data, or dropped by the backend *)
  timed,        (* connections on which SetWriteDeadline was called *)
  c, cconn,     (* the client goroutine, and the connection it writes to *)
  b, bconn,     (* the backend goroutine, and the connection it reads *)
  tries,        (* i of the reconnect loop *)
  done,         (* s.done is closed *)
  late,         (* the client's read deadline has passed, and the finitely *)
                (* many frames its reader held by then have been taken     *)
  fault,        (* "panic": c panicked; "crash": b did *)
  torn          (* history: one goroutine stored to backendConn between the *)
                (* other one's test of it and its last use                  *)

conns == <<backendConn, sock, timed>>
client == <<c, cconn>>
backend == <<b, bconn, tries>>
vars == <<conns, client, backend, done, late, fault, torn>>

nil == "nil"
ConnOrNil == Conns \cup {nil}
Open == {x \in Conns : sock[x] # "closed"}

Init ==
  /\ backendConn = nil
  /\ sock = [x \in Conns |-> "closed"]
  /\ timed = {}
  /\ c = "start" /\ cconn = nil
  /\ b = "off" /\ bconn = nil
  /\ tries = 0
  /\ done = FALSE
  /\ late = FALSE
  /\ fault = "none"
  /\ torn = FALSE

-----------------------------------------------------------------------------
\* connectToBackend: a new connection replaces whatever the field holds.
\* One name is as good as another.
Referred == Conns \cap {backendConn, cconn, bconn}
Free == {x \in Conns \ Referred : sock[x] = "closed"}

Dial ==
  LET x == CHOOSE y \in Free : TRUE
  IN  /\ Free # {}
      /\ sock' = [sock EXCEPT ![x] = "up"]
      /\ backendConn' = x
      /\ UNCHANGED timed

\* s.backendConn.Close(), and s.backendConn = nil.  A name that is used again
\* starts without a deadline.
CloseField ==
  /\ backendConn # nil
  /\ sock' = [sock EXCEPT ![backendConn] = "closed"]
  /\ timed' = timed \ {backendConn}
  /\ UNCHANGED backendConn

ClearField == backendConn' = nil /\ UNCHANGED <<sock, timed>>

\* A read from, or a write to, the connection x can only fail.
Dead(x) == sock[x] \in {"lost", "closed"}

-----------------------------------------------------------------------------
\* The client goroutine: Run, forwardFromClient and Close.  ClientStep says
\* what each step leaves alone.

CGoto(from, to) == c = from /\ c' = to

RunConnects == CGoto("start", "read") /\ Dial /\ b' = "top"
RunFails == CGoto("start", "close")

\* Mutant: no read deadline.
ReadRequestAnyTime == CGoto("read", "test")

ReadRequest == CGoto("read", "test") /\ ~late
ReadFails == CGoto("read", "close")

\* Mutant: the connection is used untested.
TestNothing == CGoto("test", "arm")

Test == c = "test" /\ c' = IF backendConn = nil THEN "connect" ELSE "arm"

\* Before the first attempt to write, and before the second.  Without a
\* connection there is an error reply, and the next request.
Connects == (CGoto("connect", "arm") \/ CGoto("reconnect", "reload")) /\ Dial
ConnectFails == CGoto("connect", "read") \/ CGoto("reconnect", "read")

\* SetWriteDeadline, before the first attempt only.
Arm ==
  /\ CGoto("arm", "load") /\ backendConn # nil
  /\ timed' = timed \cup {backendConn}
  /\ UNCHANGED <<backendConn, sock>>

Load ==
  /\ CGoto("load", "write") \/ CGoto("reload", "rewrite")
  /\ backendConn # nil /\ cconn' = backendConn

Write ==
  /\ CGoto("write", "read") \/ CGoto("rewrite", "read")
  /\ sock[cconn] \in {"up", "lost"} /\ cconn' = nil

\* A write to a connection that takes no data fails at its deadline, and
\* waits for ever if there is none.  The second failure is an error reply.
WriteFails ==
  /\ CGoto("write", "shut") \/ CGoto("rewrite", "read")
  /\ Dead(cconn) \/ (sock[cconn] = "stalled" /\ cconn \in timed)
  /\ cconn' = nil

Shut == CGoto("shut", "clear") /\ CloseField
Clear == CGoto("clear", "reconnect") /\ ClearField

\* close(done) and the client's connection, then the backend's.
Close == CGoto("close", "closeTest") /\ done' = TRUE

\* Mutant: the backend's connection is left to the other goroutine.
CloseTestSkips == CGoto("closeTest", "ended")

CloseTest == c = "closeTest" /\ c' = IF backendConn = nil THEN "ended" ELSE "closeConn"
CloseBackend == CGoto("closeConn", "ended") /\ CloseField

\* c uses a nil backendConn.
CPanics ==
  /\ backendConn = nil
  /\ \/ \E pc \in {"arm", "load", "shut", "reload"} : CGoto(pc, "close")
     \/ CGoto("closeConn", "ended")
  /\ fault' = "panic"

ClientStep ==
  \/ RunConnects /\ UNCHANGED <<cconn, bconn, tries, done, fault>>
  \/ /\ RunFails \/ ReadRequest \/ ReadFails \/ Test \/ ConnectFails \/ CloseTest
     /\ UNCHANGED <<conns, cconn, backend, done, fault>>
  \/ /\ Connects \/ Arm \/ Shut \/ Clear \/ CloseBackend
     /\ UNCHANGED <<cconn, backend, done, fault>>
  \/ (Load \/ Write \/ WriteFails) /\ UNCHANGED <<conns, backend, done, fault>>
  \/ Close /\ UNCHANGED <<conns, cconn, backend, fault>>
  \/ CPanics /\ UNCHANGED <<conns, cconn, backend, done>>

-----------------------------------------------------------------------------
\* The backend goroutine: forwardFromBackend.

BGoto(from, to) == b = from /\ b' = to

Top == b = "top" /\ b' = IF done THEN "ended" ELSE "test"

\* Without a connection b sleeps and looks again.
BTest == b = "test" /\ b' = IF backendConn = nil THEN "top" ELSE "load"

BLoad == BGoto("load", "reading") /\ backendConn # nil /\ bconn' = backendConn

\* A message to forward, or one of another type.
Read ==
  /\ BGoto("reading", "deliver") \/ BGoto("reading", "top")
  /\ ~Dead(bconn) /\ bconn' = nil

BReadFails == BGoto("reading", "shut") /\ Dead(bconn) /\ bconn' = nil

\* The write to the client fails at the latest when the session is closed.
Deliver == (BGoto("deliver", "top") /\ ~done) \/ BGoto("deliver", "ended")

BShut == BGoto("shut", "clear") /\ CloseField /\ UNCHANGED tries
BClear == BGoto("clear", "reconnect") /\ ClearField /\ tries' = 0

\* Mutant: the loop goes on after a success.
ReconnectAgain ==
  /\ BGoto("reconnect", "reconnect") /\ tries < MaxReconnects
  /\ Dial /\ tries' = tries + 1

Reconnect ==
  /\ BGoto("reconnect", "check") /\ tries < MaxReconnects
  /\ Dial /\ UNCHANGED tries

\* Mutant: one attempt too many.
ReconnectFailsLate ==
  /\ BGoto("reconnect", "reconnect") /\ tries <= MaxReconnects
  /\ tries' = tries + 1 /\ UNCHANGED conns

ReconnectFails ==
  /\ BGoto("reconnect", "reconnect") /\ tries < MaxReconnects
  /\ tries' = tries + 1 /\ UNCHANGED conns

ReconnectsUp == BGoto("reconnect", "check") /\ tries = MaxReconnects

\* Mutant: b goes on without a connection.
CheckNothing == BGoto("check", "top")

Check == b = "check" /\ b' = IF backendConn = nil THEN "ended" ELSE "top"

\* b uses a nil backendConn.
BPanics == backendConn = nil /\ b \in {"load", "shut"} /\ fault' = "crash"

BackendStep ==
  \/ /\ Top \/ BTest \/ Deliver \/ ReconnectsUp \/ Check
     /\ UNCHANGED <<conns, client, bconn, tries, done, fault>>
  \/ /\ BLoad \/ Read \/ BReadFails
     /\ UNCHANGED <<conns, client, tries, done, fault>>
  \/ /\ BShut \/ BClear \/ Reconnect \/ ReconnectFails
     /\ UNCHANGED <<client, bconn, done, fault>>
  \/ BPanics /\ UNCHANGED <<conns, client, backend, done>>

-----------------------------------------------------------------------------
\* External: backends that stop taking data or drop the connection, and the
\* read deadline, which only pongs move that nobody asks the client for.
\* What becomes of a connection that nobody refers to makes no difference.

Stalls(x) == sock[x] = "up" /\ sock' = [sock EXCEPT ![x] = "stalled"]
Drops(x) == sock[x] \in {"up", "stalled"} /\ sock' = [sock EXCEPT ![x] = "lost"]

Surroundings ==
  \/ /\ \E x \in Referred : Stalls(x) \/ Drops(x)
     /\ UNCHANGED <<backendConn, timed, client, backend, done, late, fault, torn>>
  \/ /\ ~late /\ c # "ended" /\ late' = TRUE
     /\ UNCHANGED <<conns, client, backend, done, fault, torn>>

\* Where a goroutine relies on an earlier test or store of the field.
CRelies == c \in {"connect", "arm", "load", "write", "shut", "clear",
                  "reconnect", "reload", "rewrite", "closeConn"}
BRelies == b \in {"load", "reading", "shut", "clear", "reconnect", "check"}

ClientActs ==
  /\ fault # "crash" /\ ClientStep /\ UNCHANGED late
  /\ torn' = (torn \/ (BRelies /\ backendConn' # backendConn))

BackendActs ==
  /\ fault # "crash" /\ BackendStep /\ UNCHANGED late
  /\ torn' = (torn \/ (CRelies /\ backendConn' # backendConn))

Next == ClientActs \/ BackendActs \/ (fault # "crash" /\ Surroundings)

Spec == Init /\ [][Next]_vars

\* The scheduler runs both goroutines.  A read returns when it can only fail.
FairSpec ==
  /\ Spec
  /\ WF_vars(ClientActs /\ (c = "read" => late))
  /\ WF_vars(BackendActs /\ (b = "reading" => Dead(bconn)))

-----------------------------------------------------------------------------
\* Every variable has its type, and a goroutine that reads or writes has a
\* connection to do it on.
TypeOK ==
  /\ backendConn \in ConnOrNil
  /\ sock \in [Conns -> {"closed", "up", "stalled", "lost"}]
  /\ timed \subseteq Conns
  /\ c \in {"start", "read", "test", "connect", "arm", "load", "write", "shut",
            "clear", "reconnect", "reload", "rewrite",
            "close", "closeTest", "closeConn", "ended"}
  /\ IF c \in {"write", "rewrite"} THEN cconn \in Conns ELSE cconn = nil
  /\ b \in {"off", "top", "test", "load", "reading", "deliver", "shut", "clear",
            "reconnect", "check", "ended"}
  /\ IF b = "reading" THEN bconn \in Conns ELSE bconn = nil
  /\ tries \in 0..MaxReconnects
  /\ done \in BOOLEAN /\ late \in BOOLEAN /\ torn \in BOOLEAN
  /\ fault \in {"none", "panic", "crash"}

\* Each goroutine by itself tests what it uses: a nil connection is used
\* only after the other goroutine stored to the field in between.
NilSafe == fault # "none" => torn

\* The same holds of connections that nobody can close any more: unless the
\* goroutines cut into each other, at most one connection is open, before
\* and after the end of the session, and it is backendConn.
OneBackend == ~torn => Open \subseteq {backendConn}

\* A client that is silent for too long loses its session whatever the
\* backend does, unless a write for which no deadline was set (the second
\* attempt) waits for ever.
Stuck == cconn # nil /\ cconn \notin timed /\ sock[cconn] = "stalled"
Ends == <>[]Stuck \/ (late ~> (c = "ended" \/ fault = "crash"))

\* After Close the backend goroutine returns, unless it was left reading a
\* connection that the field lost.
Drains == done ~> (b \in {"off", "ended"} \/ fault = "crash" \/ torn)

\* A backend goroutine whose connection fails goes on with another one or
\* gives up: it does not wait for a connection that nobody makes.
Recovers ==
  b = "shut" ~> \/ b = "top" /\ backendConn # nil
                \/ b = "ended" \/ fault = "crash" \/ torn

\* What the documentation says of the end of a session: nothing is left.
\* The code: Close makes the read of the backend goroutine fail, and that
\* goroutine reconnects before it looks at done.
Released == c = "ended" /\ b \in {"off", "ended"} => Open = {}
=============================================================================
