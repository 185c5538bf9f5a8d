---------------------------- MODULE SessionProofs ----------------------------
(***************************************************************************)
(* What TLAPS proves about a WebSocket session for any number of           *)
(* connections and reconnect attempts.                                     *)
(***************************************************************************)
EXTENDS Session, TLAPS

\* What the client goroutine has established about the field and relies on:
\* a connection where it is about to use one, the one it loaded where it
\* writes, a closed one where it clears the field, none where it dials.
ClientKnows ==
  /\ c \in {"arm", "load", "write", "shut", "clear", "reload", "rewrite", "closeConn"}
       => backendConn # nil
  /\ c \in {"write", "rewrite"} => cconn = backendConn
  /\ c = "clear" => sock[backendConn] = "closed"
  /\ c \in {"start", "connect", "reconnect"} => backendConn = nil

\* The same for the backend goroutine.
BackendKnows ==
  /\ b \in {"load", "reading", "shut", "clear"} => backendConn # nil
  /\ b = "reading" => bconn = backendConn
  /\ b = "clear" => sock[backendConn] = "closed"
  /\ b = "reconnect" => backendConn = nil

\* While nobody cut into the other's reliance: the process is sound, no
\* connection but the field's is open, and both goroutines are right about
\* the field.
Undisturbed ==
  ~torn => /\ fault = "none"
           /\ Open \subseteq {backendConn}
           /\ ClientKnows /\ BackendKnows

\* b starts when Run has connected.
Started == c = "start" => b = "off"

IInv == TypeOK /\ Started /\ Undisturbed

-----------------------------------------------------------------------------
\* connectToBackend stores a connection that was closed and that nobody
\* referred to.
LEMMA DialEffect ==
  ASSUME TypeOK, Dial
  PROVE  \E x \in Conns :
           /\ x # nil /\ sock[x] = "closed" /\ x # backendConn
           /\ sock' = [sock EXCEPT ![x] = "up"]
           /\ backendConn' = x
           /\ timed' = timed
<1> DEFINE x == CHOOSE y \in Free : TRUE
<1>1. x \in Free
  BY DEF Dial
<1>2. x \in Conns /\ sock[x] = "closed" /\ x # backendConn
  BY <1>1 DEF Free, Referred
<1>3. x # nil
  BY <1>2, SessionConfig DEF SessionConfig, nil
<1> QED
  BY <1>2, <1>3 DEF Dial

\* Close() of the connection in the field.
LEMMA CloseFieldEffect ==
  ASSUME TypeOK, CloseField
  PROVE  /\ backendConn \in Conns /\ backendConn' = backendConn
         /\ sock' = [sock EXCEPT ![backendConn] = "closed"]
         /\ timed' \subseteq Conns
  BY DEF TypeOK, CloseField, ConnOrNil

\* The parts of TypeOK that the client goroutine, the backend goroutine and
\* both may change.
FieldTypes ==
  /\ backendConn \in ConnOrNil
  /\ sock \in [Conns -> {"closed", "up", "stalled", "lost"}]
  /\ timed \subseteq Conns

ClientTypes ==
  /\ c \in {"start", "read", "test", "connect", "arm", "load", "write", "shut",
            "clear", "reconnect", "reload", "rewrite",
            "close", "closeTest", "closeConn", "ended"}
  /\ IF c \in {"write", "rewrite"} THEN cconn \in Conns ELSE cconn = nil

BackendTypes ==
  /\ b \in {"off", "top", "test", "load", "reading", "deliver", "shut", "clear",
            "reconnect", "check", "ended"}
  /\ IF b = "reading" THEN bconn \in Conns ELSE bconn = nil
  /\ tries \in 0..MaxReconnects

LEMMA TypesSorted ==
  TypeOK <=> /\ FieldTypes /\ ClientTypes /\ BackendTypes
             /\ done \in BOOLEAN /\ late \in BOOLEAN /\ torn \in BOOLEAN
             /\ fault \in {"none", "panic", "crash"}
  BY DEF TypeOK, FieldTypes, ClientTypes, BackendTypes

\* A connection is put into the field, closed there, or taken out of it.
LEMMA FieldKeepsTypes ==
  ASSUME TypeOK, Dial \/ CloseField \/ ClearField \/ UNCHANGED conns
  PROVE  FieldTypes'
<1>1. CASE Dial
  BY <1>1, DialEffect DEF TypeOK, FieldTypes, ConnOrNil
<1>2. CASE CloseField
  BY <1>2, CloseFieldEffect DEF TypeOK, FieldTypes, ConnOrNil
<1>3. CASE ClearField
  BY <1>3 DEF TypeOK, FieldTypes, ConnOrNil, ClearField
<1>4. CASE UNCHANGED conns
  BY <1>4 DEF TypeOK, FieldTypes, conns
<1> QED
  BY <1>1, <1>2, <1>3, <1>4

\* A step of the client goroutine keeps all types.
LEMMA ClientKeepsTypes ==
  ASSUME TypeOK, Started, ClientStep, late' = late, torn' \in BOOLEAN
  PROVE  TypeOK'
<1> USE DEF CGoto
<1>1. FieldTypes /\ ClientTypes /\ BackendTypes
  BY DEF TypeOK, FieldTypes, ClientTypes, BackendTypes
<1>2. done \in BOOLEAN /\ late' \in BOOLEAN /\ fault \in {"none", "panic", "crash"}
  BY DEF TypeOK
<1>3. ASSUME FieldTypes', ClientTypes', BackendTypes', done' \in BOOLEAN,
             fault' \in {"none", "panic", "crash"}
      PROVE  TypeOK'
  BY <1>2, <1>3 DEF TypeOK, FieldTypes, ClientTypes, BackendTypes
<1>4. CASE RunConnects /\ UNCHANGED <<cconn, bconn, tries, done, fault>>
  <2>1. FieldTypes'
    BY <1>4, FieldKeepsTypes DEF RunConnects
  <2>2. ClientTypes'
    BY <1>1, <1>4 DEF ClientTypes, RunConnects
  <2>3. BackendTypes'
    BY <1>1, <1>4 DEF Started, BackendTypes, RunConnects
  <2> QED
    BY <1>2, <1>3, <1>4, <2>1, <2>2, <2>3
<1>5. CASE /\ RunFails \/ ReadRequest \/ ReadFails \/ Test \/ ConnectFails \/ CloseTest
           /\ UNCHANGED <<conns, cconn, backend, done, fault>>
  <2>1. FieldTypes'
    BY <1>5, FieldKeepsTypes
  <2>2. ClientTypes'
    BY <1>1, <1>5 DEF ClientTypes, RunFails, ReadRequest, ReadFails, Test, ConnectFails, CloseTest
  <2>3. BackendTypes'
    BY <1>1, <1>5 DEF BackendTypes, backend
  <2> QED
    BY <1>2, <1>3, <1>5, <2>1, <2>2, <2>3
<1>6. CASE /\ Connects \/ Arm \/ Shut \/ Clear \/ CloseBackend
           /\ UNCHANGED <<cconn, backend, done, fault>>
  <2>1. FieldTypes'
    <3>1. CASE Arm
      BY <1>1, <3>1 DEF Arm, FieldTypes, ConnOrNil
    <3>2. CASE Connects \/ Shut \/ Clear \/ CloseBackend
      BY <3>2, FieldKeepsTypes DEF Connects, Shut, Clear, CloseBackend
    <3> QED
      BY <1>6, <3>1, <3>2
  <2>2. ClientTypes'
    BY <1>1, <1>6 DEF ClientTypes, Connects, Arm, Shut, Clear, CloseBackend
  <2>3. BackendTypes'
    BY <1>1, <1>6 DEF BackendTypes, backend
  <2> QED
    BY <1>2, <1>3, <1>6, <2>1, <2>2, <2>3
<1>7. CASE (Load \/ Write \/ WriteFails) /\ UNCHANGED <<conns, backend, done, fault>>
  <2>1. FieldTypes'
    BY <1>7, FieldKeepsTypes
  <2>2. ClientTypes'
    BY <1>1, <1>7 DEF ClientTypes, FieldTypes, ConnOrNil, Load, Write, WriteFails
  <2>3. BackendTypes'
    BY <1>1, <1>7 DEF BackendTypes, backend
  <2> QED
    BY <1>2, <1>3, <1>7, <2>1, <2>2, <2>3
<1>8. CASE Close /\ UNCHANGED <<conns, cconn, backend, fault>>
  <2>1. FieldTypes'
    BY <1>8, FieldKeepsTypes
  <2>2. ClientTypes' /\ done' \in BOOLEAN
    BY <1>1, <1>8 DEF ClientTypes, Close
  <2>3. BackendTypes'
    BY <1>1, <1>8 DEF BackendTypes, backend
  <2> QED
    BY <1>2, <1>3, <1>8, <2>1, <2>2, <2>3
<1>9. CASE CPanics /\ UNCHANGED <<conns, cconn, backend, done>>
  <2>1. FieldTypes'
    BY <1>9, FieldKeepsTypes
  <2>2. ClientTypes' /\ fault' \in {"none", "panic", "crash"}
    BY <1>1, <1>9 DEF ClientTypes, CPanics
  <2>3. BackendTypes'
    BY <1>1, <1>9 DEF BackendTypes, backend
  <2> QED
    BY <1>2, <1>3, <1>9, <2>1, <2>2, <2>3
<1> QED
  BY <1>4, <1>5, <1>6, <1>7, <1>8, <1>9 DEF ClientStep

\* So does a step of the backend goroutine.
LEMMA BackendKeepsTypes ==
  ASSUME TypeOK, BackendStep, late' = late, torn' \in BOOLEAN
  PROVE  TypeOK'
<1> USE DEF BGoto
<1>1. FieldTypes /\ ClientTypes /\ BackendTypes
  BY DEF TypeOK, FieldTypes, ClientTypes, BackendTypes
<1>2. done \in BOOLEAN /\ late' \in BOOLEAN /\ fault \in {"none", "panic", "crash"}
  BY DEF TypeOK
<1>3. ASSUME FieldTypes', ClientTypes', BackendTypes', done' \in BOOLEAN,
             fault' \in {"none", "panic", "crash"}
      PROVE  TypeOK'
  BY <1>2, <1>3 DEF TypeOK, FieldTypes, ClientTypes, BackendTypes
<1>4. CASE /\ Top \/ BTest \/ Deliver \/ ReconnectsUp \/ Check
           /\ UNCHANGED <<conns, client, bconn, tries, done, fault>>
  <2>1. FieldTypes'
    BY <1>4, FieldKeepsTypes
  <2>2. ClientTypes'
    BY <1>1, <1>4 DEF ClientTypes, client
  <2>3. BackendTypes'
    BY <1>1, <1>4 DEF BackendTypes, Top, BTest, Deliver, ReconnectsUp, Check
  <2> QED
    BY <1>2, <1>3, <1>4, <2>1, <2>2, <2>3
<1>5. CASE (BLoad \/ Read \/ BReadFails) /\ UNCHANGED <<conns, client, tries, done, fault>>
  <2>1. FieldTypes'
    BY <1>5, FieldKeepsTypes
  <2>2. ClientTypes'
    BY <1>1, <1>5 DEF ClientTypes, client
  <2>3. BackendTypes'
    BY <1>1, <1>5 DEF BackendTypes, FieldTypes, ConnOrNil, BLoad, Read, BReadFails
  <2> QED
    BY <1>2, <1>3, <1>5, <2>1, <2>2, <2>3
<1>6. CASE /\ BShut \/ BClear \/ Reconnect \/ ReconnectFails
           /\ UNCHANGED <<client, bconn, done, fault>>
  <2>1. FieldTypes'
    BY <1>6, FieldKeepsTypes DEF BShut, BClear, Reconnect, ReconnectFails
  <2>2. ClientTypes'
    BY <1>1, <1>6 DEF ClientTypes, client
  <2>3. BackendTypes'
    BY <1>1, <1>6, SessionConfig
    DEF SessionConfig, BackendTypes, BShut, BClear, Reconnect, ReconnectFails
  <2> QED
    BY <1>2, <1>3, <1>6, <2>1, <2>2, <2>3
<1>7. CASE BPanics /\ UNCHANGED <<conns, client, backend, done>>
  <2>1. FieldTypes'
    BY <1>7, FieldKeepsTypes
  <2>2. ClientTypes' /\ fault' \in {"none", "panic", "crash"}
    BY <1>1, <1>7 DEF ClientTypes, client, BPanics
  <2>3. BackendTypes'
    BY <1>1, <1>7 DEF BackendTypes, backend
  <2> QED
    BY <1>2, <1>3, <1>7, <2>1, <2>2, <2>3
<1> QED
  BY <1>4, <1>5, <1>6, <1>7 DEF BackendStep

-----------------------------------------------------------------------------
\* What holds while nobody was cut into.
Sound ==
  /\ fault = "none"
  /\ Open \subseteq {backendConn}
  /\ ClientKnows /\ BackendKnows

\* A step of the client goroutine that does not cut into the backend
\* goroutine's reliance keeps everything sound: what it relies on itself was
\* there before the step.
LEMMA ClientSound ==
  ASSUME TypeOK, Started, Sound, ClientStep, BRelies => backendConn' = backendConn
  PROVE  Sound' /\ Started'
<1> USE DEF CGoto
<1>1. FieldTypes /\ ClientTypes /\ BackendTypes
  BY DEF TypeOK, FieldTypes, ClientTypes, BackendTypes
<1>2. nil \notin Conns
  BY SessionConfig DEF SessionConfig, nil
<1>3. fault = "none" /\ Open \subseteq {backendConn} /\ ClientKnows /\ BackendKnows
  BY DEF Sound
<1>4. CASE RunConnects /\ UNCHANGED <<cconn, bconn, tries, done, fault>>
  <2>1. PICK x \in Conns : x # nil /\ sock' = [sock EXCEPT ![x] = "up"] /\ backendConn' = x
    BY <1>4, DialEffect DEF RunConnects
  <2>2. Open' \subseteq {backendConn'}
    BY <1>1, <1>2, <1>3, <1>4, <2>1 DEF Open, ClientKnows, RunConnects, FieldTypes
  <2>3. ClientKnows' /\ BackendKnows' /\ Started'
    BY <1>4, <2>1 DEF ClientKnows, BackendKnows, RunConnects, Started
  <2> QED
    BY <1>3, <1>4, <2>2, <2>3 DEF Sound
<1>5. CASE /\ RunFails \/ ReadRequest \/ ReadFails \/ Test \/ ConnectFails \/ CloseTest
           /\ UNCHANGED <<conns, cconn, backend, done, fault>>
  <2>1. Open' \subseteq {backendConn'}
    BY <1>3, <1>5 DEF Open, conns
  <2>2. ClientKnows' /\ Started'
    BY <1>3, <1>5 DEF ClientKnows, conns, Started,
       RunFails, ReadRequest, ReadFails, Test, ConnectFails, CloseTest
  <2>3. BackendKnows'
    BY <1>3, <1>5 DEF BackendKnows, conns, backend
  <2> QED
    BY <1>3, <1>5, <2>1, <2>2, <2>3 DEF Sound
<1>6. CASE /\ Connects \/ Arm \/ Shut \/ Clear \/ CloseBackend
           /\ UNCHANGED <<cconn, backend, done, fault>>
  <2>1. CASE Connects
    <3>1. PICK x \in Conns : x # nil /\ x # backendConn
                             /\ sock' = [sock EXCEPT ![x] = "up"] /\ backendConn' = x
      BY <2>1, DialEffect DEF Connects
    <3>2. Open' \subseteq {backendConn'}
      BY <1>1, <1>2, <1>3, <2>1, <3>1 DEF Open, ClientKnows, Connects, FieldTypes
    <3>3. ClientKnows' /\ Started'
      BY <2>1, <3>1 DEF ClientKnows, Connects, Started
    <3>4. BackendKnows'
      BY <1>6, <3>1 DEF BackendKnows, BRelies, backend
    <3> QED
      BY <1>3, <1>6, <3>2, <3>3, <3>4 DEF Sound
  <2>2. CASE Arm
    <3>1. Open' \subseteq {backendConn'}
      BY <1>3, <2>2 DEF Open, Arm
    <3>2. ClientKnows' /\ Started'
      BY <1>3, <2>2 DEF ClientKnows, Arm, Started
    <3>3. BackendKnows'
      BY <1>3, <1>6, <2>2 DEF BackendKnows, Arm, backend
    <3> QED
      BY <1>3, <1>6, <3>1, <3>2, <3>3 DEF Sound
  <2>3. CASE Shut \/ CloseBackend
    <3>1. /\ backendConn \in Conns /\ backendConn' = backendConn
          /\ sock' = [sock EXCEPT ![backendConn] = "closed"]
      BY <2>3, CloseFieldEffect DEF Shut, CloseBackend
    <3>2. sock'[backendConn'] = "closed" /\ backendConn' # nil
      BY <1>1, <1>2, <3>1 DEF FieldTypes
    <3>3. Open' \subseteq {backendConn'}
      BY <1>1, <1>3, <3>1 DEF Open, FieldTypes
    <3>4. ClientKnows' /\ Started'
      BY <2>3, <3>2 DEF ClientKnows, Shut, CloseBackend, Started
    <3>5. BackendKnows'
      BY <1>3, <1>6, <3>1, <3>2 DEF BackendKnows, backend
    <3> QED
      BY <1>3, <1>6, <3>3, <3>4, <3>5 DEF Sound
  <2>4. CASE Clear
    <3>1. backendConn # nil /\ sock[backendConn] = "closed"
      BY <1>3, <2>4 DEF ClientKnows, Clear
    <3>2. backendConn' = nil /\ sock' = sock
      BY <2>4 DEF Clear, ClearField
    <3>3. Open' \subseteq {backendConn'}
      BY <1>3, <3>1, <3>2 DEF Open
    <3>4. ClientKnows' /\ Started'
      BY <2>4, <3>2 DEF ClientKnows, Clear, Started
    <3>5. BackendKnows'
      BY <1>6, <3>1, <3>2 DEF BackendKnows, BRelies, backend
    <3> QED
      BY <1>3, <1>6, <3>3, <3>4, <3>5 DEF Sound
  <2> QED
    BY <1>6, <2>1, <2>2, <2>3, <2>4
<1>7. CASE (Load \/ Write \/ WriteFails) /\ UNCHANGED <<conns, backend, done, fault>>
  <2>1. Open' \subseteq {backendConn'}
    BY <1>3, <1>7 DEF Open, conns
  <2>2. ClientKnows' /\ Started'
    BY <1>3, <1>7 DEF ClientKnows, conns, Started, Load, Write, WriteFails
  <2>3. BackendKnows'
    BY <1>3, <1>7 DEF BackendKnows, conns, backend
  <2> QED
    BY <1>3, <1>7, <2>1, <2>2, <2>3 DEF Sound
<1>8. CASE Close /\ UNCHANGED <<conns, cconn, backend, fault>>
  <2>1. Open' \subseteq {backendConn'}
    BY <1>3, <1>8 DEF Open, conns
  <2>2. ClientKnows' /\ Started'
    BY <1>8 DEF ClientKnows, Started, Close
  <2>3. BackendKnows'
    BY <1>3, <1>8 DEF BackendKnows, conns, backend
  <2> QED
    BY <1>3, <1>8, <2>1, <2>2, <2>3 DEF Sound
<1>9. CASE CPanics
  BY <1>3, <1>9 DEF CPanics, ClientKnows
<1> QED
  BY <1>4, <1>5, <1>6, <1>7, <1>8, <1>9 DEF ClientStep

\* The same for a step of the backend goroutine.
LEMMA BackendSound ==
  ASSUME TypeOK, Started, Sound, BackendStep, CRelies => backendConn' = backendConn
  PROVE  Sound' /\ Started'
<1> USE DEF BGoto
<1>1. FieldTypes /\ ClientTypes /\ BackendTypes
  BY DEF TypeOK, FieldTypes, ClientTypes, BackendTypes
<1>2. nil \notin Conns
  BY SessionConfig DEF SessionConfig, nil
<1>3. fault = "none" /\ Open \subseteq {backendConn} /\ ClientKnows /\ BackendKnows
  BY DEF Sound
\* b has no step before Run has started it.
<1>4. c' = c /\ cconn' = cconn /\ c # "start" /\ Started'
  BY DEF BackendStep, Top, BTest, Deliver, ReconnectsUp, Check, BLoad, Read, BReadFails,
     BShut, BClear, Reconnect, ReconnectFails, BPanics, client, Started
<1>5. CASE /\ Top \/ BTest \/ Deliver \/ ReconnectsUp \/ Check
           /\ UNCHANGED <<conns, client, bconn, tries, done, fault>>
  <2>1. Open' \subseteq {backendConn'}
    BY <1>3, <1>5 DEF Open, conns
  <2>2. ClientKnows'
    BY <1>3, <1>4, <1>5 DEF ClientKnows, conns
  <2>3. BackendKnows'
    BY <1>3, <1>5 DEF BackendKnows, conns, Top, BTest, Deliver, ReconnectsUp, Check
  <2> QED
    BY <1>3, <1>4, <1>5, <2>1, <2>2, <2>3 DEF Sound
<1>6. CASE (BLoad \/ Read \/ BReadFails) /\ UNCHANGED <<conns, client, tries, done, fault>>
  <2>1. Open' \subseteq {backendConn'}
    BY <1>3, <1>6 DEF Open, conns
  <2>2. ClientKnows'
    BY <1>3, <1>4, <1>6 DEF ClientKnows, conns
  <2>3. BackendKnows'
    BY <1>3, <1>6 DEF BackendKnows, conns, BLoad, Read, BReadFails
  <2> QED
    BY <1>3, <1>4, <1>6, <2>1, <2>2, <2>3 DEF Sound
<1>7. CASE BShut /\ UNCHANGED <<client, bconn, done, fault>>
  <2>1. /\ backendConn \in Conns /\ backendConn' = backendConn
        /\ sock' = [sock EXCEPT ![backendConn] = "closed"]
    BY <1>7, CloseFieldEffect DEF BShut
  <2>2. sock'[backendConn'] = "closed" /\ backendConn' # nil
    BY <1>1, <1>2, <2>1 DEF FieldTypes
  <2>3. Open' \subseteq {backendConn'}
    BY <1>1, <1>3, <2>1 DEF Open, FieldTypes
  <2>4. ClientKnows'
    BY <1>3, <1>4, <2>1, <2>2 DEF ClientKnows
  <2>5. BackendKnows'
    BY <1>7, <2>2 DEF BackendKnows, BShut
  <2> QED
    BY <1>3, <1>4, <1>7, <2>3, <2>4, <2>5 DEF Sound
<1>8. CASE BClear /\ UNCHANGED <<client, bconn, done, fault>>
  <2>1. backendConn # nil /\ sock[backendConn] = "closed"
    BY <1>3, <1>8 DEF BackendKnows, BClear
  <2>2. backendConn' = nil /\ sock' = sock
    BY <1>8 DEF BClear, ClearField
  <2>3. Open' \subseteq {backendConn'}
    BY <1>3, <2>1, <2>2 DEF Open
  <2>4. ClientKnows'
    BY <1>4, <2>1, <2>2 DEF ClientKnows, CRelies
  <2>5. BackendKnows'
    BY <1>8, <2>2 DEF BackendKnows, BClear
  <2> QED
    BY <1>3, <1>4, <1>8, <2>3, <2>4, <2>5 DEF Sound
<1>9. CASE Reconnect /\ UNCHANGED <<client, bconn, done, fault>>
  <2>1. PICK x \in Conns : x # nil /\ x # backendConn
                           /\ sock' = [sock EXCEPT ![x] = "up"] /\ backendConn' = x
    BY <1>9, DialEffect DEF Reconnect
  <2>2. Open' \subseteq {backendConn'}
    BY <1>1, <1>2, <1>3, <1>9, <2>1 DEF Open, BackendKnows, Reconnect, FieldTypes
  <2>3. ClientKnows'
    BY <1>4, <2>1 DEF ClientKnows, CRelies
  <2>4. BackendKnows'
    BY <1>9 DEF BackendKnows, Reconnect
  <2> QED
    BY <1>3, <1>4, <1>9, <2>2, <2>3, <2>4 DEF Sound
<1>10. CASE ReconnectFails /\ UNCHANGED <<client, bconn, done, fault>>
  <2>1. Open' \subseteq {backendConn'}
    BY <1>3, <1>10 DEF Open, conns, ReconnectFails
  <2>2. ClientKnows'
    BY <1>3, <1>4, <1>10 DEF ClientKnows, conns, ReconnectFails
  <2>3. BackendKnows'
    BY <1>3, <1>10 DEF BackendKnows, conns, ReconnectFails
  <2> QED
    BY <1>3, <1>4, <1>10, <2>1, <2>2, <2>3 DEF Sound
<1>11. CASE BPanics
  BY <1>3, <1>11 DEF BPanics, BackendKnows
<1> QED
  BY <1>5, <1>6, <1>7, <1>8, <1>9, <1>10, <1>11 DEF BackendStep

\* What backends and the clock do changes no store, and opens nothing.
LEMMA SurroundingsKeep ==
  ASSUME TypeOK, Surroundings
  PROVE  TypeOK' /\ (Sound => Sound') /\ (Started => Started') /\ torn' = torn
<1>1. FieldTypes /\ ClientTypes /\ BackendTypes
  BY DEF TypeOK, FieldTypes, ClientTypes, BackendTypes
<1>2. CASE /\ \E x \in Referred : Stalls(x) \/ Drops(x)
           /\ UNCHANGED <<backendConn, timed, client, backend, done, late, fault, torn>>
  <2>1. PICK x \in Conns, state \in {"stalled", "lost"} :
          sock[x] \in {"up", "stalled"} /\ sock' = [sock EXCEPT ![x] = state]
    BY <1>2 DEF Referred, Stalls, Drops
  <2>2. TypeOK'
    BY <1>2, <2>1 DEF TypeOK, client, backend
  <2>3. Open' = Open
    BY <1>1, <2>1 DEF Open, FieldTypes
  <2>4. Sound => Sound'
    BY <1>1, <1>2, <2>1, <2>3 DEF Sound, ClientKnows, BackendKnows, client, backend,
       FieldTypes
  <2> QED
    BY <1>2, <2>2, <2>4 DEF Started, client, backend
<1>3. CASE late' = TRUE /\ UNCHANGED <<conns, client, backend, done, fault, torn>>
  <2>1. TypeOK'
    BY <1>3 DEF TypeOK, conns, client, backend
  <2>2. Open' = Open
    BY <1>3 DEF Open, conns
  <2> QED
    BY <1>3, <2>1, <2>2 DEF Sound, ClientKnows, BackendKnows, Started, conns, client, backend
<1> QED
  BY <1>2, <1>3 DEF Surroundings

-----------------------------------------------------------------------------
LEMMA InitIInv == Init => IInv
<1> SUFFICES ASSUME Init PROVE IInv
  OBVIOUS
<1>1. TypeOK
  <2>1. FieldTypes
    BY DEF Init, FieldTypes, ConnOrNil
  <2>2. ClientTypes
    BY DEF Init, ClientTypes
  <2>3. BackendTypes
    BY SessionConfig DEF SessionConfig, Init, BackendTypes
  <2>4. done \in BOOLEAN /\ late \in BOOLEAN /\ torn \in BOOLEAN
    BY Zenon DEF Init
  <2> QED
    BY <2>1, <2>2, <2>3, <2>4, TypesSorted DEF Init
<1>2. Open = {}
  BY DEF Init, Open
<1>3. Started /\ Undisturbed
  BY <1>2 DEF Init, Started, Undisturbed, ClientKnows, BackendKnows
<1> QED
  BY <1>1, <1>3 DEF IInv

LEMMA NextIInv == IInv /\ [Next]_vars => IInv'
<1> SUFFICES ASSUME IInv, [Next]_vars PROVE IInv'
  OBVIOUS
<1>1. TypeOK /\ Started /\ (~torn => Sound)
  BY DEF IInv, Undisturbed, Sound
<1>2. ASSUME TypeOK', Started', ~torn' => Sound' PROVE IInv'
  BY <1>2 DEF IInv, Undisturbed, Sound
<1>3. CASE ClientActs
  <2>1. ClientStep /\ late' = late /\ torn' = (torn \/ (BRelies /\ backendConn' # backendConn))
    BY <1>3 DEF ClientActs
  <2>2. torn' \in BOOLEAN /\ (~torn' => ~torn /\ (BRelies => backendConn' = backendConn))
    BY <1>1, <2>1, Zenon DEF TypeOK
  <2>3. TypeOK'
    BY <1>1, <2>1, <2>2, ClientKeepsTypes
  <2>4. Started'
    BY <1>1, <2>1 DEF ClientStep, CGoto, RunConnects, RunFails, ReadRequest, ReadFails, Test,
       ConnectFails, CloseTest, Connects, Arm, Shut, Clear, CloseBackend, Load, Write,
       WriteFails, Close, CPanics, Started
  <2> QED
    BY <1>1, <1>2, <2>1, <2>2, <2>3, <2>4, ClientSound
<1>4. CASE BackendActs
  <2>1. BackendStep /\ late' = late /\ torn' = (torn \/ (CRelies /\ backendConn' # backendConn))
    BY <1>4 DEF BackendActs
  <2>2. torn' \in BOOLEAN /\ (~torn' => ~torn /\ (CRelies => backendConn' = backendConn))
    BY <1>1, <2>1, Zenon DEF TypeOK
  <2>3. TypeOK'
    BY <1>1, <2>1, <2>2, BackendKeepsTypes
  <2>4. Started'
    BY <1>1, <2>1 DEF BackendStep, BGoto, Top, BTest, Deliver, ReconnectsUp, Check, BLoad,
       Read, BReadFails, BShut, BClear, Reconnect, ReconnectFails, BPanics, client, Started
  <2> QED
    BY <1>1, <1>2, <2>1, <2>2, <2>3, <2>4, BackendSound
<1>5. CASE Surroundings
  BY <1>1, <1>2, <1>5, SurroundingsKeep
<1>6. CASE UNCHANGED vars
  BY <1>6 DEF vars, conns, client, backend, IInv, TypeOK, Started, Undisturbed, Open,
     ClientKnows, BackendKnows
<1> QED
  BY <1>3, <1>4, <1>5, <1>6 DEF Next

\* So it holds for ever.
LEMMA Invariance == Spec => []IInv
  BY InitIInv, NextIInv, PTL DEF Spec

\* Fields and locals keep their types; in particular a goroutine that reads
\* or writes does so on a connection, never on nil.
THEOREM TypeCorrect == Spec => []TypeOK
  BY Invariance, PTL DEF IInv

\* forwardFromClient, Close and forwardFromBackend use a nil backendConn only
\* if the other goroutine stored to it since it was tested or assigned.
THEOREM NoNilUse == Spec => []NilSafe
<1>1. IInv => NilSafe
  BY DEF IInv, Undisturbed, NilSafe
<1> QED
  BY <1>1, Invariance, PTL

\* Unless the goroutines cut into each other, every open connection to a
\* backend is the one in the field, whatever is dialled, shut and cleared.
THEOREM NothingAstray == Spec => []OneBackend
<1>1. IInv => OneBackend
  BY DEF IInv, Undisturbed, OneBackend
<1> QED
  BY <1>1, Invariance, PTL

-----------------------------------------------------------------------------
(***************************************************************************)
(* How long a session that has to end can take.                            *)
(***************************************************************************)

\* The steps that the client goroutine has left once no request can come in.
ClientLeft(pc) ==
  CASE pc = "ended" -> 0
    [] pc = "closeConn" -> 1
    [] pc = "closeTest" -> 2
    [] pc = "close" -> 3
    [] pc = "read" -> 4
    [] pc = "rewrite" -> 5
    [] pc = "reload" -> 6
    [] pc = "reconnect" -> 7
    [] pc = "clear" -> 8
    [] pc = "shut" -> 9
    [] pc = "write" -> 10
    [] pc = "load" -> 11
    [] pc = "arm" -> 12
    [] pc = "connect" -> 13
    [] pc = "test" -> 14
    [] pc = "start" -> 15

\* The steps that the backend goroutine has left once the session is closed:
\* it may still lose its connection and use up its attempts to reconnect.
BackendLeft(pc, i) ==
  CASE pc \in {"off", "ended"} -> 0
    [] pc = "top" -> 1
    [] pc = "check" -> 2
    [] pc = "reconnect" -> 3 + (MaxReconnects - i)
    [] pc = "clear" -> MaxReconnects + 4
    [] pc = "shut" -> MaxReconnects + 5
    [] pc = "deliver" -> MaxReconnects + 6
    [] pc = "reading" -> MaxReconnects + 7
    [] pc = "load" -> MaxReconnects + 8
    [] pc = "test" -> MaxReconnects + 9

LEMMA ClientLeftValues ==
  /\ ClientLeft("ended") = 0 /\ ClientLeft("closeConn") = 1 /\ ClientLeft("closeTest") = 2
  /\ ClientLeft("close") = 3 /\ ClientLeft("read") = 4 /\ ClientLeft("rewrite") = 5
  /\ ClientLeft("reload") = 6 /\ ClientLeft("reconnect") = 7 /\ ClientLeft("clear") = 8
  /\ ClientLeft("shut") = 9 /\ ClientLeft("write") = 10 /\ ClientLeft("load") = 11
  /\ ClientLeft("arm") = 12 /\ ClientLeft("connect") = 13 /\ ClientLeft("test") = 14
  /\ ClientLeft("start") = 15
  BY DEF ClientLeft

LEMMA BackendLeftValues ==
  ASSUME NEW i
  PROVE  /\ BackendLeft("off", i) = 0 /\ BackendLeft("ended", i) = 0
         /\ BackendLeft("top", i) = 1 /\ BackendLeft("check", i) = 2
         /\ BackendLeft("reconnect", i) = 3 + (MaxReconnects - i)
         /\ BackendLeft("clear", i) = MaxReconnects + 4
         /\ BackendLeft("shut", i) = MaxReconnects + 5
         /\ BackendLeft("deliver", i) = MaxReconnects + 6
         /\ BackendLeft("reading", i) = MaxReconnects + 7
         /\ BackendLeft("load", i) = MaxReconnects + 8
         /\ BackendLeft("test", i) = MaxReconnects + 9
  BY DEF BackendLeft

\* Close is the only one who closes done, and what follows it is the end.
ClosedByClient == done => c \in {"closeTest", "closeConn", "ended"}

LEMMA ClosedByClientAlways == Spec => []ClosedByClient
<1>1. Init => ClosedByClient
  BY DEF Init, ClosedByClient
<1>2. ClosedByClient /\ [Next]_vars => ClosedByClient'
  <2> SUFFICES ASSUME ClosedByClient, [Next]_vars PROVE ClosedByClient'
    OBVIOUS
  <2>1. CASE ClientStep
    BY <2>1 DEF ClientStep, CGoto, RunConnects, RunFails, ReadRequest, ReadFails, Test,
       ConnectFails, CloseTest, Connects, Arm, Shut, Clear, CloseBackend, Load, Write,
       WriteFails, Close, CPanics, ClosedByClient
  <2>2. CASE BackendStep
    BY <2>2 DEF BackendStep, client, ClosedByClient
  <2>3. CASE Surroundings \/ UNCHANGED vars
    BY <2>3 DEF Surroundings, vars, client, ClosedByClient
  <2> QED
    BY <2>1, <2>2, <2>3 DEF Next, ClientActs, BackendActs
<1> QED
  BY <1>1, <1>2, PTL DEF Spec

\* When the read deadline of the client has passed, the client goroutine is
\* at most 15 steps from its end, whatever the backends and the other
\* goroutine do; forwardFromClient has no loop but the one over requests.
THEOREM SilentSessionsEnd ==
  Spec => [][late => /\ late'
                     /\ ClientLeft(c) \in 0..15
                     /\ ClientActs => ClientLeft(c') < ClientLeft(c)
                     /\ ~ClientActs => c' = c]_vars
<1> DEFINE Goal == late => /\ late'
                           /\ ClientLeft(c) \in 0..15
                           /\ ClientActs => ClientLeft(c') < ClientLeft(c)
                           /\ ~ClientActs => c' = c
<1>1. TypeOK /\ [Next]_vars => [Goal]_vars
  <2> SUFFICES ASSUME TypeOK, Next, late PROVE Goal
    OBVIOUS
  <2>1. late'
    BY DEF Next, ClientActs, BackendActs, Surroundings
  <2>2. ClientLeft(c) \in 0..15
    BY ClientLeftValues DEF TypeOK
  <2>3. ASSUME ClientStep PROVE ClientLeft(c') < ClientLeft(c)
    BY <2>3, ClientLeftValues DEF ClientStep, CGoto, RunConnects, RunFails, ReadRequest,
       ReadFails, Test, ConnectFails, CloseTest, Connects, Arm, Shut, Clear, CloseBackend,
       Load, Write, WriteFails, Close, CPanics
  <2>4. ~ClientActs => c' = c
    BY DEF Next, BackendActs, BackendStep, Surroundings, client
  <2> QED
    BY <2>1, <2>2, <2>3, <2>4 DEF ClientActs
<1> QED
  BY <1>1, TypeCorrect, PTL DEF Spec

\* When the session is closed, the backend goroutine is at most MaxReconnects
\* and 9 steps from its end, or from the end of the process: its loop over
\* attempts is bounded, and the one over messages looks at done.
THEOREM ClosedSessionsDrain ==
  Spec => [][done => /\ done'
                     /\ BackendLeft(b, tries) \in 0..(MaxReconnects + 9)
                     /\ BackendActs => \/ BackendLeft(b', tries') < BackendLeft(b, tries)
                                       \/ fault' = "crash"
                     /\ ~BackendActs => b' = b /\ tries' = tries]_vars
<1> DEFINE Goal == done => /\ done'
                           /\ BackendLeft(b, tries) \in 0..(MaxReconnects + 9)
                           /\ BackendActs => \/ BackendLeft(b', tries') < BackendLeft(b, tries)
                                             \/ fault' = "crash"
                           /\ ~BackendActs => b' = b /\ tries' = tries
<1>1. TypeOK /\ ClosedByClient /\ [Next]_vars => [Goal]_vars
  <2> SUFFICES ASSUME TypeOK, ClosedByClient, Next, done PROVE Goal
    OBVIOUS
  <2>0. MaxReconnects \in Nat /\ tries \in 0..MaxReconnects
    BY SessionConfig DEF SessionConfig, TypeOK
  <2>1. done'
    BY DEF Next, ClientActs, ClientStep, Close, BackendActs, BackendStep, Surroundings
  <2>2. BackendLeft(b, tries) \in 0..(MaxReconnects + 9)
    BY <2>0, BackendLeftValues DEF TypeOK
  <2>3. ASSUME BackendStep, fault' # "crash" PROVE BackendLeft(b', tries') < BackendLeft(b, tries)
    <3>1. CASE /\ Top \/ BTest \/ Deliver \/ ReconnectsUp \/ Check
               /\ tries' = tries
      BY <2>0, <3>1, BackendLeftValues DEF Top, BTest, Deliver, ReconnectsUp, Check, BGoto
    <3>2. CASE BLoad \/ Read \/ BReadFails
      BY <2>0, <3>2, BackendLeftValues DEF BLoad, Read, BReadFails, BGoto
    <3>3. CASE BShut \/ BClear
      BY <2>0, <3>3, BackendLeftValues DEF BShut, BClear, BGoto
    <3>4. CASE Reconnect \/ ReconnectFails
      BY <2>0, <3>4, BackendLeftValues DEF Reconnect, ReconnectFails, BGoto
    <3> QED
      BY <2>3, <3>1, <3>2, <3>3, <3>4 DEF BackendStep, BPanics
  <2>4. ASSUME ~BackendActs PROVE b' = b /\ tries' = tries
    <3>1. CASE ClientStep
      BY <3>1 DEF ClosedByClient, ClientStep, RunConnects, CGoto, backend
    <3>2. CASE Surroundings
      BY <3>2 DEF Surroundings, backend
    <3> QED
      BY <2>4, <3>1, <3>2 DEF Next, ClientActs
  <2> QED
    BY <2>1, <2>2, <2>3, <2>4 DEF BackendActs
<1> QED
  BY <1>1, TypeCorrect, ClosedByClientAlways, PTL DEF Spec
=============================================================================
