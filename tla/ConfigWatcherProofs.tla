------------------------- MODULE ConfigWatcherProofs -------------------------
(***************************************************************************)
(* What TLAPS proves about the configuration watcher for any number of     *)
(* timers, callers, changes and callbacks.                                 *)
(***************************************************************************)
EXTENDS ConfigWatcher, TLAPS

\* Only what was written can be reported or loaded, and only callbacks that
\* are registered are called.
Bounds ==
  /\ events <= file
  /\ \A r \in Reloads : /\ run[r].new <= file
                        /\ run[r].pc = "notify" => run[r].upto <= callbacks

\* An overlap is remembered.
Remembered == Overlapping => overlap

\* What waits to be installed is not older than what is installed.
Newer == ~overlap => \A r \in Reloads : run[r].pc = "install" => config <= run[r].new

\* A valid content that is not installed is on its way: an event, the timer
\* or a reload will bring it.
Coming ==
  (stop = "no" /\ ~crashed /\ ~overlap /\ kind = "good" /\ config # file) =>
    \/ events > 0 \/ watching = "handle"
    \/ timer
    \/ \E r \in Reloads : run[r].pc = "load"
    \/ \E r \in Reloads : run[r].pc = "install" /\ run[r].new = file

\* Every callback knows the installed configuration, but those that the
\* reload under way has still to call know the one before.
Told ==
  ~overlap =>
    /\ (\A r \in Reloads : run[r].pc # "notify") =>
         \A i \in 1..callbacks : seen[i] = config
    /\ \A r \in Reloads : run[r].pc = "notify" =>
         /\ run[r].new = config
         /\ \A i \in 1..callbacks :
              seen[i] = IF run[r].told < i /\ i <= run[r].upto THEN run[r].old ELSE config

IInv == TypeOK /\ Bounds /\ Remembered /\ Newer /\ Coming /\ Told

-----------------------------------------------------------------------------
\* The parts of TypeOK, so that a step proves what it changes.
FileTypes ==
  /\ file \in 0..MaxChanges /\ kind \in {"good", "bad", "nilChain"}
  /\ events \in 0..MaxChanges
  /\ config \in 0..file

FlagTypes ==
  /\ timer \in BOOLEAN /\ watching \in {"select", "handle", "over"}
  /\ stop \in {"no", "signalled", "closed"}
  /\ crashed \in BOOLEAN /\ overlap \in BOOLEAN

RunTypes ==
  /\ run \in [Reloads -> Run]
  /\ \A r \in Reloads : run[r].pc = "notify" => run[r].told < run[r].upto

CallbackTypes ==
  /\ callbacks \in 0..MaxCallbacks
  /\ seen \in [1..MaxCallbacks -> 0..MaxChanges]

LEMMA TypesSorted == TypeOK <=> FileTypes /\ FlagTypes /\ RunTypes /\ CallbackTypes
  BY Zenon DEF TypeOK, FileTypes, FlagTypes, RunTypes, CallbackTypes

\* A fresh reload has no fields yet.
LEMMA IdleTyped ==
  Idle \in Run /\ Idle.pc = "idle" /\ Idle.new = 0
  BY WatcherConfig DEF WatcherConfig, Idle, Run

\* A step that touches no reload makes no overlap.
LEMMA SameRuns ==
  ASSUME IInv, run' = run, overlap' = (overlap \/ Overlapping')
  PROVE  RunTypes' /\ overlap' = overlap /\ Remembered'
<1>1. overlap \in BOOLEAN /\ Remembered
  BY DEF IInv, TypeOK
<1>2. Overlapping' = Overlapping
  BY DEF Overlapping, Between
<1>3. RunTypes'
  BY DEF IInv, TypeOK, RunTypes
<1>4. overlap' = overlap /\ Remembered'
  BY <1>1, <1>2 DEF Remembered
<1> QED
  BY <1>3, <1>4

LEMMA ChangeKeeps ==
  ASSUME IInv, NEW k \in {"good", "bad", "nilChain"}, Change(k),
         overlap' = (overlap \/ Overlapping')
  PROVE  IInv'
<1> USE WatcherConfig DEF WatcherConfig
<1>1. FileTypes /\ FlagTypes /\ RunTypes /\ CallbackTypes
  BY TypesSorted DEF IInv
<1>2. RunTypes' /\ overlap' = overlap /\ Remembered'
  BY SameRuns DEF Change
<1>3. FileTypes' /\ Bounds'
  BY <1>1 DEF FileTypes, Change, IInv, Bounds, RunTypes, Run
<1>4. FlagTypes' /\ CallbackTypes'
  BY <1>1, <1>2 DEF FlagTypes, CallbackTypes, Change, loop
<1>5. Newer' /\ Told'
  BY <1>2 DEF IInv, Newer, Told, Change
<1>6. Coming'
  BY <1>1 DEF Coming, Change, FileTypes, FlagTypes
<1> QED
  BY <1>2, <1>3, <1>4, <1>5, <1>6, Zenon
  DEF IInv, TypeOK, FileTypes, FlagTypes, RunTypes, CallbackTypes

LEMMA VanishKeeps ==
  ASSUME IInv, Vanish, overlap' = (overlap \/ Overlapping')
  PROVE  IInv'
<1> USE WatcherConfig DEF WatcherConfig
<1>1. FileTypes /\ FlagTypes /\ RunTypes /\ CallbackTypes
  BY TypesSorted DEF IInv
<1>2. RunTypes' /\ overlap' = overlap /\ Remembered'
  BY SameRuns DEF Vanish
<1>3. FileTypes' /\ Bounds'
  BY <1>1 DEF FileTypes, Vanish, IInv, Bounds, RunTypes, Run
<1>4. FlagTypes' /\ CallbackTypes'
  BY <1>1, <1>2 DEF FlagTypes, CallbackTypes, Vanish, loop
<1>5. Newer' /\ Told' /\ Coming'
  BY <1>2 DEF IInv, Newer, Told, Coming, Vanish
<1> QED
  BY <1>2, <1>3, <1>4, <1>5, Zenon
  DEF IInv, TypeOK, FileTypes, FlagTypes, RunTypes, CallbackTypes

\* The watch loop and Stop: an event that is taken leaves a timer behind.
LEMMA LoopKeeps ==
  ASSUME IInv, Receive \/ Arm \/ OnStop \/ StopSignals \/ StopCloses,
         overlap' = (overlap \/ Overlapping')
  PROVE  IInv'
<1> USE WatcherConfig DEF WatcherConfig
<1>1. FileTypes /\ FlagTypes /\ RunTypes /\ CallbackTypes
  BY TypesSorted DEF IInv
<1>2. /\ run' = run /\ file' = file /\ kind' = kind /\ config' = config
      /\ callbacks' = callbacks /\ seen' = seen /\ crashed' = crashed
  BY DEF Receive, Arm, OnStop, StopSignals, StopCloses, disk
<1>3. RunTypes' /\ overlap' = overlap /\ Remembered'
  BY <1>2, SameRuns
<1>4. FileTypes' /\ Bounds'
  BY <1>1, <1>2 DEF FileTypes, IInv, Bounds, Receive, Arm, OnStop, StopSignals, StopCloses
<1>5. FlagTypes' /\ CallbackTypes'
  BY <1>1, <1>2, <1>3 DEF FlagTypes, CallbackTypes, Receive, Arm, OnStop, StopSignals, StopCloses, loop
<1>6. Newer' /\ Told'
  BY <1>2, <1>3 DEF IInv, Newer, Told
<1>7. Coming'
  <2>1. CASE Receive \/ Arm
    BY <2>1 DEF Coming, Receive, Arm
  <2>2. CASE OnStop \/ StopSignals \/ StopCloses
    BY <2>2 DEF Coming, OnStop, StopSignals, StopCloses
  <2> QED
    BY <2>1, <2>2
<1> QED
  BY <1>3, <1>4, <1>5, <1>6, <1>7, Zenon
  DEF IInv, TypeOK, FileTypes, FlagTypes, RunTypes, CallbackTypes

\* A callback registered now knows the configuration of now.
LEMMA OnReloadKeeps ==
  ASSUME IInv, OnReload, overlap' = (overlap \/ Overlapping')
  PROVE  IInv'
<1> USE WatcherConfig DEF WatcherConfig
<1>1. FileTypes /\ FlagTypes /\ RunTypes /\ CallbackTypes
  BY TypesSorted DEF IInv
<1>2. /\ run' = run /\ file' = file /\ kind' = kind /\ config' = config /\ events' = events
      /\ timer' = timer /\ watching' = watching /\ stop' = stop /\ crashed' = crashed
  BY DEF OnReload, disk, loop
<1>3. /\ callbacks' = callbacks + 1 /\ callbacks' \in 1..MaxCallbacks
      /\ seen' = [seen EXCEPT ![callbacks + 1] = config]
  BY <1>1 DEF OnReload, CallbackTypes
<1>4. RunTypes' /\ overlap' = overlap /\ Remembered'
  BY <1>2, SameRuns
<1>5. FileTypes' /\ FlagTypes'
  BY <1>1, <1>2, <1>4 DEF FileTypes, FlagTypes
<1>6. CallbackTypes'
  BY <1>1, <1>3 DEF CallbackTypes, FileTypes
<1>7. Bounds'
  BY <1>1, <1>2, <1>3 DEF IInv, Bounds, RunTypes, Run, CallbackTypes
<1>8. Newer' /\ Coming'
  BY <1>2, <1>4 DEF IInv, Newer, Coming
<1>9. Told'
  <2> SUFFICES ASSUME ~overlap PROVE Told'
    BY <1>4 DEF Told
  <2>1. \A i \in 1..callbacks' : i \in 1..callbacks \/ i = callbacks + 1
    BY <1>1, <1>3 DEF CallbackTypes
  <2>2. seen'[callbacks + 1] = config /\ \A i \in 1..callbacks : seen'[i] = seen[i]
    BY <1>1, <1>3 DEF CallbackTypes
  <2>3. \A r \in Reloads : run[r].pc = "notify" => ~(callbacks + 1 <= run[r].upto)
    BY <1>1 DEF IInv, Bounds, RunTypes, Run, CallbackTypes
  <2> QED
    BY <1>2, <2>1, <2>2, <2>3 DEF IInv, Told
<1> QED
  BY <1>4, <1>5, <1>6, <1>7, <1>8, <1>9, Zenon
  DEF IInv, TypeOK, FileTypes, FlagTypes, RunTypes, CallbackTypes

\* A reload starts: Fire or ForceReload.
LEMMA BeginKeeps ==
  ASSUME IInv, NEW r \in Reloads, Begin(r), timer' \in BOOLEAN,
         UNCHANGED <<disk, events, watching, stop, config, callbacks, crashed, seen>>,
         overlap' = (overlap \/ Overlapping')
  PROVE  IInv'
<1> USE WatcherConfig DEF WatcherConfig
<1>1. FileTypes /\ FlagTypes /\ RunTypes /\ CallbackTypes
  BY TypesSorted DEF IInv
<1> DEFINE own == [run[r] EXCEPT !.pc = "load"]
<1>2. /\ own \in Run /\ own.pc = "load" /\ own.new = run[r].new
      /\ run' = [run EXCEPT ![r] = own] /\ run[r].pc = "idle"
  BY <1>1 DEF Begin, RunTypes, Run
<1> HIDE DEF own
<1>3. /\ run' \in [Reloads -> Run] /\ run'[r] = own
      /\ \A q \in Reloads \ {r} : run'[q] = run[q]
  BY <1>1, <1>2 DEF RunTypes
<1>4. overlap' = overlap /\ Remembered'
  <2>1. Overlapping' => Overlapping
    BY <1>2, <1>3 DEF Overlapping, Between
  <2>2. overlap \in BOOLEAN /\ Remembered
    BY DEF IInv, TypeOK
  <2> QED
    BY <2>1, <2>2, Zenon DEF Remembered
<1>5. RunTypes'
  BY <1>1, <1>2, <1>3 DEF RunTypes
<1>6. FileTypes' /\ CallbackTypes'
  BY <1>1 DEF FileTypes, CallbackTypes, disk
<1>7. FlagTypes'
  BY <1>1, <1>4 DEF FlagTypes
<1>8. Bounds' /\ Newer'
  BY <1>2, <1>3, <1>4 DEF IInv, Bounds, Newer, disk
<1>9. Coming'
  BY <1>2, <1>3 DEF Coming
<1>10. Told'
  BY <1>2, <1>3, <1>4 DEF IInv, Told
<1> QED
  BY <1>4, <1>5, <1>6, <1>7, <1>8, <1>9, <1>10, Zenon
  DEF IInv, TypeOK, FileTypes, FlagTypes, RunTypes, CallbackTypes

\* An overlap that a step makes is remembered; without one there was none.
LEMMA OverlapStep ==
  ASSUME IInv, overlap' = (overlap \/ Overlapping')
  PROVE  overlap' \in BOOLEAN /\ Remembered' /\ (~overlap' => ~overlap /\ ~Overlapping')
<1>1. overlap \in BOOLEAN
  BY DEF IInv, TypeOK
<1> QED
  BY <1>1, Zenon DEF Remembered

LEMMA LoadKeeps ==
  ASSUME IInv, NEW r \in Reloads, Load(r), overlap' = (overlap \/ Overlapping')
  PROVE  IInv'
<1> USE WatcherConfig DEF WatcherConfig
<1>1. FileTypes /\ FlagTypes /\ RunTypes /\ CallbackTypes
  BY TypesSorted DEF IInv
<1>2. overlap' \in BOOLEAN /\ Remembered' /\ (~overlap' => ~overlap /\ ~Overlapping')
  BY OverlapStep
<1>3. PICK own \in Run :
        /\ run' = [run EXCEPT ![r] = own]
        /\ own.new <= file
        /\ IF kind = "good" THEN own.pc = "install" /\ own.new = file ELSE own.pc = "idle"
  <2>1. CASE Decodes
    <3>1. [run[r] EXCEPT !.pc = "install", !.new = file] \in Run
      BY <1>1 DEF RunTypes, Run, FileTypes
    <3>2. /\ [run[r] EXCEPT !.pc = "install", !.new = file].pc = "install"
          /\ [run[r] EXCEPT !.pc = "install", !.new = file].new = file
      BY <1>1 DEF RunTypes, Run
    <3>3. run' = [run EXCEPT ![r] = [run[r] EXCEPT !.pc = "install", !.new = file]]
      BY <2>1 DEF Load
    <3>4. file <= file
      BY <1>1 DEF FileTypes
    <3> QED
      BY <2>1, <3>1, <3>2, <3>3, <3>4 DEF Decodes
  <2>2. CASE ~Decodes
    <3>1. run' = [run EXCEPT ![r] = Idle]
      BY <2>2 DEF Load
    <3>2. 0 <= file
      BY <1>1 DEF FileTypes
    <3> QED
      BY <2>2, <3>1, <3>2, IdleTyped DEF Decodes
  <2> QED
    BY <2>1, <2>2
<1>4. /\ run' \in [Reloads -> Run] /\ run'[r] = own /\ run[r].pc = "load"
      /\ \A q \in Reloads \ {r} : run'[q] = run[q]
  BY <1>1, <1>3 DEF RunTypes, Load
<1>5. /\ file' = file /\ kind' = kind /\ events' = events /\ timer' = timer
      /\ watching' = watching /\ stop' = stop /\ config' = config
      /\ callbacks' = callbacks /\ seen' = seen /\ crashed' = (kind = "nilChain")
  BY DEF Load, DefaultsPanic, disk, loop
<1>6. RunTypes'
  BY <1>1, <1>3, <1>4 DEF RunTypes
<1>7. FileTypes' /\ CallbackTypes'
  BY <1>1, <1>5 DEF FileTypes, CallbackTypes
<1>8. FlagTypes'
  BY <1>1, <1>2, <1>5 DEF FlagTypes
<1>9. Bounds'
  BY <1>3, <1>4, <1>5 DEF IInv, Bounds
<1>10. Newer'
  BY <1>1, <1>2, <1>3, <1>4, <1>5 DEF IInv, Newer, FileTypes
<1>11. Coming'
  BY <1>3, <1>4, <1>5 DEF Coming
<1>12. Told'
  BY <1>2, <1>3, <1>4, <1>5 DEF IInv, Told
<1> QED
  BY <1>2, <1>6, <1>7, <1>8, <1>9, <1>10, <1>11, <1>12, Zenon
  DEF IInv, TypeOK, FileTypes, FlagTypes, RunTypes, CallbackTypes

\* While nothing overlaps, nobody else is between load and end.
LEMMA Alone ==
  ASSUME IInv, NEW r \in Reloads, Between(r), ~overlap
  PROVE  \A q \in Reloads \ {r} : run[q].pc # "install" /\ run[q].pc # "notify"
  BY DEF IInv, Remembered, Overlapping, Between

\* A reload that has told n of its callbacks ends with the last one.
LEMMA TellingTyped ==
  ASSUME NEW R \in Run, NEW n \in 0..R.upto
  PROVE  LET T == Telling(R, n)
         IN  /\ T \in Run /\ T.new <= R.new
             /\ \/ n = R.upto /\ T.pc = "idle"
                \/ /\ n < R.upto /\ T.pc = "notify" /\ T.told = n
                   /\ T.new = R.new /\ T.old = R.old /\ T.upto = R.upto
<1> USE WatcherConfig DEF WatcherConfig
<1>1. R.upto \in 0..MaxCallbacks /\ R.new \in Nat /\ n \in 0..MaxCallbacks
  BY DEF Run
<1>2. CASE n = R.upto
  BY <1>1, <1>2, IdleTyped DEF Telling
<1>3. CASE n # R.upto
  <2>1. Telling(R, n) = [R EXCEPT !.pc = "notify", !.told = n]
    BY <1>3 DEF Telling
  <2>2. [R EXCEPT !.pc = "notify", !.told = n] \in Run
    BY <1>1 DEF Run
  <2>3. LET T == [R EXCEPT !.pc = "notify", !.told = n]
        IN  /\ T.pc = "notify" /\ T.told = n
            /\ T.new = R.new /\ T.old = R.old /\ T.upto = R.upto
    BY DEF Run
  <2> QED
    BY <1>1, <1>3, <2>1, <2>2, <2>3
<1> QED
  BY <1>2, <1>3

LEMMA InstallKeeps ==
  ASSUME IInv, NEW r \in Reloads, Install(r), overlap' = (overlap \/ Overlapping')
  PROVE  IInv'
<1> USE WatcherConfig DEF WatcherConfig
<1>1. FileTypes /\ FlagTypes /\ RunTypes /\ CallbackTypes
  BY TypesSorted DEF IInv
<1>2. overlap' \in BOOLEAN /\ Remembered' /\ (~overlap' => ~overlap /\ ~Overlapping')
  BY OverlapStep
<1>3. /\ run[r] \in Run /\ run[r].pc = "install"
      /\ run[r].new \in Nat /\ run[r].new <= file
  BY <1>1 DEF RunTypes, Run, Install, IInv, Bounds
<1>4. /\ file' = file /\ kind' = kind /\ events' = events /\ timer' = timer
      /\ watching' = watching /\ stop' = stop /\ config' = run[r].new
      /\ callbacks' = callbacks /\ seen' = seen /\ crashed' = crashed
  BY DEF Install, disk, loop
<1> DEFINE mid == [run[r] EXCEPT !.old = config, !.upto = callbacks]
           own == Telling(mid, 0)
<1>5. mid \in Run /\ mid.new = run[r].new /\ mid.old = config /\ mid.upto = callbacks
  <2>1. config \in 0..MaxChanges /\ callbacks \in 0..MaxCallbacks
    BY <1>1 DEF FileTypes, CallbackTypes
  <2>2. mid \in Run
    BY <1>3, <2>1 DEF Run
  <2>3. mid.new = run[r].new /\ mid.old = config /\ mid.upto = callbacks
    BY <1>3 DEF Run
  <2> QED
    BY <2>2, <2>3
<1>6. run' = [run EXCEPT ![r] = own]
  BY DEF Install
<1> HIDE DEF mid
<1>7. /\ own \in Run /\ own.new <= run[r].new
      /\ \/ callbacks = 0 /\ own.pc = "idle"
         \/ /\ 0 < callbacks /\ own.pc = "notify" /\ own.told = 0
            /\ own.new = run[r].new /\ own.old = config /\ own.upto = callbacks
  <2>1. 0 \in 0..mid.upto
    BY <1>1, <1>5 DEF CallbackTypes
  <2> QED
    BY <1>5, <2>1, TellingTyped
<1> HIDE DEF own
<1>8. /\ run' \in [Reloads -> Run] /\ run'[r] = own
      /\ \A q \in Reloads \ {r} : run'[q] = run[q]
  BY <1>1, <1>6, <1>7 DEF RunTypes
<1>9. RunTypes'
  BY <1>1, <1>7, <1>8 DEF RunTypes
<1>10. FileTypes' /\ CallbackTypes'
  BY <1>1, <1>3, <1>4 DEF FileTypes, CallbackTypes
<1>11. FlagTypes'
  BY <1>1, <1>2, <1>4 DEF FlagTypes
<1>12. Bounds'
  <2>1. own.new <= file /\ callbacks <= callbacks
    BY <1>1, <1>3, <1>7 DEF FileTypes, CallbackTypes, Run
  <2> QED
    BY <1>4, <1>7, <1>8, <2>1 DEF IInv, Bounds
<1>13. ~overlap => /\ \A q \in Reloads \ {r} : run[q].pc # "install" /\ run[q].pc # "notify"
                   /\ config <= run[r].new
  BY <1>3, Alone DEF Between, IInv, Newer
<1>14. Newer'
  BY <1>2, <1>7, <1>8, <1>13 DEF Newer
<1>15. Coming'
  \* A content that is not the file's was not installed before either.
  <2> SUFFICES ASSUME stop = "no", ~crashed, ~overlap, kind = "good", run[r].new # file
               PROVE  \/ events > 0 \/ watching = "handle" \/ timer
                      \/ \E q \in Reloads : run'[q].pc = "load"
    BY <1>2, <1>4 DEF Coming
  <2>1. config # file
    BY <1>1, <1>3, <1>13 DEF FileTypes
  <2>2. \/ events > 0 \/ watching = "handle" \/ timer
        \/ \E q \in Reloads : run[q].pc = "load"
        \/ \E q \in Reloads : run[q].pc = "install" /\ run[q].new = file
    BY <2>1 DEF IInv, Coming
  <2> QED
    BY <1>3, <1>8, <1>13, <2>2
<1>16. Told'
  <2> SUFFICES ASSUME ~overlap PROVE Told'
    BY <1>2 DEF Told
  <2>1. \A i \in 1..callbacks : seen[i] = config
    BY <1>3, <1>13 DEF IInv, Told
  <2>2. CASE callbacks = 0
    BY <1>4, <1>7, <1>8, <1>13, <2>2 DEF Told
  <2>3. CASE callbacks # 0
    BY <1>1, <1>4, <1>7, <1>8, <1>13, <2>1, <2>3 DEF Told, CallbackTypes
  <2> QED
    BY <2>2, <2>3
<1> QED
  BY <1>2, <1>9, <1>10, <1>11, <1>12, <1>14, <1>15, <1>16, Zenon
  DEF IInv, TypeOK, FileTypes, FlagTypes, RunTypes, CallbackTypes

\* The next callback is told; after the last one the reload ends.
LEMMA NotifyKeeps ==
  ASSUME IInv, NEW r \in Reloads, Notify(r), overlap' = (overlap \/ Overlapping')
  PROVE  IInv'
<1> USE WatcherConfig DEF WatcherConfig
<1>1. FileTypes /\ FlagTypes /\ RunTypes /\ CallbackTypes
  BY TypesSorted DEF IInv
<1>2. overlap' \in BOOLEAN /\ Remembered' /\ (~overlap' => ~overlap /\ ~Overlapping')
  BY OverlapStep
<1> DEFINE n == run[r].told + 1
           own == Telling(run[r], n)
<1>3. /\ run[r] \in Run /\ run[r].pc = "notify"
      /\ run[r].new \in Nat /\ run[r].new <= file /\ run[r].new \in 0..MaxChanges
      /\ run[r].upto <= callbacks
  BY <1>1 DEF RunTypes, Run, Notify, IInv, Bounds
<1>4. run[r].told \in Nat /\ run[r].upto \in Nat /\ n \in 0..run[r].upto /\ n \in 1..callbacks
  BY <1>1, <1>3 DEF RunTypes, Run, CallbackTypes
<1>5. /\ file' = file /\ kind' = kind /\ events' = events /\ timer' = timer
      /\ watching' = watching /\ stop' = stop /\ config' = config
      /\ callbacks' = callbacks /\ crashed' = crashed
      /\ seen' = [seen EXCEPT ![n] = run[r].new]
      /\ run' = [run EXCEPT ![r] = own]
  BY DEF Notify, disk, loop
<1>6. /\ own \in Run /\ own.new <= run[r].new
      /\ \/ n = run[r].upto /\ own.pc = "idle"
         \/ /\ n < run[r].upto /\ own.pc = "notify" /\ own.told = n
            /\ own.new = run[r].new /\ own.old = run[r].old /\ own.upto = run[r].upto
  BY <1>3, <1>4, TellingTyped
<1> HIDE DEF own
<1>7. /\ run' \in [Reloads -> Run] /\ run'[r] = own
      /\ \A q \in Reloads \ {r} : run'[q] = run[q]
  BY <1>1, <1>5, <1>6 DEF RunTypes
<1>8. RunTypes'
  BY <1>1, <1>6, <1>7 DEF RunTypes
<1>9. FileTypes'
  BY <1>1, <1>5 DEF FileTypes
<1>10. CallbackTypes'
  BY <1>1, <1>3, <1>5 DEF CallbackTypes
<1>11. FlagTypes'
  BY <1>1, <1>2, <1>5 DEF FlagTypes
<1>12. Bounds'
  <2>1. own.new <= file /\ (own.pc = "notify" => own.upto <= callbacks)
    BY <1>1, <1>3, <1>6 DEF FileTypes, Run
  <2> QED
    BY <1>5, <1>7, <2>1 DEF IInv, Bounds
<1>13. ~overlap => \A q \in Reloads \ {r} : run[q].pc # "install" /\ run[q].pc # "notify"
  BY <1>3, Alone DEF Between
<1>14. Newer'
  BY <1>2, <1>6, <1>7, <1>13 DEF Newer
<1>15. Coming'
  <2>1. \A q \in Reloads : run[q].pc \in {"load", "install"} => run'[q] = run[q]
    BY <1>3, <1>7
  <2>2. ~overlap' => ~overlap
    BY <1>2
  <2> QED
    BY <1>5, <2>1, <2>2 DEF IInv, Coming
<1>16. Told'
  <2> SUFFICES ASSUME ~overlap PROVE Told'
    BY <1>2 DEF Told
  <2>1. /\ run[r].new = config
        /\ \A i \in 1..callbacks :
             seen[i] = IF run[r].told < i /\ i <= run[r].upto THEN run[r].old ELSE config
    BY <1>3 DEF IInv, Told
  <2>2. /\ seen'[n] = config
        /\ \A i \in 1..callbacks : i # n => seen'[i] = seen[i]
    BY <1>1, <1>4, <1>5, <2>1 DEF CallbackTypes
  <2>3. \A i \in 1..callbacks :
          seen'[i] = IF n < i /\ i <= run[r].upto THEN run[r].old ELSE config
    <3>1. \A i \in 1..callbacks : i # n => (n < i <=> run[r].told < i)
      BY <1>1, <1>4 DEF CallbackTypes
    <3>2. ~(n < n)
      BY <1>4
    <3> HIDE DEF n
    <3> QED
      BY <2>1, <2>2, <3>1, <3>2
  <2>4. CASE own.pc = "idle"
    <3>1. \A i \in 1..callbacks : ~(n < i /\ i <= run[r].upto)
      BY <1>1, <1>4, <1>6, <2>4 DEF CallbackTypes
    <3>2. \A q \in Reloads : run'[q].pc # "notify"
      BY <1>7, <1>13, <2>4
    <3> QED
      BY <1>5, <2>3, <3>1, <3>2 DEF Told
  <2>5. CASE own.pc = "notify"
    <3>1. own.told = n /\ own.new = config /\ own.old = run[r].old /\ own.upto = run[r].upto
      BY <1>6, <2>1, <2>5
    <3>2. \A q \in Reloads : run'[q].pc = "notify" => q = r
      BY <1>7, <1>13
    <3> HIDE DEF n
    <3> QED
      BY <1>5, <1>7, <2>3, <2>5, <3>1, <3>2 DEF Told
  <2> QED
    BY <1>6, <2>4, <2>5
<1> QED
  BY <1>2, <1>8, <1>9, <1>10, <1>11, <1>12, <1>14, <1>15, <1>16, Zenon
  DEF IInv, TypeOK, FileTypes, FlagTypes, RunTypes, CallbackTypes

-----------------------------------------------------------------------------
LEMMA InitIInv == Init => IInv
<1> SUFFICES ASSUME Init PROVE IInv
  OBVIOUS
<1> USE WatcherConfig DEF WatcherConfig, Init
<1>1. \A r \in Reloads : run[r] = Idle
  OBVIOUS
<1>2. FileTypes /\ FlagTypes /\ CallbackTypes
  <2>1. FileTypes /\ CallbackTypes
    BY DEF FileTypes, CallbackTypes
  <2>2. FlagTypes
    BY Zenon DEF FlagTypes
  <2> QED
    BY <2>1, <2>2
<1>3. RunTypes
  BY <1>1, IdleTyped DEF RunTypes
<1>4. Bounds /\ Remembered /\ Newer /\ Coming
  BY <1>1, IdleTyped DEF Bounds, Remembered, Overlapping, Between, Newer, Coming
<1>5. Told
  BY <1>1, IdleTyped DEF Told
<1> QED
  BY <1>2, <1>3, <1>4, <1>5, TypesSorted DEF IInv

LEMMA NextIInv == IInv /\ [Next]_vars => IInv'
<1> SUFFICES ASSUME IInv, [Next]_vars PROVE IInv'
  OBVIOUS
<1>1. CASE Next
  <2> USE <1>1 DEF Next, Do
  <2>1. ASSUME NEW k \in {"good", "bad", "nilChain"}, Change(k) PROVE IInv'
    BY <2>1, ChangeKeeps
  <2>2. CASE Vanish
    BY <2>2, VanishKeeps
  <2>3. CASE Receive \/ Arm \/ OnStop \/ StopSignals \/ StopCloses
    BY <2>3, LoopKeeps
  <2>4. CASE OnReload
    BY <2>4, OnReloadKeeps
  <2>5. ASSUME NEW r \in Timers, Fire(r) PROVE IInv'
    <3>1. r \in Reloads /\ Begin(r) /\ timer' \in BOOLEAN
      BY <2>5 DEF Fire, Reloads
    <3> QED
      BY <2>5, <3>1, BeginKeeps DEF Fire
  <2>6. ASSUME NEW r \in Callers, ForceReload(r) PROVE IInv'
    <3>1. r \in Reloads /\ Begin(r) /\ timer' \in BOOLEAN
      BY <2>6 DEF ForceReload, Reloads, loop, IInv, TypeOK
    <3> QED
      BY <2>6, <3>1, BeginKeeps DEF ForceReload, loop
  <2>7. ASSUME NEW r \in Reloads, Reload(r) PROVE IInv'
    BY <2>7, LoadKeeps, InstallKeeps, NotifyKeeps DEF Reload
  <2> QED
    BY <2>1, <2>2, <2>3, <2>4, <2>5, <2>6, <2>7 DEF Step
<1>2. CASE UNCHANGED vars
  BY <1>2, Zenon
  DEF vars, disk, loop, IInv, TypeOK, Bounds, Remembered, Overlapping, Between, Newer,
      Coming, Told
<1> QED
  BY <1>1, <1>2

LEMMA Invariance == Spec => []IInv
  BY InitIInv, NextIInv, PTL DEF Spec

-----------------------------------------------------------------------------
\* Every variable keeps its type, and no reload calls a callback that was not
\* registered when it took the list (reload).
THEOREM TypeCorrect == Spec => []TypeOK
<1>1. IInv => TypeOK
  BY DEF IInv
<1> QED
  BY Invariance, <1>1, PTL

\* The debounce loses no change: when the watcher is at rest and no two
\* reloads overlapped, a valid file is the installed configuration.
THEOREM NoChangeLost == Spec => []UpToDate
<1>1. IInv => UpToDate
  BY DEF IInv, Coming, UpToDate, Quiet, AtRest
<1> QED
  BY Invariance, <1>1, PTL

\* The changes that each callback is given form a chain that ends with the
\* installed configuration, unless two reloads overlapped.
THEOREM CallbacksInformed == Spec => []Informed
<1>1. IInv => Informed
  <2> SUFFICES ASSUME IInv, ~overlap PROVE Informed
    BY DEF Informed
  <2>1. AtRest => \A i \in 1..callbacks : seen[i] = config
    BY DEF AtRest, IInv, Told
  <2>2. ASSUME NEW r \in Reloads, run[r].pc = "notify",
               NEW i \in (run[r].told + 1)..run[r].upto
        PROVE  seen[i] = run[r].old
    <3>1. run[r].told \in Nat /\ run[r].upto \in Nat /\ run[r].upto <= callbacks
          /\ callbacks \in Nat
      BY <2>2, WatcherConfig DEF IInv, TypeOK, Run, Bounds, WatcherConfig
    <3>2. i \in 1..callbacks /\ run[r].told < i /\ i <= run[r].upto
      BY <3>1
    <3> QED
      BY <2>2, <3>2 DEF IInv, Told
  <2> QED
    BY <2>1, <2>2 DEF Informed
<1> QED
  BY Invariance, <1>1, PTL

\* A reload never installs a content older than the installed one, and a file
\* that is no configuration changes nothing, unless two reloads overlapped.
THEOREM NoStepBack == Spec => NeverBack
<1>1. IInv /\ [Next]_vars => [config' >= config \/ overlap]_vars
  <2> SUFFICES ASSUME IInv, Next PROVE config' >= config \/ overlap
    BY DEF vars
  <2>1. config \in Nat
    BY WatcherConfig DEF IInv, TypeOK, WatcherConfig
  <2>2. CASE \E r \in Reloads : Install(r)
    <3>1. PICK r \in Reloads : Install(r)
      BY <2>2
    <3>2. overlap \/ config <= run[r].new
      BY <3>1 DEF Install, IInv, Newer
    <3>3. run[r].new \in Nat
      BY WatcherConfig DEF IInv, TypeOK, Run, WatcherConfig
    <3> QED
      BY <2>1, <3>1, <3>2, <3>3 DEF Install
  <2>3. CASE ~\E r \in Reloads : Install(r)
    <3>1. config' = config
      BY <2>3, Zenon
      DEF Next, Do, Step, Change, Vanish, Receive, Arm, OnStop, StopSignals, StopCloses,
          OnReload, Fire, ForceReload, Reload, Load, Notify
    <3> QED
      BY <2>1, <3>1
  <2> QED
    BY <2>2, <2>3
<1> QED
  BY Invariance, <1>1, PTL DEF Spec, NeverBack

-----------------------------------------------------------------------------
\* What may still start a reload after Stop has returned: the timer that is
\* running, and the event in the hand of the loop.  No further one arrives.
Counted ==
  IF stop = "closed"
  THEN /\ events = 0 /\ late \in 0..2
       /\ timer \/ watching = "handle" => late <= 1
       /\ timer /\ watching = "handle" => late = 0
  ELSE late = 0

\* Only Fire starts the reload of a timer.
LEMMA FiresIsFire ==
  ASSUME IInv, Step, Fires
  PROVE  \E r \in Timers : Fire(r)
<1>1. PICK t \in Timers : run[t].pc = "idle" /\ run'[t].pc = "load"
  BY DEF Fires
<1>2. t \in Reloads /\ t \notin Callers /\ run \in [Reloads -> Run]
  BY WatcherConfig DEF WatcherConfig, Reloads, IInv, TypeOK
<1>3. run' # run
  BY <1>1
<1>4. ASSUME NEW r \in Callers, ForceReload(r) PROVE FALSE
  <2>1. run'[t] = run[t]
    BY <1>2, <1>4 DEF ForceReload, Begin
  <2> QED
    BY <1>1, <2>1
<1>5. ASSUME NEW r \in Reloads, Reload(r) PROVE FALSE
  <2>1. run[r].pc \in {"load", "install", "notify"}
    BY <1>5 DEF Reload, Load, Install, Notify
  <2>2. r # t
    BY <1>1, <2>1
  <2>3. PICK R : run' = [run EXCEPT ![r] = R]
    BY <1>5, Zenon DEF Reload, Load, Install, Notify
  <2>4. run'[t] = run[t]
    BY <1>2, <2>2, <2>3
  <2> QED
    BY <1>1, <2>4
<1> QED
  BY <1>3, <1>4, <1>5
  DEF Step, Change, Vanish, Receive, Arm, OnStop, StopSignals, StopCloses, OnReload

\* Steps after Stop has returned: a reload that begins takes the timer away,
\* and a timer that is new takes the event.
LEMMA ClosedSteps ==
  ASSUME IInv, Step, stop = "closed", events = 0
  PROVE  /\ stop' = "closed" /\ events' = 0
         /\ Fires => timer /\ ~timer' /\ watching' = watching
         /\ ~Fires => \/ timer' = timer /\ watching' = watching
                      \/ watching = "handle" /\ watching' = "select"
                      \/ watching' = "over" /\ (timer' => timer)
<1>0. timer \in BOOLEAN /\ watching \in {"select", "handle", "over"}
  BY DEF IInv, TypeOK
<1>1. CASE Fires
  <2>1. PICK r \in Timers : Fire(r)
    BY <1>1, FiresIsFire
  <2> QED
    BY <1>1, <2>1 DEF Fire
<1>2. CASE ~Fires
  <2>1. ASSUME NEW r \in Timers, Fire(r) PROVE FALSE
    <3>1. r \in Reloads /\ run \in [Reloads -> Run] /\ run[r] \in Run
      BY DEF Reloads, IInv, TypeOK
    <3>2. run[r].pc = "idle" /\ run'[r].pc = "load"
      BY <2>1, <3>1 DEF Fire, Begin, Run
    <3> QED
      BY <1>2, <3>2 DEF Fires
  <2>2. CASE \/ \E k \in {"good", "bad", "nilChain"} : Change(k)
             \/ Vanish \/ OnReload
             \/ \E r \in Callers : ForceReload(r)
             \/ \E r \in Reloads : Reload(r)
    <3>1. UNCHANGED loop /\ stop' = stop /\ events' = events
      BY <2>2 DEF Change, Vanish, OnReload, ForceReload, Reload, Load, Install, Notify
    <3> QED
      BY <1>2, <3>1 DEF loop
  <2>3. CASE Receive \/ Arm \/ OnStop \/ StopSignals \/ StopCloses
    BY <1>0, <1>2, <2>3 DEF Receive, Arm, OnStop, StopSignals, StopCloses, loop
  <2> QED
    BY <2>1, <2>2, <2>3 DEF Step
<1> QED
  BY <1>1, <1>2

LEMMA CountedKept == IInv /\ Counted /\ [Next]_vars => Counted'
<1> SUFFICES ASSUME IInv, Counted, [Next]_vars PROVE Counted'
  OBVIOUS
<1>1. CASE Next /\ stop = "closed"
  <2>1. /\ stop' = "closed" /\ events' = 0
        /\ Fires => timer /\ ~timer' /\ watching' = watching
        /\ ~Fires => \/ timer' = timer /\ watching' = watching
                     \/ watching = "handle" /\ watching' = "select"
                     \/ watching' = "over" /\ (timer' => timer)
    BY <1>1, ClosedSteps DEF Next, Do, Counted
  <2>2. late' = IF Fires THEN late + 1 ELSE late
    BY <1>1 DEF Next, Do
  <2>3. CASE Fires
    BY <1>1, <2>1, <2>2, <2>3 DEF Counted
  <2>4. CASE ~Fires
    BY <1>1, <2>1, <2>2, <2>4 DEF Counted
  <2> QED
    BY <2>3, <2>4
<1>2. CASE Next /\ stop # "closed"
  <2>1. late = 0 /\ late' = 0
    BY <1>2 DEF Next, Do, Counted
  <2>2. stop' = "closed" => events' = 0
    BY <1>2 DEF Next, Do, Step, Change, Vanish, Receive, Arm, OnStop, StopSignals, StopCloses,
                OnReload, Fire, ForceReload, Reload, Load, Install, Notify
  <2> QED
    BY <2>1, <2>2 DEF Counted
<1>3. CASE UNCHANGED vars
  BY <1>3 DEF vars, loop, Counted
<1> QED
  BY <1>1, <1>2, <1>3

\* However many changes precede or follow Stop, at most two reloads of timers
\* begin after it has returned.
THEOREM FewLateReloads == Spec => []LateReloads
<1>1. Init => Counted
  BY DEF Init, Counted
<1>2. Counted => LateReloads
  BY DEF Counted, LateReloads
<1> QED
  BY Invariance, CountedKept, <1>1, <1>2, PTL DEF Spec
=============================================================================
