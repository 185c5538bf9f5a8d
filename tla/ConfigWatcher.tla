----------------------------- MODULE ConfigWatcher -----------------------------
(***************************************************************************)
(* config.Watcher: a goroutine turns the events of the config file into a  *)
(* debounced reload, which the timer runs on a goroutine of its own;       *)
(* ForceReload does the same on its caller's.  A reload loads the file     *)
(* without the lock, installs the result under the lock, and calls the     *)
(* registered callbacks without it.                                        *)
(*                                                                         *)
(* Contents are numbered in the order in which they are written.  What     *)
(* matters of them is what Load makes of them: a configuration, an error   *)
(* (not readable, not YAML), or a panic (a chain without settings is a nil *)
(* pointer whose fields are given defaults).  Nothing recovers the panic   *)
(* of a timer's goroutine.                                                 *)
(*                                                                         *)
(* External: the file, and fsnotify, which reports every change to it in   *)
(* order.  Events of other files, of other kinds and errors change nothing.*)
(***************************************************************************)
EXTENDS Naturals

CONSTANTS
  Timers, Callers,   (* reloads that may run at once: by timers, by callers *)
  MaxChanges,        (* bound on the changes to the file                    *)
  MaxCallbacks       (* bound on the callbacks that are registered          *)

ASSUME WatcherConfig ==
  Timers \cap Callers = {} /\ MaxChanges \in Nat /\ MaxCallbacks \in Nat

VARIABLES
  file, kind,   (* the file: its content and what Load makes of it         *)
  events,       (* changes that the watch loop has not been told of        *)
  timer,        (* debounceTimer is running                                *)
  watching,     (* the watch loop: waits in select, handles an event, over *)
  stop,         (* how far Stop is: stopCh first, then the fsnotify watcher *)
  config,       (* w.config                                                *)
  callbacks,    (* how many are registered                                 *)
  run,          (* the reloads that are under way                          *)
  crashed,
  seen,         (* history: the configuration each callback was last given *)
  overlap,      (* history: two reloads were between their load and their end *)
  late          (* history: timers that have run down since Stop returned  *)

disk == <<file, kind>>
loop == <<timer, watching>>
vars == <<disk, events, loop, stop, config, callbacks, run, crashed, seen, overlap, late>>

Reloads == Timers \cup Callers
Idle == [pc |-> "idle", new |-> 0, old |-> 0, told |-> 0, upto |-> 0]

Init ==
  /\ file = 0 /\ kind = "good"
  /\ events = 0
  /\ timer = FALSE /\ watching = "select"
  /\ stop = "no"
  /\ config = 0
  /\ callbacks = 0
  /\ run = [r \in Reloads |-> Idle]
  /\ crashed = FALSE
  /\ seen = [i \in 1..MaxCallbacks |-> 0]
  /\ overlap = FALSE
  /\ late = 0

-----------------------------------------------------------------------------
\* External: the file is written or replaced, or it is removed, which is an
\* event that the loop ignores.
Change(k) ==
  /\ file < MaxChanges
  /\ file' = file + 1 /\ kind' = k
  /\ events' = IF stop = "closed" THEN events ELSE events + 1
  /\ UNCHANGED <<loop, stop, config, callbacks, run, crashed, seen>>

Vanish ==
  /\ file < MaxChanges
  /\ file' = file + 1 /\ kind' = "bad"
  /\ UNCHANGED <<events, loop, stop, config, callbacks, run, crashed, seen>>

-----------------------------------------------------------------------------
\* The loop takes an event of the file out of the channel.
Receive ==
  /\ watching = "select" /\ events > 0
  /\ events' = events - 1
  /\ watching' = "handle"
  /\ UNCHANGED <<disk, timer, stop, config, callbacks, run, crashed, seen>>

\* Mutant: an event is skipped while a reload is running.
ArmUnlessBusy ==
  /\ watching = "handle" /\ watching' = "select"
  /\ timer' = (timer \/ \A r \in Reloads : run[r].pc = "idle")
  /\ UNCHANGED <<disk, events, stop, config, callbacks, run, crashed, seen>>

\* Mutant: the second event of a burst stops the timer for good.
ArmStopsTimer ==
  /\ watching = "handle" /\ watching' = "select"
  /\ timer' = ~timer
  /\ UNCHANGED <<disk, events, stop, config, callbacks, run, crashed, seen>>

\* A timer that is running is stopped, a new one runs.
Arm ==
  /\ watching = "handle" /\ watching' = "select"
  /\ timer' = TRUE
  /\ UNCHANGED <<disk, events, stop, config, callbacks, run, crashed, seen>>

\* The loop sees stopCh, and stops the timer, or it sees that one of the
\* channels of fsnotify is closed, and does not.
OnStop ==
  /\ watching = "select" /\ stop # "no"
  /\ watching' = "over"
  /\ timer' = FALSE \/ (stop = "closed" /\ timer' = timer)
  /\ UNCHANGED <<disk, events, stop, config, callbacks, run, crashed, seen>>

\* Stop closes stopCh, then the watcher, and what it had to report is lost.
\* It does not wait for the loop.
StopSignals ==
  /\ stop = "no" /\ stop' = "signalled"
  /\ UNCHANGED <<disk, events, loop, config, callbacks, run, crashed, seen>>

\* Mutant: the fsnotify watcher is left open.
StopLeavesOpen ==
  /\ stop = "signalled" /\ stop' = "closed"
  /\ UNCHANGED <<disk, events, loop, config, callbacks, run, crashed, seen>>

StopCloses ==
  /\ stop = "signalled" /\ stop' = "closed"
  /\ events' = 0
  /\ UNCHANGED <<disk, loop, config, callbacks, run, crashed, seen>>

OnReload ==
  /\ callbacks < MaxCallbacks
  /\ callbacks' = callbacks + 1
  /\ seen' = [seen EXCEPT ![callbacks'] = config]
  /\ UNCHANGED <<disk, events, loop, stop, config, run, crashed>>

-----------------------------------------------------------------------------
Begin(r) ==
  /\ run[r].pc = "idle"
  /\ run' = [run EXCEPT ![r].pc = "load"]

\* The timer has run down.
Fire(r) ==
  /\ timer /\ Begin(r)
  /\ timer' = FALSE
  /\ UNCHANGED <<disk, events, watching, stop, config, callbacks, crashed, seen>>

ForceReload(r) ==
  /\ Begin(r)
  /\ UNCHANGED <<disk, events, loop, stop, config, callbacks, crashed, seen>>

\* config.Load: the file can be read and decoded, and defaults filled in.
Decodes == kind = "good"
DefaultsPanic == kind = "nilChain"

\* Mutant: a file that is no configuration resets everything.
LoadResets(r) ==
  /\ run[r].pc = "load"
  /\ run' = [run EXCEPT ![r].pc = "install", ![r].new = IF Decodes THEN file ELSE 0]
  /\ crashed' = DefaultsPanic
  /\ UNCHANGED <<disk, events, loop, stop, config, callbacks, seen>>

\* An error ends the reload, a panic everything.
Load(r) ==
  /\ run[r].pc = "load"
  /\ run' = [run EXCEPT ![r] =
       IF Decodes THEN [@ EXCEPT !.pc = "install", !.new = file] ELSE Idle]
  /\ crashed' = DefaultsPanic
  /\ UNCHANGED <<disk, events, loop, stop, config, callbacks, seen>>

\* Mutant: one callback too many.
TellingOneMore(R, n) == IF n > R.upto THEN Idle ELSE [R EXCEPT !.pc = "notify", !.told = n]

\* What becomes of a reload that has told n of its callbacks.
Telling(R, n) == IF n = R.upto THEN Idle ELSE [R EXCEPT !.pc = "notify", !.told = n]

Install(r) ==
  /\ run[r].pc = "install"
  /\ config' = run[r].new
  /\ run' = [run EXCEPT ![r] = Telling([@ EXCEPT !.old = config, !.upto = callbacks], 0)]
  /\ UNCHANGED <<disk, events, loop, stop, callbacks, crashed, seen>>

\* Mutant: the first callback that fails is the last one.
NotifyUntilError(r) ==
  /\ run[r].pc = "notify"
  /\ LET n == run[r].told + 1
     IN  /\ seen' = [seen EXCEPT ![n] = run[r].new]
         /\ \E failed \in BOOLEAN :
              run' = [run EXCEPT ![r] = IF failed THEN Idle ELSE Telling(@, n)]
  /\ UNCHANGED <<disk, events, loop, stop, config, callbacks, crashed>>

\* The next callback is given the old and the new configuration.
Notify(r) ==
  /\ run[r].pc = "notify"
  /\ LET n == run[r].told + 1
     IN  /\ seen' = [seen EXCEPT ![n] = run[r].new]
         /\ run' = [run EXCEPT ![r] = Telling(@, n)]
  /\ UNCHANGED <<disk, events, loop, stop, config, callbacks, crashed>>

Reload(r) == Load(r) \/ Install(r) \/ Notify(r)

Step ==
  \/ \E k \in {"good", "bad", "nilChain"} : Change(k)
  \/ Vanish
  \/ Receive \/ Arm \/ OnStop \/ StopSignals \/ StopCloses \/ OnReload
  \/ \E r \in Timers : Fire(r)
  \/ \E r \in Callers : ForceReload(r)
  \/ \E r \in Reloads : Reload(r)

Between(r) == run[r].pc \in {"install", "notify"}
Overlapping == \E q, r \in Reloads : q # r /\ Between(q) /\ Between(r)

Fires == \E r \in Timers : run[r].pc = "idle" /\ run'[r].pc = "load"

Do(A) ==
  /\ ~crashed /\ A
  /\ overlap' = (overlap \/ Overlapping')
  /\ late' = IF stop = "closed" /\ Fires THEN late + 1 ELSE late

Next == Do(Step)

Spec == Init /\ [][Next]_vars

\* The loop is scheduled, the timer runs down, reloads go on, and Stop, once
\* called, returns.  Nobody has to change the file or to call anything.
FairSpec ==
  /\ Spec
  /\ WF_vars(Do(Receive \/ Arm \/ OnStop))
  /\ WF_vars(Do(\E r \in Timers : Fire(r)))
  /\ WF_vars(Do(StopCloses))
  /\ \A r \in Reloads : WF_vars(Do(Reload(r)))

-----------------------------------------------------------------------------
Run ==
  [pc : {"idle", "load", "install", "notify"},
   new : 0..MaxChanges, old : 0..MaxChanges,
   told : 0..MaxCallbacks, upto : 0..MaxCallbacks]

\* Every variable has its type (late is for LateReloads to say).
TypeOK ==
  /\ file \in 0..MaxChanges /\ kind \in {"good", "bad", "nilChain"}
  /\ events \in 0..MaxChanges
  /\ timer \in BOOLEAN /\ watching \in {"select", "handle", "over"}
  /\ stop \in {"no", "signalled", "closed"}
  /\ config \in 0..file
  /\ callbacks \in 0..MaxCallbacks
  /\ run \in [Reloads -> Run]
  /\ \A r \in Reloads : run[r].pc = "notify" => run[r].told < run[r].upto
  /\ crashed \in BOOLEAN /\ overlap \in BOOLEAN
  /\ seen \in [1..MaxCallbacks -> 0..MaxChanges]

AtRest == \A r \in Reloads : run[r].pc = "idle"
Quiet == events = 0 /\ watching # "handle" /\ ~timer /\ AtRest

\* However changes, events, timers and forced reloads are interleaved, once
\* all is quiet the installed configuration is the one in the file, if that
\* is one and no two reloads overlapped: the debounce loses no change.
UpToDate ==
  Quiet /\ kind = "good" /\ stop = "no" /\ ~overlap /\ ~crashed => config = file

\* The changes that a callback is given form a chain (the old configuration
\* of each is the new one of the last) that ends with the installed one,
\* also for callbacks registered while others were being called.
Informed ==
  ~overlap =>
    /\ AtRest => \A i \in 1..callbacks : seen[i] = config
    /\ \A r \in Reloads : run[r].pc = "notify" =>
         \A i \in (run[r].told + 1)..run[r].upto : seen[i] = run[r].old

\* The configuration never goes back to an older content, or to none when
\* the file is bad.
NeverBack == [][config' >= config \/ overlap]_vars

\* A valid content is installed some time, unless it is replaced first.
Applied ==
  \A v \in 1..MaxChanges :
    (file = v /\ kind = "good") ~>
      (config = v \/ file # v \/ kind # "good" \/ stop # "no" \/ overlap \/ crashed)

\* Stop waits for nobody, so reloads may begin after it has returned, but at
\* most two, however often the file changed before and changes then: that of
\* the timer that was running, and that of the event the loop had in hand.
LateReloads == late \in 0..2
=============================================================================
