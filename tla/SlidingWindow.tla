----------------------------- MODULE SlidingWindow -----------------------------
(***************************************************************************)
(* ratelimit.SlidingWindowLimiter.  Time is cut into windows that begin at *)
(* multiples of the window size.  A key counts what it admitted in the     *)
(* current window and in the one before, and estimates what fell into the  *)
(* last windowSize by the share of the previous window that it overlaps.   *)
(* Counts are rotated when the key is used; a key that is not used for ten *)
(* minutes is dropped.  Each method holds the mutex throughout.            *)
(*                                                                         *)
(* A window is WindowSize ticks; phase is how far the current one is.  The *)
(* record keeps how many windows began since currWindow, saturated where   *)
(* neither the rotation nor cleanup can tell any more.  The estimate is    *)
(* compared in whole numbers, multiplied by WindowSize.                    *)
(***************************************************************************)
EXTENDS Naturals

CONSTANTS
  WindowKeys,     (* keys                                    *)
  Batches,        (* numbers of requests a call may ask for  *)
  WindowRate,     (* l.rate: requests per window             *)
  WindowSize,     (* ticks                                   *)
  WindowIdle      (* ticks of cleanup: ten minutes           *)

\* The last conjunct makes dropping a key harmless: both of its windows are
\* over.  NewLimiter asks for windows of a second.
ASSUME WindowConfig ==
  /\ Batches \subseteq Nat \ {0}
  /\ WindowRate \in Nat
  /\ WindowSize \in Nat \ {0, 1}
  /\ WindowIdle \in Nat /\ WindowIdle >= 2 * WindowSize - 1

VARIABLES
  window,       (* l.windows                                               *)
  phase,        (* ticks since the current window began                    *)
  sweeping,     (* the cleanup goroutine runs                              *)
  recent        (* history: what the last 1, 2, .. WindowSize ticks admitted *)

windowVars == <<window, phase, sweeping, recent>>

Far == 2 + WindowIdle \div WindowSize
NoWindow == [present |-> FALSE, prev |-> 0, curr |-> 0, behind |-> 0]

WindowInit ==
  /\ window = [k \in WindowKeys |-> NoWindow]
  /\ phase = 0
  /\ sweeping = TRUE
  /\ recent = [k \in WindowKeys |-> [i \in 1..WindowSize |-> 0]]

-----------------------------------------------------------------------------
\* Mutant: when exactly one window has passed, nothing is moved.
RotatedLate(w) ==
  IF w.behind >= 2 THEN [w EXCEPT !.prev = 0, !.curr = 0, !.behind = 0]
  ELSE [w EXCEPT !.behind = 0]

\* The counts, moved to the current window.
Rotated(w) ==
  CASE w.behind = 0 -> w
    [] w.behind = 1 -> [w EXCEPT !.prev = w.curr, !.curr = 0, !.behind = 0]
    [] w.behind >= 2 -> [w EXCEPT !.prev = 0, !.curr = 0, !.behind = 0]

\* The estimate leaves room for n more.
Fits(w, n) ==
  w.prev * (WindowSize - phase) + (w.curr + n) * WindowSize <= WindowRate * WindowSize

Admit(k, n) == recent' = [recent EXCEPT ![k] = [i \in 1..WindowSize |-> @[i] + n]]

\* Allow and AllowN.
WindowAllow(k, n) ==
  LET w == [Rotated(window[k]) EXCEPT !.present = TRUE]
  IN  /\ IF Fits(w, n)
         THEN window' = [window EXCEPT ![k] = [w EXCEPT !.curr = @ + n]] /\ Admit(k, n)
         ELSE window' = [window EXCEPT ![k] = w] /\ UNCHANGED recent
      /\ UNCHANGED <<phase, sweeping>>

\* Mutant: a key is dropped as soon as its window is over.
WindowExpiredEarly(w) == w.behind > 0

WindowExpired(w) == w.behind * WindowSize + phase > WindowIdle

\* One pass of the cleanup goroutine.
WindowCleanup ==
  /\ sweeping
  /\ window' = [k \in WindowKeys |->
       IF window[k].present /\ WindowExpired(window[k]) THEN NoWindow ELSE window[k]]
  /\ UNCHANGED <<phase, sweeping, recent>>

WindowStop == sweeping /\ sweeping' = FALSE /\ UNCHANGED <<window, phase, recent>>

\* One tick of the clock.
Nearer(n) == IF n < Far THEN n + 1 ELSE n

WindowTick ==
  LET turned == phase + 1 = WindowSize
  IN  /\ phase' = IF turned THEN 0 ELSE phase + 1
      /\ window' = [k \in WindowKeys |->
           IF turned /\ window[k].present
           THEN [window[k] EXCEPT !.behind = Nearer(@)] ELSE window[k]]
      /\ recent' = [k \in WindowKeys |-> [i \in 1..WindowSize |->
           IF i = 1 THEN 0 ELSE recent[k][i - 1]]]
      /\ UNCHANGED sweeping

WindowNext ==
  \/ \E k \in WindowKeys, n \in Batches : WindowAllow(k, n)
  \/ WindowCleanup
  \/ WindowStop
  \/ WindowTick

WindowSpec == WindowInit /\ [][WindowNext]_windowVars

-----------------------------------------------------------------------------
\* Wherever it begins, a stretch of WindowSize ticks never admits as much as
\* twice the rate, and a window that has just ended no more than the rate:
\* the worst case is a full window at the end of which everything was
\* admitted, followed by the share that the estimate forgets.
SlidingBound ==
  \A k \in WindowKeys :
    LET total == recent[k][WindowSize]
    IN  /\ total * WindowSize <= WindowRate * (2 * WindowSize - 2)
        /\ phase = WindowSize - 1 => total <= WindowRate

\* A key that was refused is admitted again as time passes, whatever it
\* asks in the meantime.
NotLockedOut ==
  \A k \in WindowKeys :
    []<>(WindowRate = 0 \/ \E w \in {Rotated(window[k])} : Fits(w, 1))
=============================================================================
