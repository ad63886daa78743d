------------------------------- MODULE Timer -------------------------------
(***************************************************************************)
(* timer.c and the two windows of main that are measured with it: timer T0 *)
(* counts up and raises an interrupt when it overflows, the handler counts *)
(* the overflows, and Timer() adds up the two counts with two loads, in an *)
(* order that is left to the compiler.  An interrupt may come between any  *)
(* two steps.                                                              *)
(*                                                                         *)
(* What main does in a pass of a window is one step: it goes on, or starts *)
(* a program and is gone.  Milliseconds are whole multiples of counts; the *)
(* rounding of the code's single precision product is left out.            *)
(***************************************************************************)
EXTENDS Integers

CONSTANTS
  Period,      \* 65536, the counts of T0 from one overflow to the next
  Scale,       \* 576, the counts of a millisecond
  RescueWait,  \* 2000 milliseconds
  Delays,      \* values of KEY_READ_WAIT_TIME
  Word,        \* 2^64
  Lag,         \* bound: counts between two steps inside timer.c
  MaxTicks     \* bound: counts of one window

ASSUME TimerAssumption ==
  /\ Period \in Nat /\ Scale \in Nat \ {0} /\ RescueWait \in Nat /\ Delays \subseteq Int
  /\ Lag \in Nat /\ Lag < Period
  /\ MaxTicks \in Nat /\ \A d \in Delays \cup {RescueWait} : Scale * (d + 2) + 2 * Period < MaxTicks
  /\ Word \in Nat /\ 2 * MaxTicks + Period < Word /\ \A d \in Delays : -Word < d

VARIABLES
  t0,         \* T0_COUNT, and of T0_MODE: counting and interrupting, and bit 11
  intc,       \* the interrupt: waiting, enabled, and the handlers registered
  isr,        \* TimerInterruptID and TimerInterruptCount
  pc,         \* where the program is
  window,     \* the window that is or was measured last
  delay,      \* GLOBCFG.DELAY
  countFirst, \* whether the compiler loads T0_COUNT first
  reading,    \* the value loaded first, tstart, and the last result in counts
  from,       \* history variable: elapsed when that reading began
  elapsed,    \* history variable: the counts since T0 was started
  lag         \* bounded counter: counts since the program's last step

mainVars == <<window, delay, countFirst>>
vars == <<t0, intc, isr, pc, mainVars, reading, from, elapsed, lag>>

NoReading == [loaded |-> -1, tstart |-> 0, now |-> 0]

Gone == pc \in {"left", "auto"}

-----------------------------------------------------------------------------
(* T0 and the interrupt.  The processor takes a raised interrupt before    *)
(* the program's next step, and before T0 counts on.  Only in a pass of a  *)
(* window, and between the windows, does a step take long.                 *)

Pending == intc.raised /\ intc.enabled
Slow    == pc \in {"pass", "stop"}

Tick ==
  /\ t0.counting /\ ~Pending /\ ~Gone
  /\ elapsed < MaxTicks /\ (Slow \/ lag < Lag)
  /\ LET count == (t0.count + 1) % Period IN
       /\ t0' = [t0 EXCEPT !.count = count, !.OVFF = @ \/ count = 0]
       /\ intc' = [intc EXCEPT !.raised = @ \/ (count = 0 /\ ~t0.OVFF)]
  /\ elapsed' = elapsed + 1 /\ lag' = IF Slow THEN 0 ELSE lag + 1
  /\ UNCHANGED <<isr, pc, mainVars, reading, from>>

(* Mutant: the flag is left set, and raises no interrupt again.            *)
InterruptKeepsFlag ==
  /\ Pending
  /\ intc' = [intc EXCEPT !.raised = FALSE]
  /\ isr' = [isr EXCEPT !.count = @ + intc.handlers]
  /\ UNCHANGED <<t0, pc, mainVars, reading, from, elapsed, lag>>

(* The kernel calls every handler registered, and each one clears the flag.*)
TimerInterrupt ==
  /\ Pending
  /\ intc' = [intc EXCEPT !.raised = FALSE]
  /\ isr' = [isr EXCEPT !.count = @ + intc.handlers]
  /\ t0' = [t0 EXCEPT !.OVFF = @ /\ intc.handlers = 0]
  /\ UNCHANGED <<pc, mainVars, reading, from, elapsed, lag>>

-----------------------------------------------------------------------------
(* TimerInit, TimerEnd and Timer, an access or a call at a time.           *)

Step(here, next) == pc = here /\ pc' = next /\ ~Pending /\ lag' = 0

InitStop ==
  /\ Step("stop", "add") /\ t0' = [t0 EXCEPT !.counting = FALSE]
  /\ UNCHANGED <<intc, isr, mainVars, reading, from, elapsed>>

InitAdd ==
  /\ Step("add", "enable")
  /\ intc' = [intc EXCEPT !.handlers = @ + 1] /\ isr' = [isr EXCEPT !.ID = 0]
  /\ UNCHANGED <<t0, mainVars, reading, from, elapsed>>

InitEnable ==
  /\ Step("enable", "zero") /\ intc' = [intc EXCEPT !.enabled = TRUE]
  /\ UNCHANGED <<t0, isr, mainVars, reading, from, elapsed>>

InitZero ==
  /\ Step("zero", "start") /\ t0' = [t0 EXCEPT !.count = 0]
  /\ UNCHANGED <<intc, isr, mainVars, reading, from, elapsed>>

InitStart ==
  /\ Step("start", "reset") /\ t0' = [t0 EXCEPT !.counting = TRUE]
  /\ reading' = NoReading /\ from' = 0 /\ elapsed' = 0
  /\ UNCHANGED <<intc, isr, mainVars>>

(* Mutant: the overflows are not reset.                                    *)
InitKeepsOverflows ==
  Step("reset", "begin") /\ UNCHANGED <<t0, intc, isr, mainVars, reading, from, elapsed>>

InitReset ==
  /\ Step("reset", "begin") /\ isr' = [isr EXCEPT !.count = 0]
  /\ UNCHANGED <<t0, intc, mainVars, reading, from, elapsed>>

TimerInit == InitStop \/ InitAdd \/ InitEnable \/ InitZero \/ InitStart \/ InitReset

EndStop ==
  /\ Step("halt", "disable") /\ t0' = [t0 EXCEPT !.counting = FALSE]
  /\ UNCHANGED <<intc, isr, mainVars, reading, from, elapsed>>

EndDisable ==
  /\ Step("disable", "remove") /\ intc' = [intc EXCEPT !.enabled = @ /\ isr.ID < 0]
  /\ UNCHANGED <<t0, isr, mainVars, reading, from, elapsed>>

(* Mutant: the handler stays registered.                                   *)
EndKeepsHandler ==
  /\ Step("remove", "clear") /\ isr' = [isr EXCEPT !.ID = -1]
  /\ UNCHANGED <<t0, intc, mainVars, reading, from, elapsed>>

EndRemove ==
  /\ Step("remove", "clear")
  /\ intc' = [intc EXCEPT !.handlers = IF isr.ID >= 0 THEN @ - 1 ELSE @]
  /\ isr' = [isr EXCEPT !.ID = -1]
  /\ UNCHANGED <<t0, mainVars, reading, from, elapsed>>

(* and main goes on to the next window, or to the AUTO entries             *)
EndClear ==
  /\ Step("clear", IF window = "rescue" THEN "stop" ELSE "auto")
  /\ window' = "key"
  /\ isr' = [isr EXCEPT !.count = 0]
  /\ UNCHANGED <<t0, intc, delay, countFirst, reading, from, elapsed>>

TimerEnd == EndStop \/ EndDisable \/ EndRemove \/ EndClear

LoadFirst ==
  /\ pc \in {"begin", "test"} /\ reading.loaded = -1
  /\ Step(pc, pc)
  /\ reading' = [reading EXCEPT !.loaded = IF countFirst THEN t0.count ELSE isr.count]
  /\ from' = elapsed
  /\ UNCHANGED <<t0, intc, isr, mainVars, elapsed>>

(* Mutant: the overflows are added as single counts.                       *)
TotalUnshifted ==
  IF countFirst THEN reading.loaded + isr.count ELSE t0.count + reading.loaded

(* The second load, and the sum in 64 bits.                                *)
Total ==
  IF countFirst THEN reading.loaded + isr.count * Period ELSE t0.count + reading.loaded * Period

Wait  == IF window = "rescue" THEN RescueWait ELSE delay
Limit == (reading.tstart + Wait) % Word

Begin ==
  /\ reading.loaded >= 0 /\ Step("begin", "test")
  /\ reading' = [loaded |-> -1, tstart |-> Total \div Scale, now |-> Total]
  /\ UNCHANGED <<t0, intc, isr, mainVars, from, elapsed>>

Test ==
  /\ reading.loaded >= 0 /\ Step("test", IF Total \div Scale <= Limit THEN "pass" ELSE "halt")
  /\ reading' = [reading EXCEPT !.loaded = -1, !.now = Total]
  /\ UNCHANGED <<t0, intc, isr, mainVars, from, elapsed>>

(* A pass of the window: nothing, or a program that does not return.       *)
Pass ==
  /\ \E next \in {"test", "left"} : Step("pass", next)
  /\ UNCHANGED <<t0, intc, isr, mainVars, reading, from, elapsed>>

-----------------------------------------------------------------------------

(* What ran before may have left T0 counting and its interrupt waiting.    *)
Init ==
  /\ t0 \in [count : {Period - 1}, counting : BOOLEAN, OVFF : {FALSE}]
  /\ intc \in [raised : BOOLEAN, enabled : {FALSE}, handlers : {0}]
  /\ isr = [ID |-> -1, count |-> 0]
  /\ pc = "stop" /\ window = "rescue" /\ delay \in Delays /\ countFirst \in BOOLEAN
  /\ reading = NoReading /\ from = 0 /\ elapsed = 0 /\ lag = 0

Program == TimerInit \/ LoadFirst \/ Begin \/ Test \/ Pass \/ TimerEnd

Stopped == Gone /\ UNCHANGED vars

Next == Tick \/ TimerInterrupt \/ Program \/ Stopped

(* The processor goes on, T0 counts and the interrupt is taken.            *)
Spec == Init /\ [][Next]_vars /\ WF_vars(Program) /\ WF_vars(Tick) /\ WF_vars(TimerInterrupt)

-----------------------------------------------------------------------------

TypeOK ==
  /\ t0 \in [count : 0 .. Period - 1, counting : BOOLEAN, OVFF : BOOLEAN]
  /\ intc \in [raised : BOOLEAN, enabled : BOOLEAN, handlers : 0 .. 1]
  /\ isr \in [ID : {-1, 0}, count : Nat]
  /\ pc \in {"stop", "add", "enable", "zero", "start", "reset", "begin", "test", "pass",
             "halt", "disable", "remove", "clear", "left", "auto"}
  /\ window \in {"rescue", "key"} /\ delay \in Delays /\ countFirst \in BOOLEAN
  /\ reading \in [loaded : Nat \cup {-1}, tstart : Nat, now : Nat]
  /\ from \in 0 .. MaxTicks /\ elapsed \in 0 .. MaxTicks /\ lag \in 0 .. Lag

(***************************************************************************)
(* While a window is measured every overflow of T0 has been counted once,  *)
(* or is about to be: none that came before the window, or in the one      *)
(* before it, is.                                                          *)
(***************************************************************************)
NoOverflowLost ==
  pc \in {"begin", "test", "pass"} =>
    elapsed = t0.count + Period * (isr.count + IF Pending THEN 1 ELSE 0)

(***************************************************************************)
(* Timer() tells the time at some moment of the call, but for one period   *)
(* if T0 overflows between its two loads: too much if T0_COUNT is loaded   *)
(* first, too little otherwise.                                            *)
(***************************************************************************)
ReadingIsClose ==
  pc \in {"pass", "halt"} =>
    IF countFirst THEN from <= reading.now /\ reading.now < elapsed + Period
                  ELSE from < reading.now + Period /\ reading.now <= elapsed

(***************************************************************************)
(* A window that ends by itself was open for the time it is to be, or up   *)
(* to one period less.                                                     *)
(***************************************************************************)
WindowIsWhole ==
  pc = "halt" /\ Wait >= 0 => elapsed + (IF countFirst THEN Period ELSE 0) > Wait * Scale

(***************************************************************************)
(* A negative wait is added to an unsigned count: the sum wraps unless so  *)
(* much time has passed already, and that window does not end.             *)
(***************************************************************************)
Endless == window = "key" /\ reading.tstart + delay < 0

(***************************************************************************)
(* Any other window is as long as it should be.  It is whole, and it is    *)
(* closed in time: the reading after which it stays open was begun no      *)
(* later than a millisecond, a period and what TimerInit took behind its   *)
(* end.                                                                    *)
(***************************************************************************)
WindowIsShort ==
  pc = "pass" /\ ~Endless => from < (Wait + 1) * Scale + Period + 3 * Lag

WindowIsTimely == WindowIsWhole /\ WindowIsShort

(***************************************************************************)
(* The windows end, or the user starts a program, but for the window that  *)
(* is endless: then the AUTO entries are never reached.                    *)
(***************************************************************************)
WindowsEnd == <>[](Gone \/ Endless)

=============================================================================
