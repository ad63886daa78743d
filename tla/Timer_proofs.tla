---------------------------- MODULE Timer_proofs ----------------------------
(***************************************************************************)
(* For a period, a scale, waits and bounds of any size that satisfy the    *)
(* assumption of Timer: T0's interrupt counts every overflow of a window   *)
(* once, a reading is off by less than a period, and a window is no more   *)
(* than that too short.                                                    *)
(***************************************************************************)
EXTENDS Timer, TLAPS

-----------------------------------------------------------------------------
(* The invariant: the parts that only follow the program's steps, then     *)
(* what they mean for the counts.                                          *)

(* The handler is registered and the interrupt enabled in the same order.  *)
Handled ==
  /\ intc.handlers = IF pc \in {"stop", "add", "clear", "auto"} THEN 0 ELSE 1
  /\ isr.ID = IF pc \in {"stop", "add", "clear", "auto"} THEN -1 ELSE 0
  /\ intc.enabled <=> pc \in {"zero", "start", "reset", "begin", "test", "pass", "halt",
                              "disable", "left"}

(* T0 counts in a window, and from zero with no interrupt left over.       *)
Counting ==
  /\ pc \in {"reset", "begin", "test", "pass", "halt", "left"} => t0.counting
  /\ pc \in {"add", "enable", "zero", "start", "disable", "remove", "clear", "auto"} =>
       ~ t0.counting
  /\ t0.OVFF => intc.raised
  /\ pc = "start" => t0.count = 0 /\ ~ intc.raised
  /\ pc = "reset" => elapsed = t0.count /\ elapsed = lag /\ ~ intc.raised

(* A load is only under way in Timer(), and tells something of the time at *)
(* which it began.                                                         *)
Loaded ==
  /\ pc \notin {"begin", "test"} => reading.loaded = -1
  /\ from <= elapsed /\ reading.tstart <= MaxTicks + Period
  /\ reading.loaded >= 0 =>
       IF countFirst THEN reading.loaded < Period /\ from <= reading.loaded + isr.count * Period
                     ELSE reading.loaded <= isr.count /\ from < (reading.loaded + 1) * Period

(* The reading that ended a window is past its end.                        *)
LateEnough == pc = "halt" /\ Wait >= 0 => reading.now > Wait * Scale

IInv == /\ TypeOK /\ Handled /\ Counting /\ NoOverflowLost /\ Loaded
        /\ ReadingIsClose /\ LateEnough

-----------------------------------------------------------------------------
(* Arithmetic.                                                             *)

(* Multiples of a number grow with the factor.                             *)
LEMMA Multiples ==
  ASSUME NEW a \in Nat, NEW b \in Nat, NEW p \in Nat, a <= b
  PROVE  /\ a * p \in Nat /\ b * p \in Nat /\ a * p <= b * p
         /\ (a + 1) * p = a * p + p
<1>1. a * p \in Nat /\ b * p \in Nat /\ (a + 1) * p = a * p + p
  OBVIOUS
<1>2. (b - a) \in Nat /\ (b - a) * p \in Nat /\ b * p = a * p + (b - a) * p
  OBVIOUS
<1> QED BY <1>1, <1>2

(* A number whose quotient is above w is above w times the divisor.        *)
LEMMA Quotient ==
  ASSUME NEW x \in Nat, NEW s \in Nat \ {0}
  PROVE  /\ x \div s \in Nat /\ x \div s <= x
         /\ \A w \in Nat : x \div s > w => x > w * s
<1>1. x \div s \in Nat /\ x % s \in 0 .. s - 1 /\ x = s * (x \div s) + (x % s)
  OBVIOUS
<1> DEFINE q == x \div s
<1> HIDE DEF q
<1>2. q \in Nat /\ x >= q * s
  BY <1>1 DEF q
<1>3. q <= q * s
  <2>1. 1 * q <= s * q
    BY <1>2, Multiples
  <2> QED BY <2>1, <1>2
<1>4. ASSUME NEW w \in Nat, q > w PROVE x > w * s
  <2>1. (w + 1) * s <= q * s /\ (w + 1) * s = w * s + s
    BY <1>2, <1>4, Multiples
  <2>2. w * s \in Nat /\ q * s \in Nat
    BY <1>2, Multiples
  <2> QED BY <2>1, <2>2, <1>2
<1> QED BY <1>2, <1>3, <1>4 DEF q

(* A quotient is the number but for less than the divisor.                 *)
LEMMA Rounding ==
  ASSUME NEW x \in Nat, NEW s \in Nat \ {0}
  PROVE  (x \div s) * s <= x /\ x < (x \div s + 1) * s
<1>1. x \div s \in Nat /\ x % s \in 0 .. s - 1 /\ x = s * (x \div s) + (x % s)
  OBVIOUS
<1> DEFINE q == x \div s
<1> HIDE DEF q
<1>2. q \in Nat /\ q * s <= x /\ x < q * s + s
  BY <1>1 DEF q
<1>3. (q + 1) * s = q * s + s
  BY <1>2, Multiples
<1> QED BY <1>2, <1>3 DEF q

-----------------------------------------------------------------------------

(* The sum of the two loads.                                               *)
LEMMA TotalIsNat ==
  ASSUME TypeOK, reading.loaded >= 0
  PROVE  Total \in Nat
<1>1. isr.count * Period \in Nat /\ reading.loaded \in Nat /\ reading.loaded * Period \in Nat
  BY TimerAssumption, Multiples DEF TypeOK
<1> QED BY <1>1 DEF Total, TypeOK

-----------------------------------------------------------------------------
(* The steps.                                                              *)

(* The initial states satisfy the invariant.                               *)
LEMMA InitInv == Init => IInv
<1> SUFFICES ASSUME Init PROVE IInv
  OBVIOUS
<1>1. TypeOK
  <2>1. t0 \in [count : 0 .. Period - 1, counting : BOOLEAN, OVFF : BOOLEAN]
    <3>1. Period - 1 \in 0 .. Period - 1
      BY TimerAssumption
    <3>2. t0 \in [count : {Period - 1}, counting : BOOLEAN, OVFF : {FALSE}]
      BY DEF Init
    <3>3. {Period - 1} \subseteq 0 .. Period - 1 /\ {FALSE} \subseteq BOOLEAN
      BY <3>1
    <3> QED BY <3>2, <3>3
  <2>2. intc \in [raised : BOOLEAN, enabled : BOOLEAN, handlers : 0 .. 1]
    <3>1. intc \in [raised : BOOLEAN, enabled : {FALSE}, handlers : {0}]
      BY DEF Init
    <3>2. {0} \subseteq 0 .. 1 /\ {FALSE} \subseteq BOOLEAN
      OBVIOUS
    <3> QED BY <3>1, <3>2, Zenon
  <2>3. isr \in [ID : {-1, 0}, count : Nat]
    BY DEF Init
  <2>4. reading \in [loaded : Nat \cup {-1}, tstart : Nat, now : Nat]
    BY DEF Init, NoReading
  <2>5. from \in 0 .. MaxTicks /\ elapsed \in 0 .. MaxTicks /\ lag \in 0 .. Lag
    BY TimerAssumption DEF Init
  <2> QED BY <2>1, <2>2, <2>3, <2>4, <2>5 DEF Init, TypeOK
<1>2. Handled /\ Counting
  BY DEF Init, Handled, Counting
<1>3. Loaded /\ LateEnough
  BY TimerAssumption DEF Init, Loaded, LateEnough, NoReading
<1>4. NoOverflowLost /\ ReadingIsClose
  BY DEF Init, NoOverflowLost, ReadingIsClose
<1> QED BY <1>1, <1>2, <1>3, <1>4 DEF IInv

(* A count of T0 is a tick of the window, and in one of them an overflow.  *)
LEMMA TickInv == IInv /\ Tick => IInv'
<1> SUFFICES ASSUME IInv, Tick PROVE IInv'
  OBVIOUS
<1> USE TimerAssumption DEF IInv
<1> DEFINE c == (t0.count + 1) % Period
<1>1. /\ c \in 0 .. Period - 1
      /\ c = IF t0.count + 1 = Period THEN 0 ELSE t0.count + 1
  BY DEF TypeOK
<1>2. /\ t0' = [t0 EXCEPT !.count = c, !.OVFF = @ \/ c = 0]
      /\ intc' = [intc EXCEPT !.raised = @ \/ (c = 0 /\ ~ t0.OVFF)]
      /\ elapsed' = elapsed + 1 /\ elapsed < MaxTicks
      /\ lag' = IF Slow THEN 0 ELSE lag + 1
      /\ Slow \/ lag < Lag
      /\ t0.counting /\ ~ Pending /\ ~ Gone
      /\ UNCHANGED <<isr, pc, mainVars, reading, from>>
  BY DEF Tick
<1> HIDE DEF c
<1>3. TypeOK'
  <2>1. t0' \in [count : 0 .. Period - 1, counting : BOOLEAN, OVFF : BOOLEAN]
    <3>1. (t0.OVFF \/ c = 0) \in BOOLEAN
      OBVIOUS
    <3> QED BY <3>1, <1>1, <1>2, Zenon DEF TypeOK
  <2>2. intc' \in [raised : BOOLEAN, enabled : BOOLEAN, handlers : 0 .. 1]
    <3>1. (intc.raised \/ (c = 0 /\ ~ t0.OVFF)) \in BOOLEAN
      OBVIOUS
    <3> QED BY <3>1, <1>1, <1>2, Zenon DEF TypeOK
  <2>3. elapsed' \in 0 .. MaxTicks /\ from' \in 0 .. MaxTicks /\ lag' \in 0 .. Lag
    BY <1>2 DEF TypeOK
  <2> QED BY <2>1, <2>2, <2>3, <1>2 DEF TypeOK, mainVars
<1>4. Handled'
  BY <1>2 DEF Handled, TypeOK
<1>5. Counting'
  BY <1>1, <1>2 DEF Counting, Handled, Pending, Slow, TypeOK
<1>6. NoOverflowLost'
  <2> SUFFICES ASSUME pc \in {"begin", "test", "pass"}
               PROVE  elapsed' = t0'.count + Period * (isr'.count + IF Pending' THEN 1 ELSE 0)
    BY <1>2 DEF NoOverflowLost
  <2>1. ~ intc.raised /\ ~ t0.OVFF /\ intc.enabled
    BY <1>2 DEF Handled, Counting, Pending
  <2>2. elapsed = t0.count + Period * isr.count
    BY <1>2 DEF NoOverflowLost, TypeOK
  <2>3. t0'.count = c /\ isr' = isr /\ (Pending' <=> c = 0)
    BY <1>2, <2>1 DEF Pending, TypeOK
  <2>4. isr.count \in Nat /\ Period * (isr.count + 1) = Period * isr.count + Period
    BY DEF TypeOK
  <2>5. CASE c = 0
    BY <1>1, <1>2, <2>2, <2>3, <2>4, <2>5 DEF TypeOK
  <2>6. CASE c # 0
    <3>1. c = t0.count + 1 /\ isr.count + 0 = isr.count
      BY <1>1, <2>6, <2>4
    <3> QED BY <1>2, <2>2, <2>3, <2>4, <2>6, <3>1 DEF TypeOK
  <2> QED BY <2>5, <2>6
<1>7. Loaded'
  BY <1>2 DEF Loaded, mainVars, TypeOK
<1>8. ReadingIsClose'
  BY <1>2 DEF ReadingIsClose, mainVars, TypeOK
<1>9. LateEnough'
  BY <1>2 DEF LateEnough, mainVars, Wait
<1> QED BY <1>3, <1>4, <1>5, <1>6, <1>7, <1>8, <1>9

(* The interrupt turns an overflow that is waiting into one that counts.   *)
LEMMA InterruptInv == IInv /\ TimerInterrupt => IInv'
<1> SUFFICES ASSUME IInv, TimerInterrupt PROVE IInv'
  OBVIOUS
<1> USE TimerAssumption DEF IInv
<1>1. /\ intc.raised /\ intc.enabled /\ intc.handlers = 1
      /\ intc' = [intc EXCEPT !.raised = FALSE]
      /\ isr' = [isr EXCEPT !.count = @ + 1]
      /\ t0' = [t0 EXCEPT !.OVFF = FALSE]
      /\ UNCHANGED <<pc, mainVars, reading, from, elapsed, lag>>
  <2>1. intc.enabled /\ intc.handlers = 1
    BY DEF TimerInterrupt, Pending, Handled
  <2>2. (t0.OVFF /\ intc.handlers = 0) = FALSE
    BY <2>1
  <2> QED BY <2>1, <2>2, Zenon DEF TimerInterrupt, Pending
<1>2. TypeOK'
  <2>1. t0' \in [count : 0 .. Period - 1, counting : BOOLEAN, OVFF : BOOLEAN]
    BY <1>1, Zenon DEF TypeOK
  <2>2. intc' \in [raised : BOOLEAN, enabled : BOOLEAN, handlers : 0 .. 1]
    BY <1>1, Zenon DEF TypeOK
  <2> QED BY <2>1, <2>2, <1>1 DEF TypeOK, mainVars
<1>3. Handled' /\ Counting'
  BY <1>1 DEF Handled, Counting, TypeOK
<1>4. NoOverflowLost'
  BY <1>1 DEF NoOverflowLost, Pending, TypeOK
<1>5. Loaded'
  <2>1. isr'.count = isr.count + 1 /\ isr.count \in Nat
    BY <1>1 DEF TypeOK
  <2>2. isr'.count * Period = isr.count * Period + Period
    BY <2>1, Multiples
  <2>3. isr.count * Period \in Nat
    BY <2>1, Multiples
  <2> QED BY <1>1, <2>1, <2>2, <2>3 DEF Loaded, mainVars, TypeOK
<1>6. ReadingIsClose' /\ LateEnough'
  BY <1>1 DEF ReadingIsClose, LateEnough, Wait, mainVars
<1> QED BY <1>2, <1>3, <1>4, <1>5, <1>6

(* Between the windows nothing is loaded and no count is claimed.          *)
LEMMA SetUpInv == IInv /\ (TimerInit \/ TimerEnd \/ Pass) => IInv'
<1> SUFFICES ASSUME IInv, TimerInit \/ TimerEnd \/ Pass PROVE IInv'
  OBVIOUS
<1> USE TimerAssumption DEF IInv, Step
<1>1. CASE InitStop
  <2>1. TypeOK'
    <3>1. t0' \in [count : 0 .. Period - 1, counting : BOOLEAN, OVFF : BOOLEAN]
      BY <1>1, Zenon DEF InitStop, TypeOK
    <3> QED BY <3>1, <1>1 DEF InitStop, TypeOK, mainVars
  <2>2. Handled' /\ Counting'
    BY <1>1 DEF InitStop, Handled, Counting, TypeOK
  <2>3. NoOverflowLost' /\ Loaded' /\ ReadingIsClose' /\ LateEnough'
    BY <1>1 DEF InitStop, NoOverflowLost, Loaded, ReadingIsClose, LateEnough, mainVars
  <2> QED BY <2>1, <2>2, <2>3
<1>2. CASE InitAdd
  <2>1. TypeOK'
    BY <1>2 DEF InitAdd, TypeOK, mainVars, Handled
  <2>2. Handled' /\ Counting'
    BY <1>2 DEF InitAdd, Handled, Counting, TypeOK
  <2>3. NoOverflowLost' /\ Loaded' /\ ReadingIsClose' /\ LateEnough'
    BY <1>2 DEF InitAdd, NoOverflowLost, Loaded, ReadingIsClose, LateEnough, mainVars
  <2> QED BY <2>1, <2>2, <2>3
<1>3. CASE InitEnable
  <2>1. TypeOK'
    <3>1. intc' \in [raised : BOOLEAN, enabled : BOOLEAN, handlers : 0 .. 1]
      BY <1>3, Zenon DEF InitEnable, TypeOK
    <3> QED BY <3>1, <1>3 DEF InitEnable, TypeOK, mainVars
  <2>2. Handled' /\ Counting'
    BY <1>3 DEF InitEnable, Handled, Counting, TypeOK
  <2>3. NoOverflowLost' /\ Loaded' /\ ReadingIsClose' /\ LateEnough'
    BY <1>3 DEF InitEnable, NoOverflowLost, Loaded, ReadingIsClose, LateEnough, mainVars
  <2> QED BY <2>1, <2>2, <2>3
<1>4. CASE InitZero
  <2>1. TypeOK'
    BY <1>4 DEF InitZero, TypeOK, mainVars
  <2>2. Handled' /\ Counting'
    BY <1>4 DEF InitZero, Handled, Counting, Pending, TypeOK
  <2>3. NoOverflowLost' /\ Loaded' /\ ReadingIsClose' /\ LateEnough'
    BY <1>4 DEF InitZero, NoOverflowLost, Loaded, ReadingIsClose, LateEnough, mainVars
  <2> QED BY <2>1, <2>2, <2>3
<1>5. CASE InitStart
  <2>1. TypeOK'
    <3>1. t0' \in [count : 0 .. Period - 1, counting : BOOLEAN, OVFF : BOOLEAN]
      BY <1>5, Zenon DEF InitStart, TypeOK
    <3> QED BY <3>1, <1>5 DEF InitStart, TypeOK, mainVars, NoReading
  <2>2. Handled' /\ Counting'
    BY <1>5 DEF InitStart, Handled, Counting, TypeOK
  <2>3. NoOverflowLost' /\ Loaded' /\ ReadingIsClose' /\ LateEnough'
    BY <1>5 DEF InitStart, NoOverflowLost, Loaded, ReadingIsClose, LateEnough, mainVars,
                NoReading
  <2> QED BY <2>1, <2>2, <2>3
<1>6. CASE InitReset
  <2>1. TypeOK'
    BY <1>6 DEF InitReset, TypeOK, mainVars
  <2>2. Handled' /\ Counting'
    BY <1>6 DEF InitReset, Handled, Counting, TypeOK
  <2>3. NoOverflowLost'
    BY <1>6 DEF InitReset, Counting, NoOverflowLost, Pending, TypeOK
  <2>4. Loaded' /\ ReadingIsClose' /\ LateEnough'
    BY <1>6 DEF InitReset, Loaded, ReadingIsClose, LateEnough, mainVars
  <2> QED BY <2>1, <2>2, <2>3, <2>4
<1>7. CASE Pass
  <2>1. TypeOK'
    BY <1>7 DEF Pass, TypeOK, mainVars
  <2>2. Handled' /\ Counting'
    BY <1>7 DEF Pass, Handled, Counting
  <2>3. NoOverflowLost' /\ Loaded' /\ ReadingIsClose' /\ LateEnough'
    BY <1>7 DEF Pass, NoOverflowLost, Loaded, ReadingIsClose, LateEnough, mainVars, Pending
  <2> QED BY <2>1, <2>2, <2>3
<1>8. CASE EndStop
  <2>1. TypeOK'
    <3>1. t0' \in [count : 0 .. Period - 1, counting : BOOLEAN, OVFF : BOOLEAN]
      BY <1>8, Zenon DEF EndStop, TypeOK
    <3> QED BY <3>1, <1>8 DEF EndStop, TypeOK, mainVars
  <2>2. Handled' /\ Counting'
    BY <1>8 DEF EndStop, Handled, Counting, TypeOK
  <2>3. NoOverflowLost' /\ Loaded' /\ ReadingIsClose' /\ LateEnough'
    BY <1>8 DEF EndStop, NoOverflowLost, Loaded, ReadingIsClose, LateEnough, mainVars
  <2> QED BY <2>1, <2>2, <2>3
<1>9. CASE EndDisable
  <2>0. intc' = [intc EXCEPT !.enabled = FALSE]
    <3>1. (intc.enabled /\ isr.ID < 0) = FALSE
      BY <1>9 DEF EndDisable, Handled
    <3> QED BY <1>9, <3>1, Zenon DEF EndDisable
  <2>1. TypeOK'
    <3>1. intc' \in [raised : BOOLEAN, enabled : BOOLEAN, handlers : 0 .. 1]
      BY <1>9, <2>0, Zenon DEF EndDisable, TypeOK
    <3> QED BY <3>1, <1>9 DEF EndDisable, TypeOK, mainVars
  <2>2. Handled' /\ Counting'
    BY <1>9, <2>0 DEF EndDisable, Handled, Counting, TypeOK
  <2>3. NoOverflowLost' /\ Loaded' /\ ReadingIsClose' /\ LateEnough'
    BY <1>9 DEF EndDisable, NoOverflowLost, Loaded, ReadingIsClose, LateEnough, mainVars
  <2> QED BY <2>1, <2>2, <2>3
<1>10. CASE EndRemove
  <2>1. TypeOK'
    BY <1>10 DEF EndRemove, TypeOK, mainVars, Handled
  <2>2. Handled' /\ Counting'
    BY <1>10 DEF EndRemove, Handled, Counting, TypeOK
  <2>3. NoOverflowLost' /\ Loaded' /\ ReadingIsClose' /\ LateEnough'
    BY <1>10 DEF EndRemove, NoOverflowLost, Loaded, ReadingIsClose, LateEnough, mainVars
  <2> QED BY <2>1, <2>2, <2>3
<1>11. CASE EndClear
  <2>1. TypeOK'
    BY <1>11 DEF EndClear, TypeOK, mainVars
  <2>2. Handled' /\ Counting'
    BY <1>11 DEF EndClear, Handled, Counting, TypeOK
  <2>3. NoOverflowLost' /\ Loaded' /\ ReadingIsClose' /\ LateEnough'
    BY <1>11 DEF EndClear, NoOverflowLost, Loaded, ReadingIsClose, LateEnough, mainVars
  <2> QED BY <2>1, <2>2, <2>3
<1> QED BY <1>1, <1>2, <1>3, <1>4, <1>5, <1>6, <1>7, <1>8, <1>9, <1>10, <1>11
        DEF TimerInit, TimerEnd

(* The first load of a reading starts where the time is, or a period less. *)
LEMMA LoadInv == IInv /\ LoadFirst => IInv'
<1> SUFFICES ASSUME IInv, LoadFirst PROVE IInv'
  OBVIOUS
<1> USE TimerAssumption DEF IInv, Step
<1>1. /\ pc' = pc /\ pc \in {"begin", "test"} /\ lag' = 0 /\ from' = elapsed
      /\ reading' = [reading EXCEPT !.loaded = IF countFirst THEN t0.count ELSE isr.count]
      /\ UNCHANGED <<t0, intc, isr, mainVars, elapsed>>
  BY DEF LoadFirst
<1>2. TypeOK'
  BY <1>1 DEF TypeOK, mainVars
<1>3. Handled' /\ Counting'
  BY <1>1 DEF Handled, Counting
<1>4. NoOverflowLost' /\ ReadingIsClose' /\ LateEnough'
  BY <1>1 DEF NoOverflowLost, Pending, ReadingIsClose, LateEnough
<1>5. Loaded'
  <2>1. elapsed = t0.count + Period * isr.count
    BY DEF LoadFirst, NoOverflowLost, Pending, TypeOK
  <2>2. /\ isr.count \in Nat /\ isr.count * Period \in Nat
        /\ (isr.count + 1) * Period = isr.count * Period + Period
        /\ Period * isr.count = isr.count * Period
    BY Multiples DEF TypeOK
  <2> QED BY <1>1, <2>1, <2>2 DEF Loaded, TypeOK, mainVars
<1> QED BY <1>2, <1>3, <1>4, <1>5

(* The sum of the two loads is off by less than a period.                  *)
LEMMA SumIsClose ==
  ASSUME IInv, pc \in {"begin", "test"}, reading.loaded >= 0, ~ Pending
  PROVE  /\ Total \in Nat
         /\ IF countFirst THEN from <= Total /\ Total < elapsed + Period
                          ELSE from < Total + Period /\ Total <= elapsed
<1> USE TimerAssumption DEF IInv
<1>1. elapsed = t0.count + isr.count * Period /\ isr.count * Period \in Nat
  <2>1. elapsed = t0.count + Period * isr.count
    BY DEF NoOverflowLost, TypeOK
  <2>2. Period * isr.count = isr.count * Period /\ isr.count * Period \in Nat
    BY DEF TypeOK
  <2> QED BY <2>1, <2>2
<1>2. CASE countFirst
  BY <1>1, <1>2, TotalIsNat DEF Loaded, Total, TypeOK
<1>3. CASE ~ countFirst
  <2>1. /\ reading.loaded * Period <= isr.count * Period
        /\ reading.loaded * Period \in Nat
        /\ (reading.loaded + 1) * Period = reading.loaded * Period + Period
    BY <1>3, Multiples DEF Loaded, TypeOK
  <2>2. Total = t0.count + reading.loaded * Period
    BY <1>3 DEF Total
  <2> QED BY <1>1, <1>3, <2>1, <2>2, TotalIsNat DEF Loaded, TypeOK
<1> QED BY <1>2, <1>3

(* The first reading of a window is its start.                             *)
LEMMA BeginInv == IInv /\ Begin => IInv'
<1> SUFFICES ASSUME IInv, Begin PROVE IInv'
  OBVIOUS
<1> USE TimerAssumption DEF IInv, Step
<1>1. /\ pc = "begin" /\ pc' = "test" /\ lag' = 0 /\ reading.loaded >= 0 /\ ~ Pending
      /\ reading' = [loaded |-> -1, tstart |-> Total \div Scale, now |-> Total]
      /\ UNCHANGED <<t0, intc, isr, mainVars, from, elapsed>>
  BY DEF Begin
<1>2. Total \in Nat /\ Total < elapsed + Period
  BY <1>1, SumIsClose DEF TypeOK
<1>3. Total \div Scale \in Nat /\ Total \div Scale <= MaxTicks + Period
  <2>1. Total \div Scale \in Nat /\ Total \div Scale <= Total
    BY <1>2, Quotient
  <2> QED BY <1>2, <2>1 DEF TypeOK
<1>4. TypeOK'
  BY <1>1, <1>2, <1>3 DEF TypeOK, mainVars
<1>5. Handled' /\ Counting'
  BY <1>1 DEF Handled, Counting
<1>6. NoOverflowLost' /\ ReadingIsClose' /\ LateEnough'
  BY <1>1 DEF NoOverflowLost, Pending, ReadingIsClose, LateEnough
<1>7. Loaded'
  BY <1>1, <1>3 DEF Loaded, mainVars, TypeOK
<1> QED BY <1>4, <1>5, <1>6, <1>7

(* The others are held against the end of the window, which does not wrap  *)
(* unless the wait is negative.                                            *)
LEMMA TestInv == IInv /\ Test => IInv'
<1> SUFFICES ASSUME IInv, Test PROVE IInv'
  OBVIOUS
<1> USE TimerAssumption DEF IInv, Step
<1>1. /\ pc = "test" /\ lag' = 0 /\ reading.loaded >= 0 /\ ~ Pending
      /\ pc' = IF Total \div Scale <= Limit THEN "pass" ELSE "halt"
      /\ reading' = [reading EXCEPT !.loaded = -1, !.now = Total]
      /\ UNCHANGED <<t0, intc, isr, mainVars, from, elapsed>>
  BY DEF Test
<1>2. /\ Total \in Nat
      /\ IF countFirst THEN from <= Total /\ Total < elapsed + Period
                       ELSE from < Total + Period /\ Total <= elapsed
  BY <1>1, SumIsClose
<1>3. TypeOK'
  <2>1. pc' \in {"pass", "halt"}
    BY <1>1
  <2>2. reading' \in [loaded : Nat \cup {-1}, tstart : Nat, now : Nat]
    BY <1>1, <1>2 DEF TypeOK
  <2> QED BY <1>1, <2>1, <2>2 DEF TypeOK, mainVars
<1>4. Handled' /\ Counting'
  BY <1>1 DEF Handled, Counting
<1>5. NoOverflowLost'
  BY <1>1 DEF NoOverflowLost, Pending
<1>6. ReadingIsClose'
  BY <1>1, <1>2 DEF ReadingIsClose, mainVars, TypeOK
<1>7. Loaded'
  BY <1>1 DEF Loaded, mainVars, TypeOK
<1>8. LateEnough'
  <2> SUFFICES ASSUME pc' = "halt", Wait >= 0 PROVE Total > Wait * Scale
    BY <1>1, <1>2 DEF LateEnough, Wait, mainVars, TypeOK
  <2>1. Wait \in Nat /\ Wait < MaxTicks
    <3>1. Wait \in Delays \cup {RescueWait} /\ Wait \in Nat
      BY DEF Wait, TypeOK
    <3>2. Scale * (Wait + 2) + 2 * Period < MaxTicks
      BY <3>1
    <3>3. 1 * (Wait + 2) <= Scale * (Wait + 2)
      BY <3>1, Multiples
    <3> QED BY <3>1, <3>2, <3>3
  <2>2. Limit = reading.tstart + Wait
    <3>1. reading.tstart + Wait \in Nat /\ reading.tstart + Wait < Word
      BY <2>1 DEF Loaded, TypeOK
    <3> QED BY <3>1 DEF Limit
  <2>3. ~ (Total \div Scale <= Limit)
    BY <1>1
  <2>4. Total \div Scale \in Nat /\ \A w \in Nat : Total \div Scale > w => Total > w * Scale
    BY <1>2, Quotient
  <2>5. Total \div Scale > Wait
    BY <2>1, <2>2, <2>3, <2>4 DEF TypeOK
  <2> QED BY <2>1, <2>4, <2>5
<1> QED BY <1>3, <1>4, <1>5, <1>6, <1>7, <1>8

-----------------------------------------------------------------------------

(* The invariant holds in every reachable state.                           *)
LEMMA Invariance == Spec => []IInv
<1>1. IInv /\ [Next]_vars => IInv'
  <2> SUFFICES ASSUME IInv, [Next]_vars PROVE IInv'
    OBVIOUS
  <2>1. CASE UNCHANGED vars
    BY <2>1 DEF vars, mainVars, IInv, TypeOK, Handled, Counting, NoOverflowLost, Pending, Loaded,
                ReadingIsClose, LateEnough, Wait
  <2>2. CASE Next
    BY <2>1, <2>2, TickInv, InterruptInv, SetUpInv, LoadInv, BeginInv, TestInv
       DEF Next, Program, Stopped
  <2> QED BY <2>1, <2>2
<1> QED BY <1>1, InitInv, PTL DEF Spec

(* The variables keep their types and bounds.                              *)
THEOREM TypeCorrect == Spec => []TypeOK
<1>1. IInv => TypeOK
  BY DEF IInv
<1> QED BY <1>1, Invariance, PTL

(* TimerInterrupt counts every overflow of a window once, and no other.    *)
THEOREM EveryOverflowCounts == Spec => []NoOverflowLost
<1>1. IInv => NoOverflowLost
  BY DEF IInv
<1> QED BY <1>1, Invariance, PTL

(* Timer() is off by less than a period, whichever half it loads first.    *)
THEOREM ReadingsAreClose == Spec => []ReadingIsClose
<1>1. IInv => ReadingIsClose
  BY DEF IInv
<1> QED BY <1>1, Invariance, PTL

(* A window of main that ends by itself is at most a period too short.     *)
THEOREM WindowsAreWhole == Spec => []WindowIsWhole
<1>1. IInv => WindowIsWhole
  <2> SUFFICES ASSUME IInv, pc = "halt", Wait >= 0
               PROVE  elapsed + (IF countFirst THEN Period ELSE 0) > Wait * Scale
    BY DEF WindowIsWhole
  <2>1. reading.now > Wait * Scale
    BY DEF IInv, LateEnough
  <2>2. IF countFirst THEN reading.now < elapsed + Period ELSE reading.now <= elapsed
    BY DEF IInv, ReadingIsClose
  <2>3. Wait * Scale \in Int
    BY TimerAssumption DEF IInv, TypeOK, Wait
  <2> QED BY <2>1, <2>2, <2>3, TimerAssumption DEF IInv, TypeOK
<1> QED BY <1>1, Invariance, PTL

-----------------------------------------------------------------------------
(* The end of a window from the other side.                                *)

(* TimerInit takes less than three lags until the window's start is read,  *)
(* so that the start is not much later than zero.                          *)
Early ==
  /\ pc = "begin" => elapsed <= (IF reading.loaded >= 0 THEN 2 * Lag ELSE Lag) + lag
  /\ pc \in {"test", "pass"} =>
       reading.tstart * Scale <= 3 * Lag + (IF countFirst THEN Period ELSE 0)

(* A limit that does not wrap is the sum of the start and the wait.        *)
LEMMA LimitIsSum ==
  ASSUME IInv, pc = "test", reading.tstart + Wait >= 0
  PROVE  Limit = reading.tstart + Wait
<1> USE TimerAssumption DEF IInv
<1>1. Wait \in Int /\ reading.tstart \in Nat /\ reading.tstart + Wait \in Nat
  BY DEF Wait, TypeOK
<1>2. Wait < MaxTicks
  <2>1. CASE Wait < 0
    BY <1>1, <2>1
  <2>2. CASE Wait >= 0
    <3>1. Wait \in Delays \cup {RescueWait} /\ Wait \in Nat
      BY <2>2, <1>1 DEF Wait, TypeOK
    <3>2. Scale * (Wait + 2) + 2 * Period < MaxTicks
      BY <3>1
    <3>3. 1 * (Wait + 2) <= Scale * (Wait + 2)
      BY <3>1, Multiples
    <3> QED BY <3>1, <3>2, <3>3
  <2> QED BY <1>1, <2>1, <2>2
<1>3. reading.tstart + Wait < Word
  BY <1>1, <1>2 DEF Loaded
<1> QED BY <1>1, <1>3 DEF Limit

(* Only four steps have a say in it.                                       *)
LEMMA EarlyInv ==
  ASSUME IInv, Early, WindowIsShort, [Next]_vars
  PROVE  Early' /\ WindowIsShort'
<1> USE TimerAssumption DEF IInv
<1>1. CASE Tick
  BY <1>1 DEF Tick, Slow, Early, WindowIsShort, Endless, Wait, mainVars, TypeOK
<1>2. CASE TimerInterrupt
  BY <1>2 DEF TimerInterrupt, Early, WindowIsShort, Endless, Wait, mainVars
<1>3. CASE InitReset
  BY <1>3 DEF InitReset, Step, Counting, Loaded, Early, WindowIsShort, TypeOK
<1>4. CASE LoadFirst
  BY <1>4 DEF LoadFirst, Step, Early, WindowIsShort, mainVars, TypeOK
<1>5. CASE Begin
  <2>1. Total \in Nat /\ Total <= elapsed + (IF countFirst THEN Period ELSE 0)
    BY <1>5, SumIsClose DEF Begin, Step, TypeOK
  <2>2. elapsed <= 3 * Lag
    BY <1>5 DEF Begin, Step, Early, TypeOK
  <2>3. (Total \div Scale) * Scale <= Total /\ (Total \div Scale) * Scale \in Nat
    BY <2>1, Rounding, Quotient
  <2> QED BY <1>5, <2>1, <2>2, <2>3 DEF Begin, Step, Early, WindowIsShort, mainVars, TypeOK
<1>6. CASE Test
  <2>1. Early'
    BY <1>6 DEF Test, Step, Early, mainVars, TypeOK
  <2>2. WindowIsShort'
    <3> SUFFICES ASSUME pc' = "pass", ~ Endless
                 PROVE  from < (Wait + 1) * Scale + Period + 3 * Lag
      BY <1>6 DEF Test, Step, WindowIsShort, Endless, Wait, mainVars, TypeOK
    <3> DEFINE q == Total \div Scale
               w == reading.tstart + Wait
    <3>1. reading.tstart \in Nat /\ Wait \in Int /\ w \in Nat
      BY DEF Endless, Wait, TypeOK
    <3>2. q <= w
      <4>1. q <= Limit
        BY <1>6 DEF Test, Step
      <4>2. Limit = w
        BY <1>6, <3>1, LimitIsSum DEF Test, Step
      <4> QED BY <4>1, <4>2
    <3>3. /\ Total \in Nat
          /\ from <= Total + (IF countFirst THEN 0 ELSE Period)
      BY <1>6, SumIsClose DEF Test, Step, TypeOK
    <3>4. q \in Nat /\ Total < (q + 1) * Scale
      BY <3>3, Rounding, Quotient
    <3> HIDE DEF q, w
    <3>5. (q + 1) * Scale <= (w + 1) * Scale
      BY <3>1, <3>2, <3>4, Multiples
    <3>6. (w + 1) * Scale = reading.tstart * Scale + (Wait + 1) * Scale
      BY <3>1 DEF w
    <3>7. reading.tstart * Scale <= 3 * Lag + (IF countFirst THEN Period ELSE 0)
      BY <1>6 DEF Test, Step, Early
    <3>8. /\ (q + 1) * Scale \in Nat /\ (w + 1) * Scale \in Nat
          /\ (Wait + 1) * Scale \in Int /\ reading.tstart * Scale \in Nat
      BY <3>1, <3>4, Multiples
    <3> QED BY <3>3, <3>4, <3>5, <3>6, <3>7, <3>8 DEF TypeOK
  <2> QED BY <2>1, <2>2
<1>7. CASE Pass
  BY <1>7 DEF Pass, Step, Early, WindowIsShort, mainVars
<1>8. CASE InitStop \/ InitAdd \/ InitEnable \/ InitZero \/ InitStart \/ TimerEnd
  BY <1>8 DEF InitStop, InitAdd, InitEnable, InitZero, InitStart, TimerEnd, EndStop, EndDisable,
              EndRemove, EndClear, Step, Early, WindowIsShort
<1>9. CASE UNCHANGED vars
  BY <1>9 DEF vars, mainVars, Early, WindowIsShort, Endless, Wait
<1> QED BY <1>1, <1>2, <1>3, <1>4, <1>5, <1>6, <1>7, <1>8, <1>9
        DEF Next, Program, Stopped, TimerInit

(* Only the window whose sum wraps stays open after its time: no interrupt *)
(* and no order of the loads keeps another one open for longer.            *)
THEOREM WindowsAreShort == Spec => []WindowIsShort
<1>1. Init => Early /\ WindowIsShort
  BY DEF Init, Early, WindowIsShort
<1>2. (IInv /\ Early /\ WindowIsShort) /\ [Next]_vars => (Early /\ WindowIsShort)'
  BY EarlyInv
<1> QED BY <1>1, <1>2, Invariance, PTL DEF Spec

(* KEY_READ_WAIT_TIME and the two seconds of the rescue window are kept.   *)
THEOREM WindowsAreTimely == Spec => []WindowIsTimely
<1>1. WindowIsWhole /\ WindowIsShort => WindowIsTimely
  BY DEF WindowIsTimely
<1> QED BY <1>1, WindowsAreWhole, WindowsAreShort, PTL

(* The program's numbers, with a wait of any int and sums in a word of     *)
(* more than 43 bits (the program's has 64), satisfy the assumption that   *)
(* the theorems rest on, for windows of up to 2^41 counts: over a month.   *)
THEOREM ProgramIsCovered ==
  ASSUME Period = 65536, Scale = 576, RescueWait = 2000, Lag \in Nat, Lag < 65536,
         Delays \subseteq Int, \A d \in Delays : -2147483649 < d /\ d < 2147483648,
         MaxTicks = 2199023255552, Word \in Nat, 8796093022208 < Word
  PROVE  /\ Period \in Nat /\ Scale \in Nat \ {0} /\ RescueWait \in Nat /\ Delays \subseteq Int
         /\ Lag \in Nat /\ Lag < Period
         /\ MaxTicks \in Nat /\ \A d \in Delays \cup {RescueWait} : Scale * (d + 2) + 2 * Period < MaxTicks
         /\ Word \in Nat /\ 2 * MaxTicks + Period < Word /\ \A d \in Delays : -Word < d
<1>1. ASSUME NEW d \in Delays \cup {RescueWait}
      PROVE  Scale * (d + 2) + 2 * Period < MaxTicks
  <2>1. d \in Int /\ d < 2147483648
    BY <1>1, SMT
  <2>2. 576 * (d + 2) + 131072 < 2199023255552
    BY <2>1, SMT
  <2> QED BY <2>2, SMT
<1>2. ASSUME NEW d \in Delays PROVE -Word < d
  BY <1>2, SMT
<1> QED BY <1>1, <1>2, SMT

=============================================================================
