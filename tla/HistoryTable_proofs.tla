------------------------ MODULE HistoryTable_proofs ------------------------
(***************************************************************************)
(* For a table of any size, any number of bits and any milestones that     *)
(* satisfy the assumptions of HistoryTable: the invariants of the table,   *)
(* and which record it gives up.                                           *)
(***************************************************************************)
EXTENDS HistoryTable, Extremes, FiniteSetTheorems, TLAPS

-----------------------------------------------------------------------------
(* The scan for the least used record.                                     *)

(* The scan of a table finds a record whose count is a lowest one.         *)
LEMMA LeastUsedIsLeast ==
  ASSUME NEW t \in Tables
  PROVE  /\ LeastUsedRecord(t) \in Slots
         /\ \A j \in Slots : t[LeastUsedRecord(t)].count <= t[j].count
<1> DEFINE U == LeastUsedUpdates(t)
           v == LeastUsedRecord(t)
<1>0. \A i \in Slots : i \in Nat /\ i <= MaxEntries - 1 /\ t[i].count \in Nat
  BY SizeAssumption, CountAssumption DEF Slots, Tables, Records
<1>1. MaxEntries - 1 \in Nat /\ U \in SUBSET (0 .. MaxEntries - 1)
  BY SizeAssumption DEF LeastUsedUpdates, RunningMinima, Slots
<1>2. 0 \in U
  BY SizeAssumption DEF LeastUsedUpdates, RunningMinima, Slots
<1>3. v \in U /\ \A i \in U : v >= i
  BY <1>1, <1>2, GreatestElement DEF LeastUsedRecord
<1>4. v \in Slots /\ \A j \in 0 .. v - 1 : t[v].count <= t[j].count
  BY <1>3 DEF LeastUsedUpdates, RunningMinima
<1>5. ASSUME NEW k \in Slots, t[k].count < t[v].count
      PROVE  FALSE
  <2> DEFINE L == {i \in Slots : t[i].count < t[v].count}
  <2>1. L \in SUBSET Nat /\ L # {}
    BY <1>0, <1>5
  <2>2. PICK f \in L : \A y \in L : f <= y
    BY <2>1, LeastElement
  <2> f \in Slots /\ t[f].count < t[v].count
    BY <2>2
  <2>3. \A j \in 0 .. f - 1 : j \in Slots /\ ~ (t[j].count < t[v].count)
    <3> TAKE j \in 0 .. f - 1
    <3>1. j \in Slots /\ ~ (f <= j)
      BY SizeAssumption DEF Slots
    <3> QED BY <3>1, <2>2
  <2>4. \A j \in 0 .. f - 1 : t[f].count < t[j].count
    <3> TAKE j \in 0 .. f - 1
    <3>1. j \in Slots /\ ~ (t[j].count < t[v].count)
      BY <2>3
    <3>2. t[j].count \in Nat /\ t[v].count \in Nat /\ t[f].count \in Nat
      BY <3>1, <1>0, <1>4
    <3> HIDE DEF v
    <3> QED BY <3>1, <3>2
  <2>5. f \in U
    <3>1. f \in Slots
      BY <2>2
    <3>2. \A j \in 0 .. f - 1 : t[f].count <= t[j].count
      BY <2>4, <2>3, <1>0, <3>1
    <3> QED BY <3>1, <3>2, <2>4 DEF LeastUsedUpdates, RunningMinima
  <2>6. f <= v /\ f # v
    BY <2>5, <1>3, <2>2, <1>0, <1>4
  <2>7. t[v].count <= t[f].count
    BY <2>6, <1>4, <1>0, <2>2
  <2> QED BY <2>7, <2>2, <1>0, <1>4
<1> QED BY <1>4, <1>5, <1>0

-----------------------------------------------------------------------------
(* Milestones.                                                             *)

(* One more launch passes one more milestone or none.                      *)
LEMMA PassedStep ==
  ASSUME NEW n \in Nat
  PROVE  /\ Passed(n) \in Nat
         /\ Passed(n + 1) = IF IsMilestone(n + 1) THEN Passed(n) + 1 ELSE Passed(n)
<1> DEFINE M(k) == {m \in 1 .. k : IsMilestone(m)}
<1>1. IsFiniteSet(M(n))
  <2>1. IsFiniteSet(1 .. n)
    BY FS_Interval
  <2>2. M(n) \in SUBSET (1 .. n)
    OBVIOUS
  <2> QED BY <2>1, <2>2, FS_Subset
<1>2. Cardinality(M(n)) \in Nat
  BY <1>1, FS_CardinalityType
<1>3. n + 1 \notin M(n)
  OBVIOUS
<1>4. M(n + 1) = IF IsMilestone(n + 1) THEN M(n) \cup {n + 1} ELSE M(n)
  OBVIOUS
<1>5. Cardinality(M(n) \cup {n + 1}) = Cardinality(M(n)) + 1
  BY <1>1, <1>3, FS_AddElement
<1>6. Passed(n) = Cardinality(M(n)) /\ Passed(n + 1) = Cardinality(M(n + 1))
  BY DEF Passed
<1> HIDE DEF M
<1> QED BY <1>2, <1>4, <1>5, <1>6

(* The number of milestones passed never falls with the count.             *)
LEMMA PassedMonotone ==
  ASSUME NEW m \in Nat, NEW n \in Nat, m <= n
  PROVE  Passed(m) <= Passed(n)
<1> DEFINE M(k) == {i \in 1 .. k : IsMilestone(i)}
<1>1. IsFiniteSet(M(n)) /\ M(m) \in SUBSET M(n)
  <2>1. IsFiniteSet(1 .. n)
    BY FS_Interval
  <2>2. M(n) \in SUBSET (1 .. n) /\ M(m) \in SUBSET M(n)
    OBVIOUS
  <2> QED BY <2>1, <2>2, FS_Subset
<1>2. Cardinality(M(m)) <= Cardinality(M(n))
  BY <1>1, FS_Subset
<1> QED BY <1>2 DEF Passed

(* The first launch of a game passes no milestone.                         *)
LEMMA PassedOnce == Passed(1) = 0
<1>1. {m \in 1 .. 1 : IsMilestone(m)} = {}
  BY CountAssumption DEF IsMilestone
<1> QED BY <1>1, FS_EmptySet DEF Passed

(* One more than a number that s divides has a quotient of one more, and   *)
(* any other the same one.                                                 *)
LEMMA QuotientStep ==
  ASSUME NEW x \in Nat, NEW s \in Nat \ {0}
  PROVE  /\ x \div s \in Nat /\ 0 \div s = 0 /\ 0 % s = 0
         /\ (x + 1) \div s = IF (x + 1) % s = 0 THEN x \div s + 1 ELSE x \div s
<1> DEFINE q == x \div s   r == x % s
           u == (x + 1) \div s   v == (x + 1) % s
<1>1. q \in Nat /\ r \in 0 .. s - 1 /\ x = s * q + r
  OBVIOUS
<1>2. u \in Nat /\ v \in 0 .. s - 1 /\ x + 1 = s * u + v
  OBVIOUS
<1>3. 0 \div s = 0 /\ 0 % s = 0
  OBVIOUS
<1> HIDE DEF q, r, u, v
<1>4. u >= q
  <2> SUFFICES ASSUME u + 1 <= q PROVE FALSE
    BY <1>1, <1>2
  <2>1. q - (u + 1) \in Nat /\ s * (q - (u + 1)) \in Nat
    BY <1>1, <1>2
  <2>2. s * q = s * u + s + s * (q - (u + 1))
    BY <1>1, <1>2
  <2>3. s * q \in Nat /\ s * u \in Nat
    BY <1>1, <1>2
  <2> QED BY <1>1, <1>2, <2>1, <2>2, <2>3
<1>5. u <= q + 1
  <2> SUFFICES ASSUME q + 2 <= u PROVE FALSE
    BY <1>1, <1>2
  <2>1. u - (q + 2) \in Nat /\ s * (u - (q + 2)) \in Nat
    BY <1>1, <1>2
  <2>2. s * u = s * q + s + s + s * (u - (q + 2))
    BY <1>1, <1>2
  <2>3. s * q \in Nat /\ s * u \in Nat
    BY <1>1, <1>2
  <2> QED BY <1>1, <1>2, <2>1, <2>2, <2>3
<1>6. s * (q + 1) = s * q + s /\ s * q \in Nat
  BY <1>1
<1>7. CASE u = q
  <2>1. v # 0
    BY <1>1, <1>2, <1>6, <1>7
  <2> QED BY <1>1, <1>3, <1>7, <2>1 DEF q, u, v
<1>8. CASE u = q + 1
  <2>1. v = 0
    BY <1>1, <1>2, <1>6, <1>8
  <2> QED BY <1>1, <1>3, <1>8, <2>1 DEF q, u, v
<1> QED BY <1>1, <1>2, <1>4, <1>5, <1>7, <1>8

(* The milestones among the first n launches, without counting them.       *)
Reached(n) == IF n < FirstMilestone THEN 0 ELSE (n - FirstMilestone) \div MilestoneStep + 1

(* Reached grows where Passed does.                                        *)
LEMMA ReachedStep ==
  ASSUME NEW n \in Nat
  PROVE  /\ Reached(n) \in Nat
         /\ Reached(n + 1) = IF IsMilestone(n + 1) THEN Reached(n) + 1 ELSE Reached(n)
<1> USE CountAssumption
<1>1. CASE n + 1 < FirstMilestone
  BY <1>1 DEF Reached, IsMilestone
<1>2. CASE n + 1 = FirstMilestone
  <2>1. (n + 1) - FirstMilestone = 0
    BY <1>2
  <2>2. 0 \div MilestoneStep = 0 /\ 0 % MilestoneStep = 0
    BY QuotientStep
  <2>3. Reached(n) = 0 /\ Reached(n + 1) = 1 /\ IsMilestone(n + 1)
    BY <1>2, <2>1, <2>2 DEF Reached, IsMilestone
  <2> QED BY <2>3
<1>3. CASE n >= FirstMilestone
  <2> DEFINE x == n - FirstMilestone
  <2>1. x \in Nat /\ (n + 1) - FirstMilestone = x + 1
    BY <1>3
  <2> HIDE DEF x
  <2>2. /\ x \div MilestoneStep \in Nat
        /\ (x + 1) \div MilestoneStep = IF (x + 1) % MilestoneStep = 0
                                         THEN x \div MilestoneStep + 1 ELSE x \div MilestoneStep
    BY <2>1, QuotientStep
  <2>3. Reached(n) = x \div MilestoneStep + 1 /\ Reached(n + 1) = (x + 1) \div MilestoneStep + 1
    BY <1>3, <2>1 DEF Reached, x
  <2>4. IsMilestone(n + 1) <=> (x + 1) % MilestoneStep = 0
    BY <1>3, <2>1 DEF IsMilestone
  <2> QED BY <2>2, <2>3, <2>4
<1> QED BY <1>1, <1>2, <1>3

(* They are the same number: there is no least n for which they differ.    *)
LEMMA PassedIsReached ==
  ASSUME NEW n \in Nat
  PROVE  Passed(n) = Reached(n)
<1> DEFINE D == {k \in Nat : Passed(k) # Reached(k)}
<1> SUFFICES ASSUME D # {} PROVE FALSE
  OBVIOUS
<1>1. PICK f \in D : \A k \in D : f <= k
  <2>1. D \in SUBSET Nat
    OBVIOUS
  <2> QED BY <2>1, LeastElement, Zenon
<1>2. f # 0
  <2>1. {m \in 1 .. 0 : IsMilestone(m)} = {}
    OBVIOUS
  <2>2. Passed(0) = 0
    BY <2>1, FS_EmptySet DEF Passed
  <2>3. Reached(0) = 0
    BY CountAssumption DEF Reached
  <2> QED BY <2>2, <2>3
<1>3. f - 1 \in Nat /\ f - 1 \notin D /\ (f - 1) + 1 = f
  BY <1>1, <1>2
<1>4. Passed(f - 1) = Reached(f - 1)
  BY <1>3
<1>5. Passed(f) = Reached(f)
  BY <1>3, <1>4, PassedStep, ReachedStep
<1> QED BY <1>1, <1>5

(* There are as many bits as NumBits says.                                 *)
LEMMA BitsFinite == IsFiniteSet(Bits) /\ Cardinality(Bits) = NumBits
BY SizeAssumption, FS_Interval DEF Bits

-----------------------------------------------------------------------------
(* One record.                                                             *)

(* A consistent record whose mask is not full has not reached FullMask.    *)
LEMMA RoomToGrow ==
  ASSUME NEW e \in Records, ConsistentRecord(e), e.mask # Bits
  PROVE  /\ IsFiniteSet(e.mask)
         /\ Cardinality(e.mask) < NumBits
         /\ e.count < FullMask
<1>1. e.mask \in SUBSET Bits /\ e.count \in 1 .. FullMask
  BY DEF Records, ConsistentRecord
<1>2. IsFiniteSet(e.mask) /\ Cardinality(e.mask) <= NumBits
      /\ Cardinality(e.mask) # NumBits
  BY <1>1, BitsFinite, FS_Subset
<1>3. Cardinality(e.mask) \in Nat
  BY <1>2, FS_CardinalityType
<1>4. Cardinality(e.mask) = 1 + Passed(e.count)
  BY DEF ConsistentRecord
<1>5. FullMask \in Nat /\ e.count \in Nat
  BY <1>1, CountAssumption
<1>6. e.count >= FullMask => Passed(FullMask) <= Passed(e.count)
  BY <1>5, PassedMonotone
<1>7. Passed(FullMask) \in Nat /\ Passed(e.count) \in Nat /\ NumBits \in Nat
  BY <1>5, PassedStep, SizeAssumption
<1> QED BY <1>2, <1>3, <1>4, <1>5, <1>6, <1>7, MilestoneAssumption

(* A new record is consistent.                                             *)
LEMMA NewRecordConsistent ==
  ASSUME NEW n \in Names, NEW d \in Dates
  PROVE  NewRecord(n, d) \in Records /\ ConsistentRecord(NewRecord(n, d))
<1> DEFINE e == NewRecord(n, d)
<1>1. 0 \in Bits /\ NumBits \in Nat /\ NumBits >= 1
  BY SizeAssumption DEF Bits
<1>2. e.count = 1 /\ e.mask = {0} /\ e.shift = 0 /\ 1 \in 0 .. CountClamp
      /\ 1 \in 1 .. FullMask
  BY CountAssumption DEF NewRecord
<1>3. e \in Records
  BY <1>1, <1>2 DEF NewRecord, Records
<1>4. Cardinality({0}) = 1
  BY FS_Singleton
<1>5. {0} = Bits => NumBits = 1
  BY <1>4, BitsFinite
<1>6. Pinned # 0
  BY <1>1 DEF Pinned
<1> QED BY <1>1, <1>2, <1>3, <1>4, <1>5, <1>6, PassedOnce DEF ConsistentRecord

(* Each field of a record can be replaced by another of its values.        *)
LEMMA ReplaceField ==
  ASSUME NEW e \in Records
  PROVE  /\ \A d \in Dates : [e EXCEPT !.date = d] \in Records
         /\ \A c \in 0 .. CountClamp : [e EXCEPT !.count = c] \in Records
         /\ \A m \in SUBSET Bits : [e EXCEPT !.mask = m] \in Records
         /\ \A s \in Bits \cup {Pinned} : [e EXCEPT !.shift = s] \in Records
<1>1. \A d \in Dates : [e EXCEPT !.date = d] \in Records
  BY DEF Records
<1>2. \A c \in 0 .. CountClamp : [e EXCEPT !.count = c] \in Records
  BY DEF Records
<1>3. \A m \in SUBSET Bits : [e EXCEPT !.mask = m] \in Records
  BY DEF Records
<1>4. \A s \in Bits \cup {Pinned} : [e EXCEPT !.shift = s] \in Records
  BY DEF Records
<1> QED BY <1>1, <1>2, <1>3, <1>4

(* A launch keeps a record consistent, and it only grows.                  *)
LEMMA RelaunchedConsistent ==
  ASSUME NEW e \in Records, ConsistentRecord(e), NEW d \in Dates,
         NEW v \in Bits, e.mask # Bits => v \notin e.mask
  PROVE  /\ Relaunched(e, d, v) \in Records
         /\ Relaunched(e, d, v).name = e.name
         /\ ConsistentRecord(Relaunched(e, d, v))
         /\ Relaunched(e, d, v).count >= e.count
         /\ e.mask \subseteq Relaunched(e, d, v).mask
         /\ e.shift = Pinned => Relaunched(e, d, v).shift = Pinned
<1> DEFINE r == Relaunched(e, d, v)
<1>0. /\ e.count \in 1 .. FullMask /\ e.mask \in SUBSET Bits /\ e.name \in Names \cup {Blank}
      /\ e.shift \in Bits \cup {Pinned} /\ 0 \in e.mask
      /\ FullMask \in Nat /\ CountClamp \in Nat /\ FullMask < CountClamp
      /\ NumBits \in Nat /\ Pinned \notin Bits
  BY CountAssumption, SizeAssumption DEF ConsistentRecord, Records, Pinned, Bits
<1>1. CASE e.mask # Bits
  <2>1. IsFiniteSet(e.mask) /\ e.count < FullMask /\ e.shift \in e.mask
    BY <1>0, <1>1, RoomToGrow DEF ConsistentRecord
  <2>2. NextCount(e) = e.count + 1
    BY <1>0, <2>1 DEF NextCount
  <2>3. /\ Passed(e.count) \in Nat
        /\ Passed(e.count + 1) = IF IsMilestone(e.count + 1) THEN Passed(e.count) + 1
                                                             ELSE Passed(e.count)
    BY <1>0, PassedStep
  <2>4. Cardinality(e.mask) = 1 + Passed(e.count)
    BY <1>1 DEF ConsistentRecord
  <2>5. CASE IsMilestone(e.count + 1)
    <3>1. r = [e EXCEPT !.date = d, !.count = e.count + 1, !.mask = @ \cup {v}, !.shift = v]
      BY <1>1, <2>2, <2>5 DEF Relaunched
    <3>2. /\ r \in Records /\ r.name = e.name /\ r.count = e.count + 1
          /\ r.mask = e.mask \cup {v} /\ r.shift = v
      <4> DEFINE a == [e EXCEPT !.date = d]
                 b == [a EXCEPT !.count = e.count + 1]
                 c == [b EXCEPT !.mask = e.mask \cup {v}]
      <4>1. a \in Records /\ a.name = e.name /\ a.mask = e.mask
        BY ReplaceField DEF Records
      <4>2. b \in Records /\ b.name = e.name /\ b.mask = e.mask /\ b.count = e.count + 1
        <5> HIDE DEF a
        <5>1. e.count + 1 \in 0 .. CountClamp
          BY <1>0, <2>1
        <5> QED BY <4>1, <5>1, ReplaceField DEF Records
      <4>3. c \in Records /\ c.name = e.name /\ c.count = e.count + 1
            /\ c.mask = e.mask \cup {v}
        <5> HIDE DEF b
        <5>1. e.mask \cup {v} \in SUBSET Bits
          BY <1>0
        <5> QED BY <4>2, <5>1, ReplaceField DEF Records
      <4>4. r = [c EXCEPT !.shift = v]
        BY <3>1
      <4> HIDE DEF r, c
      <4> QED BY <4>3, <4>4, ReplaceField DEF Records
    <3>3. Cardinality(e.mask \cup {v}) = 1 + Passed(e.count + 1)
      <4>1. v \notin e.mask
        BY <1>1
      <4>2. Cardinality(e.mask \cup {v}) = Cardinality(e.mask) + 1
        BY <4>1, <2>1, FS_AddElement
      <4> QED BY <4>2, <2>3, <2>4, <2>5
    <3> HIDE DEF r
    <3>4. r.mask = Bits => Passed(r.count) >= NumBits - 1
      <4>1. r.mask = Bits => NumBits = 1 + Passed(r.count)
        BY <3>2, <3>3, BitsFinite
      <4>2. Passed(r.count) \in Nat
        BY <3>2, <1>0, PassedStep
      <4> QED BY <4>1, <4>2, <1>0
    <3>5. ConsistentRecord(r)
      BY <3>2, <3>3, <3>4, <1>0, <2>1 DEF ConsistentRecord
    <3>6. r.count >= e.count /\ e.mask \subseteq r.mask /\ e.shift # Pinned
      BY <3>2, <1>0, <2>1
    <3> QED BY <3>2, <3>5, <3>6 DEF r
  <2>6. CASE ~ IsMilestone(e.count + 1)
    <3>1. r = [e EXCEPT !.date = d, !.count = e.count + 1]
      BY <1>1, <2>2, <2>6 DEF Relaunched
    <3>2. /\ r \in Records /\ r.name = e.name /\ r.count = e.count + 1
          /\ r.mask = e.mask /\ r.shift = e.shift
      <4> DEFINE a == [e EXCEPT !.date = d]
      <4>1. a \in Records /\ a.name = e.name /\ a.mask = e.mask /\ a.shift = e.shift
        BY ReplaceField DEF Records
      <4>2. r = [a EXCEPT !.count = e.count + 1] /\ e.count + 1 \in 0 .. CountClamp
        BY <3>1, <1>0, <2>1
      <4> HIDE DEF r, a
      <4> QED BY <4>1, <4>2, ReplaceField DEF Records
    <3> HIDE DEF r
    <3>3. ConsistentRecord(r)
      BY <3>2, <1>0, <1>1, <2>1, <2>3, <2>4, <2>6 DEF ConsistentRecord
    <3>4. r.count >= e.count /\ e.mask \subseteq r.mask /\ e.shift # Pinned
      BY <3>2, <1>0, <2>1
    <3> QED BY <3>2, <3>3, <3>4 DEF r
  <2> QED BY <2>5, <2>6
<1>2. CASE e.mask = Bits /\ e.count < FullMask
  <2>1. r = [e EXCEPT !.date = d, !.count = e.count + 1]
    BY <1>2 DEF Relaunched
  <2>2. /\ r \in Records /\ r.name = e.name /\ r.count = e.count + 1
        /\ r.mask = e.mask /\ r.shift = e.shift
    <3> DEFINE a == [e EXCEPT !.date = d]
    <3>1. a \in Records /\ a.name = e.name /\ a.mask = e.mask /\ a.shift = e.shift
      BY ReplaceField DEF Records
    <3>2. r = [a EXCEPT !.count = e.count + 1] /\ e.count + 1 \in 0 .. CountClamp
      BY <2>1, <1>0, <1>2
    <3> HIDE DEF r, a
    <3> QED BY <3>1, <3>2, ReplaceField DEF Records
  <2>3. e.shift # Pinned /\ e.shift \in e.mask
    BY <1>0, <1>2 DEF ConsistentRecord
  <2>4. Passed(e.count) >= NumBits - 1 /\ Passed(e.count) <= Passed(e.count + 1)
        /\ Passed(e.count) \in Nat /\ Passed(e.count + 1) \in Nat
    BY <1>0, <1>2, PassedMonotone, PassedStep DEF ConsistentRecord
  <2> HIDE DEF r
  <2>5. ConsistentRecord(r)
    BY <2>2, <2>3, <2>4, <1>0, <1>2 DEF ConsistentRecord
  <2> QED BY <2>2, <2>3, <2>5, <1>0 DEF r
<1>3. CASE e.mask = Bits /\ ~ (e.count < FullMask)
  <2>1. r = [e EXCEPT !.date = d, !.count = FullMask, !.shift = Pinned]
    BY <1>3 DEF Relaunched
  <2>2. e.count = FullMask
    BY <1>0, <1>3
  <2>3. /\ r \in Records /\ r.name = e.name /\ r.count = FullMask
        /\ r.mask = e.mask /\ r.shift = Pinned
    <3> DEFINE a == [e EXCEPT !.date = d]
               b == [a EXCEPT !.count = FullMask]
    <3>1. a \in Records /\ a.name = e.name /\ a.mask = e.mask
      BY ReplaceField DEF Records
    <3>2. b \in Records /\ b.name = e.name /\ b.mask = e.mask /\ b.count = FullMask
      <4> HIDE DEF a
      <4> QED BY <3>1, <1>0, ReplaceField DEF Records
    <3>3. r = [b EXCEPT !.shift = Pinned]
      BY <2>1
    <3> HIDE DEF r, b
    <3> QED BY <3>2, <3>3, ReplaceField DEF Records
  <2> HIDE DEF r
  <2>4. ConsistentRecord(r)
    BY <2>2, <2>3, <1>0, <1>3 DEF ConsistentRecord
  <2> QED BY <2>2, <2>3, <2>4, <1>0 DEF r
<1> QED BY <1>1, <1>2, <1>3

-----------------------------------------------------------------------------
(* The table.                                                              *)

IInv == TypeOK /\ UniqueNames /\ RecordsConsistent

(* What a launch that finds the game in the table does to each slot.       *)
LEMMA UpdateKeeps ==
  ASSUME IInv, NEW n \in Names, NEW d \in Dates, UpdateRecord(n, d)
  PROVE  /\ entries' \in Tables
         /\ \A i \in Slots :
              /\ entries'[i].name = entries[i].name
              /\ entries[i].name = Blank => entries'[i] = entries[i]
              /\ entries[i].name # Blank => ConsistentRecord(entries'[i])
              /\ entries'[i].count >= entries[i].count
              /\ entries[i].mask \subseteq entries'[i].mask
              /\ entries[i].shift = Pinned => entries'[i].shift = Pinned
<1>1. PICK pick \in [Matches(entries, n) -> Bits] :
        /\ \A i \in Matches(entries, n) : entries[i].mask # Bits => pick[i] \notin entries[i].mask
        /\ entries' = [i \in Slots |-> IF i \in Matches(entries, n)
                                       THEN Relaunched(entries[i], d, pick[i])
                                       ELSE entries[i]]
  BY DEF UpdateRecord
<1>2. ASSUME NEW i \in Slots
      PROVE  /\ entries'[i] \in Records
             /\ entries'[i].name = entries[i].name
             /\ entries[i].name = Blank => entries'[i] = entries[i]
             /\ entries[i].name # Blank => ConsistentRecord(entries'[i])
             /\ entries'[i].count >= entries[i].count
             /\ entries[i].mask \subseteq entries'[i].mask
             /\ entries[i].shift = Pinned => entries'[i].shift = Pinned
  <2>1. entries[i] \in Records
    BY DEF IInv, TypeOK, Tables
  <2>2. CASE i \in Matches(entries, n)
    <3>1. entries[i].name = n /\ n # Blank
      BY <2>2, NamesAssumption DEF Matches
    <3>2. ConsistentRecord(entries[i])
      BY <3>1 DEF IInv, RecordsConsistent
    <3>3. entries'[i] = Relaunched(entries[i], d, pick[i])
      BY <1>1, <2>2
    <3>4. pick[i] \in Bits /\ (entries[i].mask # Bits => pick[i] \notin entries[i].mask)
      BY <1>1, <2>2
    <3> QED BY <2>1, <3>1, <3>2, <3>3, <3>4, RelaunchedConsistent
  <2>3. CASE i \notin Matches(entries, n)
    <3>1. entries'[i] = entries[i]
      BY <1>1, <2>3
    <3>2. entries[i].count >= entries[i].count
      BY <2>1, CountAssumption DEF Records
    <3>3. entries[i].name # Blank => ConsistentRecord(entries[i])
      BY DEF IInv, RecordsConsistent
    <3> QED BY <2>1, <3>1, <3>2, <3>3
  <2> QED BY <2>2, <2>3
<1>3. entries' = [i \in Slots |-> entries'[i]]
  BY <1>1
<1>4. entries' \in Tables
  BY <1>2, <1>3 DEF Tables
<1> QED BY <1>2, <1>4

(* What a launch does that finds no record: one slot takes the new one,    *)
(* and it was blank or the least used one of a table without blanks.       *)
LEMMA InsertReplaces ==
  ASSUME IInv, NEW n \in Names, NEW d \in Dates, InsertRecord(n, d)
  PROVE  \E k \in Slots :
           /\ entries' = [entries EXCEPT ![k] = NewRecord(n, d)]
           /\ \A i \in Slots : entries[i].name # n
           /\ \/ entries[k].name = Blank /\ tooMany' = FALSE /\ old' = old
              \/ /\ BlankSlots(entries) = {}
                 /\ tooMany' = TRUE
                 /\ old' = entries[k]
                 /\ \A j \in Slots : entries[k].count <= entries[j].count
<1>1. \A i \in Slots : entries[i].name # n
  BY DEF InsertRecord, Matches
<1>2. CASE \E k \in BlankSlots(entries) :
             entries' = [entries EXCEPT ![k] = NewRecord(n, d)]
             /\ tooMany' = FALSE /\ UNCHANGED old
  BY <1>1, <1>2 DEF BlankSlots
<1>3. CASE /\ BlankSlots(entries) = {}
           /\ LET i == LeastUsedRecord(entries) IN
                /\ entries' = [entries EXCEPT ![i] = NewRecord(n, d)]
                /\ old' = entries[i]
           /\ tooMany' = TRUE
  <2>1. entries \in Tables
    BY DEF IInv, TypeOK
  <2> QED BY <1>1, <1>3, <2>1, LeastUsedIsLeast
<1> QED BY <1>2, <1>3 DEF InsertRecord

(* The wiped table satisfies the invariant.                                *)
LEMMA InitInv == Init => IInv
<1> SUFFICES ASSUME Init PROVE IInv
  OBVIOUS
<1>1. Wiped \in Records
  BY SizeAssumption, CountAssumption DEF Wiped, Records, Bits
<1>2. TypeOK
  BY <1>1 DEF Init, TypeOK, Tables
<1>3. \A i \in Slots : entries[i] = Wiped /\ entries[i].name = Blank
  BY DEF Init, Wiped
<1> QED BY <1>2, <1>3 DEF IInv, UniqueNames, RecordsConsistent

(* Every launch keeps the invariant.                                       *)
LEMMA NextInv == IInv /\ [Next]_tableVars => IInv'
<1> SUFFICES ASSUME IInv, [Next]_tableVars PROVE IInv'
  OBVIOUS
<1>1. ASSUME NEW n \in Names, NEW d \in Dates, UpdateRecord(n, d)
      PROVE  IInv'
  <2>1. tooMany' = FALSE /\ old' = old
    BY <1>1 DEF UpdateRecord
  <2>2. TypeOK'
    BY <1>1, <2>1, UpdateKeeps DEF IInv, TypeOK
  <2>3. UniqueNames'
    BY <1>1, UpdateKeeps DEF IInv, UniqueNames
  <2>4. RecordsConsistent'
    BY <1>1, UpdateKeeps DEF IInv, RecordsConsistent
  <2> QED BY <2>2, <2>3, <2>4 DEF IInv
<1>2. ASSUME NEW n \in Names, NEW d \in Dates, InsertRecord(n, d)
      PROVE  IInv'
  <2>1. PICK k \in Slots :
          /\ entries' = [entries EXCEPT ![k] = NewRecord(n, d)]
          /\ \A i \in Slots : entries[i].name # n
          /\ \/ tooMany' = FALSE /\ old' = old
             \/ tooMany' = TRUE /\ old' = entries[k]
    BY <1>2, InsertReplaces
  <2>2. NewRecord(n, d) \in Records /\ ConsistentRecord(NewRecord(n, d))
    BY NewRecordConsistent
  <2>3. entries \in [Slots -> Records]
    BY DEF IInv, TypeOK, Tables
  <2>4. /\ entries'[k] = NewRecord(n, d)
        /\ \A i \in Slots : i # k => entries'[i] = entries[i]
    BY <2>1, <2>3
  <2>5. TypeOK'
    BY <2>1, <2>2, <2>3 DEF IInv, TypeOK, Tables
  <2>6. entries'[k].name = n /\ n # Blank
    BY <2>4, NamesAssumption DEF NewRecord
  <2>7. UniqueNames'
    BY <2>1, <2>4, <2>6 DEF IInv, UniqueNames
  <2>8. RecordsConsistent'
    BY <2>2, <2>4, <2>6 DEF IInv, RecordsConsistent
  <2> QED BY <2>5, <2>7, <2>8 DEF IInv
<1>3. ASSUME NEW n \in Names, RefuseRecord(n)
      PROVE  IInv'
  BY <1>3 DEF RefuseRecord, IInv, TypeOK, UniqueNames, RecordsConsistent
<1>4. CASE UNCHANGED tableVars
  BY <1>4 DEF tableVars, IInv, TypeOK, UniqueNames, RecordsConsistent
<1> QED BY <1>1, <1>2, <1>3, <1>4 DEF Next, AddHistoryRecord

(***************************************************************************)
(* The invariant holds of every table a sequence of launches produces.     *)
(***************************************************************************)
THEOREM Invariance == Spec => []IInv
BY InitInv, NextInv, PTL DEF Spec

(* The variables hold what the source's structure can hold, for every      *)
(* table size and mask width.                                              *)
THEOREM TypeCorrect == Spec => []TypeOK
<1>1. IInv => TypeOK
  BY DEF IInv
<1> QED BY <1>1, Invariance, PTL

(* A game never has two records (the scan in AddHistoryRecord).            *)
THEOREM NamesAreUnique == Spec => []UniqueNames
<1>1. IInv => UniqueNames
  BY DEF IInv
<1> QED BY <1>1, Invariance, PTL

(* The count, the mask and the shift of every record agree after any       *)
(* sequence of launches: in particular a count never needs its clamp.      *)
THEOREM RecordsStayConsistent == Spec => []RecordsConsistent
<1>1. IInv => RecordsConsistent
  BY DEF IInv
<1> QED BY <1>1, Invariance, PTL

(***************************************************************************)
(* A game leaves the table only as the record copied out of a table with   *)
(* no blank slot, and no other record had been launched less ("the least   *)
(* used entry will be taken out to make space").                           *)
(***************************************************************************)
THEOREM OnlyTheLeastUsedLeaves == Spec => VictimIsLeastUsed
<1>1. IInv /\ [Next]_tableVars => [OnlyLeastUsedLeaves]_tableVars
  <2> SUFFICES ASSUME IInv, Next, NEW i \in Slots,
                      entries[i].name # Blank,
                      \A j \in Slots : entries'[j].name # entries[i].name
               PROVE  /\ tooMany' /\ old' = entries[i]
                      /\ BlankSlots(entries) = {}
                      /\ \A j \in Slots : entries[i].count <= entries[j].count
    BY DEF OnlyLeastUsedLeaves, tableVars
  <2>1. PICK n \in Names, d \in Dates : InsertRecord(n, d)
    <3>1. PICK n \in Names, d \in Dates : AddHistoryRecord(n, d)
      BY DEF Next
    <3>2. ~ UpdateRecord(n, d)
      BY UpdateKeeps
    <3>3. ~ RefuseRecord(n)
      BY DEF RefuseRecord
    <3> QED BY <3>1, <3>2, <3>3 DEF AddHistoryRecord
  <2>2. PICK k \in Slots :
          /\ entries' = [entries EXCEPT ![k] = NewRecord(n, d)]
          /\ \/ entries[k].name = Blank
             \/ /\ BlankSlots(entries) = {}
                /\ tooMany' = TRUE
                /\ old' = entries[k]
                /\ \A j \in Slots : entries[k].count <= entries[j].count
    BY <2>1, InsertReplaces
  <2>3. i = k
    <3>1. i # k => entries'[i] = entries[i]
      BY <2>2 DEF IInv, TypeOK, Tables
    <3> QED BY <3>1
  <2> QED BY <2>2, <2>3
<1> QED BY <1>1, Invariance, PTL DEF Spec, VictimIsLeastUsed

(* While a game keeps its record, its count, mask and pinning only grow.   *)
THEOREM RecordsGrow == Spec => RecordsOnlyGrow
<1>1. IInv /\ [Next]_tableVars => [KeptRecordsGrow]_tableVars
  <2> SUFFICES ASSUME IInv, Next, NEW i \in Slots,
                      entries[i].name # Blank, entries'[i].name = entries[i].name
               PROVE  /\ entries'[i].count >= entries[i].count
                      /\ entries[i].mask \subseteq entries'[i].mask
                      /\ entries[i].shift = Pinned => entries'[i].shift = Pinned
    BY DEF KeptRecordsGrow, tableVars
  <2>1. PICK n \in Names, d \in Dates : AddHistoryRecord(n, d)
    BY DEF Next
  <2>2. CASE UpdateRecord(n, d)
    BY <2>2, UpdateKeeps
  <2>3. CASE entries'[i] = entries[i]
    <3>1. entries[i].count \in Nat
      BY CountAssumption DEF IInv, TypeOK, Tables, Records
    <3> QED BY <2>3, <3>1
  <2>4. CASE InsertRecord(n, d)
    <3>1. PICK k \in Slots :
            /\ entries' = [entries EXCEPT ![k] = NewRecord(n, d)]
            /\ entries[i].name # n
      BY <2>4, InsertReplaces
    <3>2. i # k
      <4>1. i = k => entries'[i].name = n
        BY <3>1 DEF IInv, TypeOK, Tables, NewRecord
      <4> QED BY <4>1, <3>1
    <3>3. entries'[i] = entries[i]
      BY <3>1, <3>2 DEF IInv, TypeOK, Tables
    <3> QED BY <3>3, <2>3
  <2>5. CASE RefuseRecord(n)
    BY <2>5, <2>3 DEF RefuseRecord
  <2> QED BY <2>1, <2>2, <2>4, <2>5 DEF AddHistoryRecord
<1> QED BY <1>1, Invariance, PTL DEF Spec, RecordsOnlyGrow

(* After a launch that took a record out, its game is gone from the table, *)
(* which is full, and the record kept for history.old was one in use.      *)
THEOREM ExiledStaysGone == Spec => []ExiledIsGone
<1>1. Init => ExiledIsGone
  BY DEF Init, ExiledIsGone
<1>2. IInv /\ ExiledIsGone /\ [Next]_tableVars => ExiledIsGone'
  <2> SUFFICES ASSUME IInv, ExiledIsGone, [Next]_tableVars, tooMany'
               PROVE  /\ \A i \in Slots : entries'[i].name # old'.name
                      /\ \A i \in Slots : entries'[i].name # Blank
                      /\ old'.name \in Names
    BY DEF ExiledIsGone, Matches, BlankSlots
  <2>1. CASE UNCHANGED tableVars
    BY <2>1 DEF tableVars, ExiledIsGone, Matches, BlankSlots
  <2>2. CASE Next
    <3>1. PICK n \in Names, d \in Dates : InsertRecord(n, d)
      BY <2>2 DEF Next, AddHistoryRecord, UpdateRecord, RefuseRecord
    <3>2. PICK k \in Slots :
            /\ entries' = [entries EXCEPT ![k] = NewRecord(n, d)]
            /\ \A i \in Slots : entries[i].name # n
            /\ BlankSlots(entries) = {}
            /\ old' = entries[k]
      BY <3>1, InsertReplaces
    <3>3. /\ entries'[k].name = n
          /\ \A i \in Slots : i # k => entries'[i] = entries[i]
      BY <3>2 DEF IInv, TypeOK, Tables, NewRecord
    <3>4. \A i \in Slots : entries[i].name # Blank
      BY <3>2 DEF BlankSlots
    <3>5. \A i \in Slots : i # k => entries[i].name # entries[k].name
      BY <3>4 DEF IInv, UniqueNames
    <3>6. n # Blank /\ entries[k].name \in Names
      BY <3>4, NamesAssumption DEF IInv, TypeOK, Tables, Records
    <3> QED BY <3>2, <3>3, <3>4, <3>5, <3>6
  <2> QED BY <2>1, <2>2
<1> QED BY <1>1, <1>2, Invariance, PTL DEF Spec

-----------------------------------------------------------------------------
(* What the count says about the mask, and the program's own numbers.      *)

(* One bit for the first launch and one for each milestone, up to all.     *)
BitsAt(n) == IF Reached(n) < NumBits THEN Reached(n) + 1 ELSE NumBits

(***************************************************************************)
(* How many bits a game has is a function of how often it was launched: in *)
(* the program a second one from the fourteenth launch on, then one more   *)
(* every ten, and all six from the 54th.                                   *)
(***************************************************************************)
THEOREM BitsFollowTheCount ==
  Spec => [](\A i \in Slots : entries[i].name # Blank =>
                Cardinality(entries[i].mask) = BitsAt(entries[i].count))
<1>1. IInv => \A i \in Slots : entries[i].name # Blank =>
                 Cardinality(entries[i].mask) = BitsAt(entries[i].count)
  <2> SUFFICES ASSUME IInv, NEW i \in Slots, entries[i].name # Blank
               PROVE  Cardinality(entries[i].mask) = BitsAt(entries[i].count)
    OBVIOUS
  <2> DEFINE e == entries[i]
  <2>1. e \in Records /\ ConsistentRecord(e)
    BY DEF IInv, TypeOK, Tables, RecordsConsistent
  <2> HIDE DEF e
  <2>2. e.count \in Nat /\ Passed(e.count) = Reached(e.count) /\ Reached(e.count) \in Nat
    <3>1. e.count \in Nat
      BY <2>1, CountAssumption DEF Records
    <3> QED BY <3>1, PassedIsReached, ReachedStep
  <2>3. CASE e.mask = Bits
    <3>1. Cardinality(e.mask) = NumBits /\ Reached(e.count) >= NumBits - 1
      BY <2>1, <2>2, <2>3, BitsFinite DEF ConsistentRecord
    <3> QED BY <2>2, <3>1, SizeAssumption DEF BitsAt, e
  <2>4. CASE e.mask # Bits
    <3>1. Cardinality(e.mask) = 1 + Reached(e.count) /\ Cardinality(e.mask) < NumBits
      BY <2>1, <2>2, <2>4, RoomToGrow DEF ConsistentRecord
    <3> QED BY <2>2, <3>1, SizeAssumption DEF BitsAt, e
  <2> QED BY <2>3, <2>4
<1> QED BY <1>1, Invariance, PTL

(***************************************************************************)
(* The numbers of OSDHistory.h and AddHistoryRecord satisfy the            *)
(* assumptions that the theorems about the table rest on.                  *)
(***************************************************************************)
THEOREM ProgramIsCovered ==
  ASSUME MaxEntries = 21, NumBits = 6, FullMask = 63,
         FirstMilestone = 14, MilestoneStep = 10, CountClamp = 127
  PROVE  /\ MaxEntries \in Nat \ {0} /\ NumBits \in Nat \ {0}
         /\ FirstMilestone \in Nat \ {0, 1} /\ MilestoneStep \in Nat \ {0}
         /\ FullMask \in Nat \ {0} /\ CountClamp \in Nat /\ FullMask < CountClamp
         /\ Passed(FullMask) >= NumBits - 1
<1>1. {m \in 1 .. 63 : IsMilestone(m)} = {14, 24, 34, 44} \cup {54}
  BY DEF IsMilestone
<1>2. IsFiniteSet({14}) /\ Cardinality({14}) = 1
  BY FS_Singleton
<1>3. {14} \cup {24} = {14, 24} /\ {14, 24} \cup {34} = {14, 24, 34}
      /\ {14, 24, 34} \cup {44} = {14, 24, 34, 44}
  OBVIOUS
<1>4. IsFiniteSet({14, 24}) /\ Cardinality({14, 24}) = 2
  <2>1. 24 \notin {14}
    OBVIOUS
  <2> QED BY <1>2, <1>3, <2>1, FS_AddElement
<1>5. IsFiniteSet({14, 24, 34}) /\ Cardinality({14, 24, 34}) = 3
  <2>1. 34 \notin {14, 24}
    OBVIOUS
  <2> QED BY <1>4, <1>3, <2>1, FS_AddElement
<1>6. IsFiniteSet({14, 24, 34, 44}) /\ Cardinality({14, 24, 34, 44}) = 4
  <2>1. 44 \notin {14, 24, 34}
    OBVIOUS
  <2> QED BY <1>5, <1>3, <2>1, FS_AddElement
<1>7. Cardinality({14, 24, 34, 44} \cup {54}) = 5
  <2>1. 54 \notin {14, 24, 34, 44}
    OBVIOUS
  <2> QED BY <1>6, <2>1, FS_AddElement
<1>8. Passed(63) = 5
  BY <1>1, <1>7 DEF Passed
<1> QED BY <1>8

=============================================================================
