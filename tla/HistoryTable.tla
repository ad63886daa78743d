---------------------------- MODULE HistoryTable ----------------------------
(***************************************************************************)
(* The play history: the table of MAX_HISTORY_ENTRIES records that the     *)
(* console's browser and this boot loader keep on a memory card, and what  *)
(* one launch of a game does to it (AddHistoryRecord in OSDHistory.c).     *)
(*                                                                         *)
(* The specification of this module is the life of a table that is loaded  *)
(* and saved without loss: it starts wiped and every step is one launch.   *)
(* HistorySave puts the table on memory cards that fail.                   *)
(*                                                                         *)
(* Abstractions: a name is a model value that stands for the sixteen       *)
(* compared characters; the bitmask byte is the set of its one bits; a     *)
(* date stamp is a natural number, ordered as the code orders it; rand()   *)
(* may return anything.                                                    *)
(***************************************************************************)
EXTENDS Integers, FiniteSets, FiniteSetsExt

CONSTANTS
  Names,           \* game IDs that can be launched
  Blank,           \* a name whose first character is '\0'
  Dates,           \* date stamps the real-time clock can produce
  MaxEntries,      \* MAX_HISTORY_ENTRIES, 21
  NumBits,         \* bits of the mask a launch can set, 6
  FullMask,        \* value of a mask with every such bit set, 0x3F
  FirstMilestone,  \* launch count that sets the second bit, 14
  MilestoneStep,   \* launches between two further bits, 10
  CountClamp       \* largest launch count the code stores, 0x7F

Slots == 0 .. MaxEntries - 1
Bits  == 0 .. NumBits - 1

(***************************************************************************)
(* ShiftAmount of a record whose mask is full and whose count has reached  *)
(* FullMask: the record is never replaced by the count of blank slots.     *)
(***************************************************************************)
Pinned == NumBits + 1

Records == [name : Names \cup {Blank}, count : 0 .. CountClamp,
            mask : SUBSET Bits, shift : Bits \cup {Pinned},
            date : Dates \cup {0}]

Wiped  == [name |-> Blank, count |-> 0, mask |-> {}, shift |-> 0, date |-> 0]
Tables == [Slots -> Records]

(* A launch that brings the count to n sets one more bit of the mask. *)
IsMilestone(n) == n >= FirstMilestone /\ (n - FirstMilestone) % MilestoneStep = 0

(* How many launches among the first n were milestones. *)
Passed(n) == Cardinality({m \in 1 .. n : IsMilestone(m)})

ASSUME NamesAssumption == Blank \notin Names
ASSUME DatesAssumption == Dates \subseteq Nat
ASSUME SizeAssumption  == MaxEntries \in Nat \ {0} /\ NumBits \in Nat \ {0}
ASSUME CountAssumption ==
  /\ FirstMilestone \in Nat \ {0, 1}
  /\ MilestoneStep \in Nat \ {0}
  /\ FullMask \in Nat \ {0} /\ CountClamp \in Nat /\ FullMask < CountClamp
(* The bits run out before the count reaches FullMask: with the program's  *)
(* numbers the counts 14, 24, 34, 44 and 54 fill the five bits left.       *)
ASSUME MilestoneAssumption == Passed(FullMask) >= NumBits - 1

VARIABLES
  entries,   \* HistoryEntries
  old,       \* OldHistoryEntry, the last record taken out
  tooMany    \* HasTooManyHistoryRecords

tableVars == <<entries, old, tooMany>>

-----------------------------------------------------------------------------

(***************************************************************************)
(* The record a full table gives up.  The code scans once, keeping the     *)
(* lowest count so far and the earliest date stamp met at such a lowest    *)
(* count; the stamp is not reset when a lower count is found.              *)
(***************************************************************************)
RunningMinima(t) == {i \in Slots : \A j \in 0 .. i - 1 : t[i].count <= t[j].count}

LeastUsedUpdates(t) ==
  {i \in RunningMinima(t) :
     \/ \A j \in 0 .. i - 1 : t[i].count < t[j].count
     \/ \A j \in RunningMinima(t) : j < i => t[i].date < t[j].date}

(* Mutant: the scan keeps the first candidate instead of the last.         *)
LeastUsedRecordFirst(t) == Min(LeastUsedUpdates(t))

LeastUsedRecord(t) == Max(LeastUsedUpdates(t))

(***************************************************************************)
(* A record whose game is launched once more; v is the value of            *)
(* rand() % 6 that ends the search for a bit that is still clear.          *)
(***************************************************************************)
NextCount(e) == IF e.count + 1 > CountClamp THEN CountClamp ELSE e.count + 1

(* Mutants: the bound of v1.0x, 0x40; no bound.                            *)
FullRelaunched(e, d, bound) ==
  IF e.count < bound THEN [e EXCEPT !.date = d, !.count = @ + 1]
                     ELSE [e EXCEPT !.date = d, !.count = FullMask, !.shift = Pinned]

RelaunchedV10(e, d, v) ==
  IF e.mask = Bits THEN FullRelaunched(e, d, FullMask + 1)
  ELSE [e EXCEPT !.date = d, !.count = @ + 1,
                 !.mask = IF IsMilestone(e.count + 1) THEN @ \cup {v} ELSE @,
                 !.shift = IF IsMilestone(e.count + 1) THEN v ELSE @]

RelaunchedUnbounded(e, d, v) ==
  IF e.mask = Bits THEN [e EXCEPT !.date = d, !.count = @ + 1]
                   ELSE RelaunchedV10(e, d, v)

Relaunched(e, d, v) ==
  IF e.mask # Bits
  THEN IF IsMilestone(NextCount(e))
       THEN [e EXCEPT !.date = d, !.count = NextCount(e),
                      !.mask = @ \cup {v}, !.shift = v]
       ELSE [e EXCEPT !.date = d, !.count = NextCount(e)]
  ELSE IF e.count < FullMask
       THEN [e EXCEPT !.date = d, !.count = @ + 1]
       ELSE [e EXCEPT !.date = d, !.count = FullMask, !.shift = Pinned]

(* Mutant: a new record starts with no bit set.                            *)
NewRecordNoBit(n, d) == [name |-> n, count |-> 1, mask |-> {}, shift |-> 0, date |-> d]

NewRecord(n, d) == [name |-> n, count |-> 1, mask |-> {0}, shift |-> 0, date |-> d]

(* Mutant: the scan misses the first slot.                                 *)
MatchesFromOne(t, n) == {i \in Slots \ {0} : t[i].name = n}

Matches(t, n) == {i \in Slots : t[i].name = n}
BlankSlots(t) == {i \in Slots : t[i].name = Blank}
AllPinned(t)  == \A i \in Slots : t[i].name # Blank /\ t[i].shift = Pinned

(***************************************************************************)
(* AddHistoryRecord, by the three things it can do.                        *)
(***************************************************************************)
UpdateRecord(n, d) ==
  /\ Matches(entries, n) # {}
  /\ \E pick \in [Matches(entries, n) -> Bits] :
       /\ \A i \in DOMAIN pick :
            entries[i].mask # Bits => pick[i] \notin entries[i].mask
       /\ entries' = [i \in Slots |-> IF i \in DOMAIN pick
                                      THEN Relaunched(entries[i], d, pick[i])
                                      ELSE entries[i]]
  /\ tooMany' = FALSE
  /\ UNCHANGED old

(* Mutant: the victim is copied out after its slot was initialised.        *)
InsertRecordCopiesLate(n, d) ==
  /\ Matches(entries, n) = {}
  /\ ~AllPinned(entries)
  /\ \E i \in IF BlankSlots(entries) # {} THEN BlankSlots(entries)
                                          ELSE {LeastUsedRecord(entries)} :
       /\ entries' = [entries EXCEPT ![i] = NewRecord(n, d)]
       /\ old' = IF BlankSlots(entries) # {} THEN old ELSE entries'[i]
  /\ tooMany' = (BlankSlots(entries) = {})

InsertRecord(n, d) ==
  /\ Matches(entries, n) = {}
  /\ ~AllPinned(entries)
  /\ \/ /\ \E i \in BlankSlots(entries) :
             entries' = [entries EXCEPT ![i] = NewRecord(n, d)]
        /\ tooMany' = FALSE
        /\ UNCHANGED old
     \/ /\ BlankSlots(entries) = {}
        /\ LET i == LeastUsedRecord(entries) IN
             /\ entries' = [entries EXCEPT ![i] = NewRecord(n, d)]
             /\ old' = entries[i]
        /\ tooMany' = TRUE

RefuseRecord(n) ==
  /\ Matches(entries, n) = {}
  /\ AllPinned(entries)
  /\ tooMany' = FALSE
  /\ UNCHANGED <<entries, old>>

AddHistoryRecord(n, d) ==
  UpdateRecord(n, d) \/ InsertRecord(n, d) \/ RefuseRecord(n)

-----------------------------------------------------------------------------

Init == entries = [i \in Slots |-> Wiped] /\ old = Wiped /\ tooMany = FALSE

Next == \E n \in Names, d \in Dates : AddHistoryRecord(n, d)

Spec == Init /\ [][Next]_tableVars

-----------------------------------------------------------------------------

(* The variables hold what the structure of the source can hold.           *)
TypeOK ==
  /\ entries \in Tables
  /\ old \in Records
  /\ tooMany \in BOOLEAN

(***************************************************************************)
(* A game has at most one record: AddHistoryRecord would update every      *)
(* record of that name, and inserts one only if the scan found none.       *)
(***************************************************************************)
UniqueNames ==
  \A i, j \in Slots :
    entries[i].name # Blank /\ entries[i].name = entries[j].name => i = j

(***************************************************************************)
(* The four bytes of a record agree, whatever the order of the launches:   *)
(* until the mask is full it has one bit more than the count has passed    *)
(* milestones; only a record with a full mask and a count of FullMask is   *)
(* pinned; the count stops at FullMask, so that the clamp to CountClamp    *)
(* and the loop that looks for a clear bit never get in each other's way.  *)
(***************************************************************************)
ConsistentRecord(e) ==
  /\ e.count \in 1 .. FullMask
  /\ 0 \in e.mask
  /\ e.mask # Bits => Cardinality(e.mask) = 1 + Passed(e.count)
  /\ e.mask = Bits => Passed(e.count) >= NumBits - 1
  /\ IF e.shift = Pinned THEN e.mask = Bits /\ e.count = FullMask
                         ELSE e.shift \in e.mask

RecordsConsistent ==
  \A i \in Slots : IF entries[i].name = Blank THEN entries[i] = Wiped
                                              ELSE ConsistentRecord(entries[i])

(***************************************************************************)
(* After a launch that took a record out, that game is gone from the table *)
(* and the record kept for history.old is one that had been in use.        *)
(***************************************************************************)
ExiledIsGone ==
  tooMany => /\ Matches(entries, old.name) = {}
             /\ BlankSlots(entries) = {}
             /\ old.name \in Names

(***************************************************************************)
(* A game disappears from the table only as the one record that was copied *)
(* out, only when no slot was blank, and only if no record had been        *)
(* launched less: "the least used entry will be taken out to make space".  *)
(***************************************************************************)
OnlyLeastUsedLeaves ==
  \A i \in Slots :
    entries[i].name # Blank /\ (\A j \in Slots : entries'[j].name # entries[i].name) =>
      /\ tooMany' /\ old' = entries[i]
      /\ BlankSlots(entries) = {}
      /\ \A j \in Slots : entries[i].count <= entries[j].count

VictimIsLeastUsed == [][OnlyLeastUsedLeaves]_tableVars

(***************************************************************************)
(* While a game keeps its record, a launch never lowers its count nor      *)
(* clears a bit of its mask, and never undoes the pinning.                 *)
(***************************************************************************)
KeptRecordsGrow ==
  \A i \in Slots :
    entries[i].name # Blank /\ entries'[i].name = entries[i].name =>
      /\ entries'[i].count >= entries[i].count
      /\ entries[i].mask \subseteq entries'[i].mask
      /\ entries[i].shift = Pinned => entries'[i].shift = Pinned

RecordsOnlyGrow == [][KeptRecordsGrow]_tableVars

=============================================================================
