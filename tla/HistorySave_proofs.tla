------------------------ MODULE HistorySave_proofs ------------------------
(***************************************************************************)
(* For a table of any size, any cards and any number of failures: what is  *)
(* on the cards, and that they implement the table.                        *)
(***************************************************************************)
EXTENDS HistorySave, Extremes, FiniteSetTheorems, TLAPS

-----------------------------------------------------------------------------
(* A launch, in a table whose records need not be consistent.              *)

(* Any field of a record can be replaced by another of its values.         *)
LEMMA FieldReplaced ==
  ASSUME NEW e \in Table!Records
  PROVE  /\ \A d \in Dates : [e EXCEPT !.date = d] \in Table!Records
         /\ \A c \in 0 .. CountClamp : [e EXCEPT !.count = c] \in Table!Records
         /\ \A m \in SUBSET Table!Bits : [e EXCEPT !.mask = m] \in Table!Records
         /\ \A s \in Table!Bits \cup {Table!Pinned} : [e EXCEPT !.shift = s] \in Table!Records
<1>1. \A d \in Dates : [e EXCEPT !.date = d] \in Table!Records
  BY DEF Table!Records
<1>2. \A c \in 0 .. CountClamp : [e EXCEPT !.count = c] \in Table!Records
  BY DEF Table!Records
<1>3. \A m \in SUBSET Table!Bits : [e EXCEPT !.mask = m] \in Table!Records
  BY DEF Table!Records
<1>4. \A s \in Table!Bits \cup {Table!Pinned} : [e EXCEPT !.shift = s] \in Table!Records
  BY DEF Table!Records
<1> QED BY <1>1, <1>2, <1>3, <1>4

LEMMA RelaunchedTyped ==
  ASSUME NEW e \in Table!Records, NEW d \in Dates, NEW v \in Table!Bits
  PROVE  Table!Relaunched(e, d, v) \in Table!Records /\ Table!Relaunched(e, d, v).name = e.name
<1> DEFINE a == [e EXCEPT !.date = d]
           with(c) == [a EXCEPT !.count = c]
           r == Table!Relaunched(e, d, v)
<1>1. e.count \in 0 .. CountClamp /\ e.mask \in SUBSET Table!Bits /\ CountClamp \in Nat
      /\ FullMask \in 0 .. CountClamp /\ (e.count < FullMask => e.count + 1 \in 0 .. CountClamp)
  BY TableAssumption DEF Table!Records
<1>2. a \in Table!Records /\ a.name = e.name /\ a.mask = e.mask
  BY FieldReplaced DEF Table!Records
<1>3. Table!NextCount(e) \in 0 .. CountClamp
  BY <1>1 DEF Table!NextCount
<1>4. ASSUME NEW c \in 0 .. CountClamp
      PROVE  with(c) \in Table!Records /\ with(c).name = e.name /\ with(c).mask = e.mask
  <2> HIDE DEF a
  <2> QED BY <1>2, FieldReplaced DEF Table!Records
<1>5. ASSUME NEW b \in Table!Records, b.name = e.name, NEW s \in Table!Bits \cup {Table!Pinned}
      PROVE  [b EXCEPT !.shift = s] \in Table!Records /\ [b EXCEPT !.shift = s].name = e.name
  BY <1>5, FieldReplaced DEF Table!Records
<1>6. CASE e.mask # Table!Bits /\ Table!IsMilestone(Table!NextCount(e))
  <2> DEFINE b == with(Table!NextCount(e))
             g == [b EXCEPT !.mask = e.mask \cup {v}]
  <2>1. b \in Table!Records /\ b.name = e.name
    BY <1>3, <1>4
  <2>2. g \in Table!Records /\ g.name = e.name
    <3>1. e.mask \cup {v} \in SUBSET Table!Bits
      BY <1>1
    <3> HIDE DEF b
    <3> QED BY <2>1, <3>1, FieldReplaced DEF Table!Records
  <2>3. r = [g EXCEPT !.shift = v]
    BY <1>6 DEF Table!Relaunched
  <2> HIDE DEF g, r
  <2>4. r \in Table!Records /\ r.name = e.name
    BY <1>5, <2>2, <2>3
  <2> QED BY <2>4 DEF r
<1>7. CASE e.mask # Table!Bits /\ ~ Table!IsMilestone(Table!NextCount(e))
  <2>1. r = with(Table!NextCount(e))
    BY <1>7 DEF Table!Relaunched
  <2> QED BY <1>3, <1>4, <2>1
<1>8. CASE e.mask = Table!Bits /\ e.count < FullMask
  <2>1. r = with(e.count + 1)
    BY <1>8 DEF Table!Relaunched
  <2> QED BY <1>1, <1>4, <1>8, <2>1
<1>9. CASE e.mask = Table!Bits /\ ~ (e.count < FullMask)
  <2> DEFINE b == with(FullMask)
  <2>1. b \in Table!Records /\ b.name = e.name
    BY <1>1, <1>4
  <2>2. r = [b EXCEPT !.shift = Table!Pinned]
    BY <1>9 DEF Table!Relaunched
  <2> HIDE DEF b, r
  <2>3. r \in Table!Records /\ r.name = e.name
    BY <1>5, <2>1, <2>2
  <2> QED BY <2>3 DEF r
<1> QED BY <1>6, <1>7, <1>8, <1>9

LEMMA NewTyped ==
  ASSUME NEW n \in Names, NEW d \in Dates
  PROVE  Table!NewRecord(n, d) \in Table!Records
<1>1. 0 \in Table!Bits /\ {0} \in SUBSET Table!Bits /\ 1 \in 0 .. CountClamp
  BY TableAssumption DEF Table!Bits
<1> QED BY <1>1 DEF Table!NewRecord, Table!Records

(* The scan of a table finds one of its slots.                             *)
LEMMA LeastUsedIsSlot ==
  ASSUME NEW t
  PROVE  Table!LeastUsedRecord(t) \in Table!Slots
<1> DEFINE U == Table!LeastUsedUpdates(t)
<1>1. MaxEntries - 1 \in Nat /\ U \in SUBSET (0 .. MaxEntries - 1)
  BY TableAssumption DEF Table!LeastUsedUpdates, Table!RunningMinima, Table!Slots
<1>2. 0 \in U
  BY TableAssumption DEF Table!LeastUsedUpdates, Table!RunningMinima, Table!Slots
<1>3. Max(U) \in U
  BY <1>1, <1>2, GreatestElement
<1>4. Table!LeastUsedRecord(t) = Max(U)
  BY DEF Table!LeastUsedRecord, Table!Max, Max
<1> QED BY <1>1, <1>3, <1>4 DEF Table!Slots

(* A launch keeps every game in the table but the one it takes out.        *)
LEMMA AddKeeps ==
  ASSUME entries \in Table!Tables, old \in Table!Records,
         NEW n \in Names, NEW d \in Dates, Table!AddHistoryRecord(n, d)
  PROVE  /\ entries' \in Table!Tables /\ old' \in Table!Records /\ tooMany' \in BOOLEAN
         /\ \A m \in Names : Table!Matches(entries, m) # {} =>
              Table!Matches(entries', m) # {} \/ (tooMany' /\ old'.name = m)
<1>0. \A i \in Table!Slots : entries[i] \in Table!Records
  BY DEF Table!Tables
<1>1. CASE Table!UpdateRecord(n, d)
  <2>1. PICK pick \in [Table!Matches(entries, n) -> Table!Bits] :
          entries' = [i \in Table!Slots |-> IF i \in DOMAIN pick
                                            THEN Table!Relaunched(entries[i], d, pick[i])
                                            ELSE entries[i]]
    BY <1>1 DEF Table!UpdateRecord
  <2>2. \A i \in Table!Slots : entries'[i] \in Table!Records /\ entries'[i].name = entries[i].name
    <3> TAKE i \in Table!Slots
    <3>1. CASE i \in DOMAIN pick
      <4>1. entries'[i] = Table!Relaunched(entries[i], d, pick[i]) /\ pick[i] \in Table!Bits
        BY <2>1, <3>1
      <4> QED BY <1>0, <4>1, RelaunchedTyped
    <3>2. CASE i \notin DOMAIN pick
      <4>1. entries'[i] = entries[i]
        BY <2>1, <3>2
      <4> QED BY <1>0, <4>1
    <3> QED BY <3>1, <3>2
  <2>3. entries' = [i \in Table!Slots |-> entries'[i]]
    BY <2>1
  <2>4. entries' \in Table!Tables
    BY <2>2, <2>3 DEF Table!Tables
  <2>5. tooMany' = FALSE /\ old' = old
    BY <1>1 DEF Table!UpdateRecord
  <2> QED BY <2>2, <2>4, <2>5 DEF Table!Matches
<1>2. CASE Table!InsertRecord(n, d)
  <2>1. PICK i \in Table!Slots :
          /\ entries' = [entries EXCEPT ![i] = Table!NewRecord(n, d)]
          /\ \/ entries[i].name = Blank /\ tooMany' = FALSE /\ old' = old
             \/ tooMany' = TRUE /\ old' = entries[i]
    BY <1>2, LeastUsedIsSlot DEF Table!InsertRecord, Table!BlankSlots
  <2>2. Table!NewRecord(n, d) \in Table!Records
    BY NewTyped
  <2>3. entries' \in Table!Tables
    BY <2>1, <2>2 DEF Table!Tables
  <2>4. \A k \in Table!Slots : k # i => entries'[k] = entries[k]
    BY <2>1 DEF Table!Tables
  <2>5. ASSUME NEW m \in Names, Table!Matches(entries, m) # {}
        PROVE  Table!Matches(entries', m) # {} \/ (tooMany' /\ old'.name = m)
    <3>1. PICK k \in Table!Slots : entries[k].name = m
      BY <2>5 DEF Table!Matches
    <3>2. m # Blank
      BY TableAssumption
    <3>3. CASE k # i
      BY <2>4, <3>1, <3>3 DEF Table!Matches
    <3>4. CASE k = i
      BY <2>1, <3>1, <3>2, <3>4
    <3> QED BY <3>3, <3>4
  <2> QED BY <1>0, <2>1, <2>3, <2>5
<1>3. CASE Table!RefuseRecord(n)
  BY <1>3 DEF Table!RefuseRecord
<1> QED BY <1>1, <1>2, <1>3 DEF Table!AddHistoryRecord

-----------------------------------------------------------------------------
(* The types.                                                              *)

LEMMA TablesAreFiles ==
  /\ Table!Tables \subseteq Files /\ Slots = Table!Slots
  /\ \A t \in Table!Tables : Whole(t)
  /\ << >> \in Files /\ WipedTable \in Table!Tables
<1>1. Slots = Table!Slots /\ MaxEntries \in 0 .. MaxEntries /\ 0 \in 0 .. MaxEntries
  BY TableAssumption DEF Slots, Table!Slots
<1>2. Table!Tables \subseteq Files
  BY <1>1 DEF Files, Table!Tables, Table!Slots
<1>3. \A t \in Table!Tables : Whole(t)
  BY <1>1, FileAssumption DEF Whole, Table!Tables
<1>4. << >> \in [0 .. 0 - 1 -> Table!Records]
  OBVIOUS
<1>5. << >> \in Files
  BY <1>1, <1>4 DEF Files
<1>6. Table!Wiped \in Table!Records
  BY TableAssumption DEF Table!Wiped, Table!Records, Table!Bits
<1> QED BY <1>1, <1>2, <1>3, <1>5, <1>6 DEF WipedTable, Table!Tables

(* A whole file is a table.                                                *)
LEMMA WholeIsTable ==
  ASSUME NEW f \in Files, Whole(f)
  PROVE  f \in Table!Tables
<1>1. PICK k \in 0 .. MaxEntries : f \in [0 .. k - 1 -> Table!Records]
  BY DEF Files, Whole
<1>2. DOMAIN f = Slots
  BY DEF Whole
<1> QED BY <1>1, <1>2, TablesAreFiles DEF Table!Tables

LEMMA PrefixesTyped ==
  ASSUME NEW t \in Table!Tables
  PROVE  Prefixes(t) \subseteq Files
<1> SUFFICES ASSUME NEW k \in 0 .. MaxEntries - 1
             PROVE  [i \in 0 .. k - 1 |-> t[i]] \in Files
  BY DEF Prefixes
<1>1. \A i \in 0 .. k - 1 : t[i] \in Table!Records
  BY TableAssumption DEF Table!Tables, Table!Slots
<1>2. [i \in 0 .. k - 1 |-> t[i]] \in [0 .. k - 1 -> Table!Records] /\ k \in 0 .. MaxEntries
  BY <1>1, TableAssumption
<1> QED BY <1>2 DEF Files

(* What a read leaves in memory, however short, is a table.                *)
LEMMA FileLength ==
  ASSUME NEW f \in Files, f # NoFile
  PROVE  \E n \in 0 .. MaxEntries : f \in [0 .. n - 1 -> Table!Records] /\ Cardinality(DOMAIN f) = n
<1>1. PICK n \in 0 .. MaxEntries : f \in [0 .. n - 1 -> Table!Records]
  BY DEF Files
<1>2. Cardinality(DOMAIN f) = n
  <2>1. DOMAIN f = 0 .. n - 1 /\ n \in Nat
    BY <1>1, TableAssumption
  <2> QED BY <2>1, FS_Interval
<1> QED BY <1>1, <1>2

LEMMA OverlaidTyped ==
  ASSUME NEW t \in Table!Tables, NEW f \in Files, f # NoFile, NEW k \in Int, k <= Cardinality(DOMAIN f)
  PROVE  Overlaid(t, f, k) \in Table!Tables
<1>1. PICK n \in 0 .. MaxEntries : f \in [0 .. n - 1 -> Table!Records] /\ Cardinality(DOMAIN f) = n
  BY FileLength
<1>2. \A i \in Table!Slots : (IF i < k THEN f[i] ELSE t[i]) \in Table!Records
  BY <1>1, TableAssumption DEF Table!Slots, Table!Tables
<1> QED BY <1>2, TablesAreFiles DEF Overlaid, Table!Tables

LEMMA ReadsTyped == TypeOK => ShortReads \cup FailedReads \subseteq Table!Tables
<1> SUFFICES ASSUME TypeOK, NEW t \in ShortReads \cup FailedReads PROVE t \in Table!Tables
  OBVIOUS
<1> DEFINE f == card[port].history
           n == Cardinality(DOMAIN f)
<1>1. f \in Files /\ entries \in Table!Tables
  BY DEF TypeOK, Cards
<1>2. CASE t = entries
  BY <1>1, <1>2
<1>3. CASE t # entries
  <2>1. f # NoFile /\ (t = Overlaid(entries, f, n)
                       \/ \E k \in 0 .. Min({MaxEntries - 1, n}) : t = Overlaid(entries, f, k))
    BY <1>3 DEF ShortReads, FailedReads
  <2>2. n \in Nat /\ MaxEntries - 1 \in Nat
    BY <1>1, <2>1, FileLength, TableAssumption
  <2> HIDE DEF n
  <2>3. Min({MaxEntries - 1, n}) <= n
    BY <2>2, MinIsLeast
  <2>4. PICK k \in Int : k <= n /\ t = Overlaid(entries, f, k)
    <3>1. Min({MaxEntries - 1, n}) \in Int
      BY <2>2, MinIsLeast
    <3> QED BY <2>1, <2>2, <2>3, <3>1
  <2> QED BY <1>1, <2>1, <2>4, OverlaidTyped DEF n
<1> QED BY <1>2, <1>3

(* Writing one field of one card.                                          *)
LEMMA SetFileSets ==
  ASSUME card \in [Ports -> Cards], port \in Ports, NEW f \in Files, SetFile(f)
  PROVE  /\ card' \in [Ports -> Cards]
         /\ card'[port].history = f
         /\ \A p \in Ports : /\ card'[p].kind = card[p].kind /\ card'[p].folder = card[p].folder
                             /\ card'[p].archive = card[p].archive /\ card'[p].icon = card[p].icon
                             /\ p # port => card'[p] = card[p]
<1>1. [card[port] EXCEPT !.history = f] \in Cards /\ card[port] \in Cards
  BY DEF Cards
<1>2. card' = [card EXCEPT ![port] = [card[port] EXCEPT !.history = f]]
  BY DEF SetFile
<1>3. card' \in [Ports -> Cards]
  BY <1>1, <1>2
<1>4. card'[port] = [card[port] EXCEPT !.history = f] /\ \A p \in Ports : p # port => card'[p] = card[p]
  BY <1>2
<1> QED BY <1>1, <1>3, <1>4 DEF Cards

LEMMA MarkSets ==
  ASSUME card \in [Ports -> Cards], port \in Ports,
         \/ card' = [card EXCEPT ![port].folder = TRUE]
         \/ \E a \in SUBSET Table!Records : card' = [card EXCEPT ![port].archive = a]
         \/ \E i \in {"empty", "written"} : card' = [card EXCEPT ![port].icon = i]
  PROVE  /\ card' \in [Ports -> Cards]
         /\ \A p \in Ports : /\ card'[p].kind = card[p].kind /\ card'[p].history = card[p].history
                             /\ p # port => card'[p] = card[p]
<1>0. card[port] \in Cards
  OBVIOUS
<1>1. ASSUME NEW c \in Cards, c.kind = card[port].kind, c.history = card[port].history,
             card' = [card EXCEPT ![port] = c]
      PROVE  /\ card' \in [Ports -> Cards]
             /\ \A p \in Ports : /\ card'[p].kind = card[p].kind /\ card'[p].history = card[p].history
                                 /\ p # port => card'[p] = card[p]
  BY <1>1
<1>2. CASE card' = [card EXCEPT ![port].folder = TRUE]
  <2> DEFINE c == [card[port] EXCEPT !.folder = TRUE]
  <2>1. c \in Cards /\ c.kind = card[port].kind /\ c.history = card[port].history
    BY <1>0 DEF Cards
  <2>2. card' = [card EXCEPT ![port] = c]
    BY <1>2
  <2> HIDE DEF c
  <2> QED BY <1>1, <2>1, <2>2
<1>3. ASSUME NEW a \in SUBSET Table!Records, card' = [card EXCEPT ![port].archive = a]
      PROVE  /\ card' \in [Ports -> Cards]
             /\ \A p \in Ports : /\ card'[p].kind = card[p].kind /\ card'[p].history = card[p].history
                                 /\ p # port => card'[p] = card[p]
  <2> DEFINE c == [card[port] EXCEPT !.archive = a]
  <2>1. c \in Cards /\ c.kind = card[port].kind /\ c.history = card[port].history
    BY <1>0 DEF Cards
  <2>2. card' = [card EXCEPT ![port] = c]
    BY <1>3
  <2> HIDE DEF c
  <2> QED BY <1>1, <2>1, <2>2
<1>4. ASSUME NEW i \in {"empty", "written"}, card' = [card EXCEPT ![port].icon = i]
      PROVE  /\ card' \in [Ports -> Cards]
             /\ \A p \in Ports : /\ card'[p].kind = card[p].kind /\ card'[p].history = card[p].history
                                 /\ p # port => card'[p] = card[p]
  <2> DEFINE c == [card[port] EXCEPT !.icon = i]
  <2>1. c \in Cards /\ c.kind = card[port].kind /\ c.history = card[port].history
    BY <1>0 DEF Cards
  <2>2. card' = [card EXCEPT ![port] = c]
    BY <1>4
  <2> HIDE DEF c
  <2> QED BY <1>1, <2>1, <2>2
<1> QED BY <1>2, <1>3, <1>4

(* What steps have in common: a failure, and where the program goes.       *)
Steps == {"off", "load", "add", "check", "open", "mkdir", "reopen", "write",
          "archive", "icon", "iconwrite", "done"}

LEMMA FaultsTyped ==
  ASSUME TypeOK, Fails \/ UNCHANGED faultVars \/ (UNCHANGED faults /\ spare' \in 0 .. 2)
  PROVE  faults' \in 0 .. MaxFaults /\ spare' \in 0 .. 2
<1>1. MaxFaults \in Nat /\ faults \in 0 .. MaxFaults /\ spare \in 0 .. 2
  BY CardsAssumption DEF TypeOK
<1> QED BY <1>1 DEF Fails, faultVars

LEMMA PortsTyped ==
  ASSUME TypeOK, SaveReturnsError \/ SaveReturnsZero \/ \E s \in Steps : Goes(s)
  PROVE  /\ pc' \in Steps /\ port' \in Ports
         /\ UNCHANGED <<memVars, banner, game, date, recorded>>
BY DEF TypeOK, SaveReturnsError, SaveReturnsZero, Goes, Steps, Ports

(* A step of SaveHistoryFile leaves the table and changes one card.        *)
LEMMA SaveTyped == TypeOK /\ Save => TypeOK'
<1> SUFFICES ASSUME TypeOK, Save PROVE TypeOK'
  OBVIOUS
<1>0. /\ card \in [Ports -> Cards] /\ port \in Ports /\ entries \in Table!Tables
      /\ old \in Table!Records /\ << >> \in Files /\ entries \in Files
  BY TablesAreFiles DEF TypeOK
<1>1. Fails \/ UNCHANGED faultVars
  BY DEF Save, Check, Open, MkDir, Reopen, Write, Archive, IconCreate, IconWrite
<1>2. SaveReturnsError \/ SaveReturnsZero \/ \E s \in Steps : Goes(s)
  BY DEF Save, Check, Open, MkDir, Reopen, Write, Archive, IconCreate, IconWrite, Steps
<1>3. card' \in [Ports -> Cards]
  <2>1. CASE Check
    BY <1>0, <2>1 DEF Check, cardVars
  <2>2. CASE Open \/ Reopen
    BY <1>0, <2>2, SetFileSets DEF Open, Reopen, cardVars
  <2>3. CASE MkDir
    BY <1>0, <2>3, MarkSets DEF MkDir, cardVars
  <2>4. CASE Write
    BY <1>0, <2>4, SetFileSets, PrefixesTyped DEF Write
  <2>5. CASE Archive
    <3>1. card[port].archive \cup {old} \in SUBSET Table!Records
      BY <1>0 DEF Cards
    <3>2. \/ card' = card
          \/ card' = [card EXCEPT ![port].archive = card[port].archive \cup {old}]
      BY <2>5 DEF Archive, cardVars
    <3> QED BY <1>0, <3>1, <3>2, MarkSets
  <2>6. CASE IconCreate \/ IconWrite
    BY <1>0, <2>6, MarkSets DEF IconCreate, IconWrite, cardVars
  <2> QED BY <2>1, <2>2, <2>3, <2>4, <2>5, <2>6 DEF Save
<1> QED BY <1>1, <1>2, <1>3, FaultsTyped, PortsTyped DEF TypeOK, memVars, Steps

LEMMA TypeInv == TypeOK /\ [Next]_vars => TypeOK'
<1> SUFFICES ASSUME TypeOK, [Next]_vars PROVE TypeOK'
  OBVIOUS
<1>0. WipedTable \in Table!Tables /\ \A p \in Ports : card[p].history \in Files
  BY TablesAreFiles DEF TypeOK, Cards
<1>1. ASSUME NEW n \in Names, NEW d \in Dates, NEW b \in BOOLEAN, PowerOn(n, d, b) PROVE TypeOK'
  <2>1. UNCHANGED faults /\ spare' \in 0 .. 2
    BY <1>1 DEF PowerOn
  <2> QED BY <1>0, <1>1, <2>1, FaultsTyped DEF PowerOn, cardVars, TypeOK, Ports
<1>2. CASE LoadSucceeds
  <2>1. card[port].history \in Table!Tables
    BY <1>0, <1>2, WholeIsTable DEF LoadSucceeds, TypeOK
  <2> QED BY <1>2, <2>1 DEF LoadSucceeds, AfterBanner, cardVars, faultVars, TypeOK, Ports
<1>3. CASE LoadFails
  <2>1. PICK t \in ShortReads \cup FailedReads : LoadFailed(t)
    BY <1>3 DEF LoadFails
  <2>2. t \in Table!Tables
    BY <2>1, ReadsTyped
  <2>3. Fails \/ UNCHANGED faultVars
    BY <1>3 DEF LoadFails
  <2>4. entries' \in Table!Tables /\ pc' \in {"load", "add"} /\ port' \in Ports /\ banner' \in BOOLEAN
    BY <1>0, <2>1, <2>2 DEF LoadFailed, AfterBanner, TypeOK, Ports
  <2> QED BY <1>3, <2>3, <2>4, FaultsTyped DEF LoadFails, cardVars, TypeOK
<1>4. CASE Add
  <2>1. entries' \in Table!Tables /\ old' \in Table!Records /\ tooMany' \in BOOLEAN
    BY <1>4, AddKeeps DEF Add, TypeOK
  <2> QED BY <1>4, <2>1 DEF Add, cardVars, faultVars, TypeOK, Ports
<1>5. CASE Save
  BY <1>5, SaveTyped
<1>6. CASE PowerOff
  BY <1>0, <1>6 DEF PowerOff, cardVars, faultVars, TypeOK
<1>7. CASE LosePower
  <2>1. card' \in [Ports -> Cards]
    BY <1>7, SetFileSets, PrefixesTyped DEF LosePower, cardVars, TypeOK
  <2> QED BY <1>0, <1>7, <2>1, FaultsTyped DEF LosePower, TypeOK
<1>8. CASE UNCHANGED vars
  BY <1>8 DEF vars, memVars, cardVars, runVars, faultVars, TypeOK
<1> QED BY <1>1, <1>2, <1>3, <1>4, <1>5, <1>6, <1>7, <1>8 DEF Next, Load

LEMMA TypeInit == Init => TypeOK
<1> SUFFICES ASSUME Init PROVE TypeOK
  OBVIOUS
<1>1. WipedTable \in Table!Tables
  BY TablesAreFiles
<1>2. Table!Wiped \in Table!Records
  BY TableAssumption DEF Table!Wiped, Table!Records, Table!Bits
<1>3. card \in [Ports -> Cards] /\ faults \in 0 .. MaxFaults /\ spare \in 0 .. 2 /\ port \in Ports
  BY CardsAssumption DEF Init, Ports
<1> QED BY <1>1, <1>2, <1>3, Zenon DEF Init, TypeOK

(* The variables keep their types: no read, however short, and no cut off  *)
(* write leave anything but records in the memory and on the cards.        *)
THEOREM TypeCorrect == Spec => []TypeOK
BY TypeInit, TypeInv, PTL DEF Spec

-----------------------------------------------------------------------------
(* What is read, and where it is written.                                  *)

(* The second port is only tried if the first has no table.                *)
Loading ==
  pc = "load" /\ ~ banner /\ port = 1 /\ faults = 0 => ~ (Readable(0) /\ Whole(card[0].history))

LEMMA LoadInv == TypeOK /\ Loading /\ AddsToWholeTable /\ [Next]_vars => Loading' /\ AddsToWholeTable'
<1> SUFFICES ASSUME TypeOK, Loading, AddsToWholeTable, [Next]_vars PROVE Loading' /\ AddsToWholeTable'
  OBVIOUS
<1>0. faults \in Nat /\ port \in Ports
  BY DEF TypeOK
<1>1. CASE pc' \notin {"load", "add"}
  BY <1>1 DEF Loading, AddsToWholeTable
<1>2. CASE UNCHANGED vars
  BY <1>2 DEF vars, memVars, cardVars, runVars, faultVars, Loading, AddsToWholeTable, Readable, Whole,
              Durable
<1>3. CASE \E n \in Names, d \in Dates, b \in BOOLEAN : PowerOn(n, d, b)
  BY <1>3 DEF PowerOn, Loading, AddsToWholeTable
<1>4. CASE LoadSucceeds
  <2>1. CASE banner
    BY <1>4, <2>1 DEF LoadSucceeds, AfterBanner, Loading, AddsToWholeTable
  <2>2. CASE ~ banner
    <3>1. /\ pc' = "add" /\ card' = card /\ entries' = card[port].history /\ faults' = faults
          /\ Readable(port) /\ Whole(card[port].history)
      BY <1>4, <2>2 DEF LoadSucceeds, cardVars, faultVars
    <3>2. faults = 0 => Durable = card[port].history
      BY <1>0, <1>4, <2>2, <3>1 DEF LoadSucceeds, Loading, Durable, Ports
    <3>3. Durable' = Durable
      BY <3>1 DEF Durable, Readable, Whole, WipedTable
    <3>4. card'[port].kind # "none" /\ card'[port].history = entries' /\ port \in Ports
      BY <1>0, <3>1 DEF Readable
    <3> QED BY <3>1, <3>2, <3>3, <3>4 DEF Loading, AddsToWholeTable, Readable
  <2> QED BY <2>1, <2>2
<1>5. CASE LoadFails
  <2>1. PICK t : LoadFailed(t)
    BY <1>5 DEF LoadFails
  <2>2. card' = card /\ (faults' = 0 => faults = 0 /\ ~ (Readable(port) /\ Whole(card[port].history)))
    BY <1>0, <1>5 DEF LoadFails, Fails, cardVars, faultVars
  <2>3. CASE port = 0
    BY <2>1, <2>2, <2>3 DEF LoadFailed, Loading, AddsToWholeTable, Readable, Whole
  <2>4. CASE port = 1 /\ banner
    BY <2>1, <2>4 DEF LoadFailed, AfterBanner, Loading, AddsToWholeTable
  <2>5. CASE port = 1 /\ ~ banner
    <3>1. pc' = "add" /\ entries' = WipedTable
      BY <2>1, <2>5 DEF LoadFailed
    <3>2. faults' = 0 => Durable' = WipedTable
      BY <1>5, <2>2, <2>5 DEF LoadFails, Loading, Durable, Readable, Whole, WipedTable, Slots
    <3>3. WipedTable' = WipedTable
      BY DEF WipedTable
    <3> QED BY <3>1, <3>2, <3>3 DEF Loading, AddsToWholeTable
  <2> QED BY <1>0, <2>3, <2>4, <2>5 DEF Ports
<1>6. ~ (pc' \notin {"load", "add"}) =>
        \/ \E n \in Names, d \in Dates, b \in BOOLEAN : PowerOn(n, d, b)
        \/ LoadSucceeds \/ LoadFails \/ UNCHANGED vars
  BY DEF Next, Load, Add, Save, PowerOff, LosePower, Check, Open, MkDir, Reopen, Write, Archive,
         IconCreate, IconWrite, SaveReturnsError, SaveReturnsZero, Goes
<1> QED BY <1>1, <1>2, <1>3, <1>4, <1>5, <1>6

(* Before its icon a card has the table of the run.                        *)
Iconless == pc \in {"archive", "icon", "iconwrite"} => card[port].history = entries

LEMMA IconInv == TypeOK /\ Iconless /\ [Next]_vars => Iconless' /\ (UNCHANGED vars \/ IconNeedsTable)
<1> SUFFICES ASSUME TypeOK, Iconless, [Next]_vars
             PROVE  Iconless' /\ (UNCHANGED vars \/ IconNeedsTable)
  OBVIOUS
<1>0. /\ card \in [Ports -> Cards] /\ port \in Ports /\ << >> \in Files /\ entries \in Files
      /\ Prefixes(entries) \subseteq Files
  BY TablesAreFiles, PrefixesTyped DEF TypeOK
<1>1. CASE UNCHANGED vars
  BY <1>1 DEF vars, memVars, cardVars, runVars, faultVars, Iconless
<1>2. CASE UNCHANGED card /\ pc' \notin {"archive", "icon", "iconwrite"}
  BY <1>2 DEF Iconless, IconNeedsTable
<1>3. CASE Write
  <2>1. PICK f \in Files : SetFile(f)
    BY <1>0, <1>3 DEF Write
  <2>2. IconNeedsTable
    BY <1>0, <2>1, SetFileSets DEF IconNeedsTable
  <2>3. CASE SetFile(entries) /\ Goes("archive")
    BY <1>0, <2>2, <2>3, SetFileSets DEF Goes, memVars, Iconless
  <2>4. CASE SaveReturnsError
    BY <2>2, <2>4 DEF SaveReturnsError, Iconless
  <2> QED BY <1>3, <2>3, <2>4 DEF Write
<1>4. CASE Open \/ Reopen \/ LosePower
  <2>1. card' = card \/ \E f \in Files : SetFile(f)
    BY <1>0, <1>4 DEF Open, Reopen, LosePower, cardVars
  <2>2. IconNeedsTable
    BY <1>0, <2>1, SetFileSets DEF IconNeedsTable
  <2> QED BY <1>4, <2>2 DEF Open, Reopen, LosePower, Goes, SaveReturnsError, Iconless
<1>5. CASE MkDir \/ Archive
  <2>1. \A p \in Ports : card'[p].icon = card[p].icon /\ card'[p].history = card[p].history
    <3>1. \/ card' = card
          \/ card' = [card EXCEPT ![port].folder = TRUE]
          \/ card' = [card EXCEPT ![port].archive = @ \cup {old}]
      BY <1>5 DEF MkDir, Archive, cardVars
    <3> QED BY <1>0, <3>1 DEF Cards
  <2> QED BY <1>0, <1>5, <2>1 DEF MkDir, Archive, Goes, memVars, Iconless, IconNeedsTable
<1>6. CASE IconCreate \/ IconWrite
  <2>1. card[port].history = entries
    BY <1>6 DEF IconCreate, IconWrite, Iconless
  <2>2. /\ card'[port].history = card[port].history
        /\ \A p \in Ports : p # port => card'[p] = card[p]
    BY <1>0, <1>6, MarkSets DEF IconCreate, IconWrite, cardVars
  <2> QED BY <1>0, <1>6, <2>1, <2>2
          DEF IconCreate, IconWrite, Goes, SaveReturnsZero, memVars, Iconless, IconNeedsTable
<1>7. \/ UNCHANGED card /\ pc' \notin {"archive", "icon", "iconwrite"}
      \/ Write \/ Open \/ Reopen \/ LosePower \/ MkDir \/ Archive \/ IconCreate \/ IconWrite
      \/ UNCHANGED vars
  BY DEF Next, PowerOn, Load, LoadSucceeds, LoadFails, LoadFailed, AfterBanner, Add, Save, Check,
         PowerOff, Goes, SaveReturnsError, cardVars
<1> QED BY <1>1, <1>2, <1>3, <1>4, <1>5, <1>6, <1>7

-----------------------------------------------------------------------------
(* The copies on the cards.                                                *)

Copy(p) == Whole(card[p].history)

(* Without a failure only the file that is being written is not whole.     *)
(* After one, both are until the save begins, the second is until the save *)
(* comes to it, and then one of them is but for that write.                *)
Copies ==
  /\ spare = 2 => \A p \in Ports : Copy(p) \/ (pc = "write" /\ p = port)
  /\ spare = 1 =>
       IF pc \in {"load", "add"} THEN Copy(0) /\ Copy(1)
       ELSE /\ pc # "off" /\ port = 0 => Copy(1)
            /\ Copy(0) \/ Copy(1) \/ (pc = "write" /\ port = 1)

LEMMA CopiesInv == TypeOK /\ Copies /\ [Next]_vars => Copies'
<1> SUFFICES ASSUME TypeOK, Copies, [Next]_vars PROVE Copies'
  OBVIOUS
<1>0. /\ card \in [Ports -> Cards] /\ port \in Ports /\ << >> \in Files /\ entries \in Files
      /\ Prefixes(entries) \subseteq Files /\ Whole(entries) /\ spare \in 0 .. 2 /\ Ports = {0, 1}
  BY TablesAreFiles, PrefixesTyped DEF TypeOK, Ports
<1>1. CASE UNCHANGED vars
  BY <1>1 DEF vars, memVars, cardVars, runVars, faultVars, Copies, Copy, Whole
<1>2. ASSUME NEW n \in Names, NEW d \in Dates, NEW b \in BOOLEAN, PowerOn(n, d, b) PROVE Copies'
  <2>1. card' = card /\ pc' = "load"
    BY <1>2 DEF PowerOn, cardVars
  <2>2. spare' = 0 \/ (spare' = 2 /\ \A p \in Ports : Copy(p))
    BY <1>2 DEF PowerOn, Copy
  <2> QED BY <2>1, <2>2 DEF Copies, Copy, Whole
(* Before the save and between its writes.                                 *)
<1>3. CASE Load \/ Add
  <2>1. card' = card /\ pc \in {"load", "add"} /\ (pc' \in {"load", "add"} \/ (pc' = "check" /\ port' = 0))
    BY <1>3 DEF Load, LoadSucceeds, LoadFails, LoadFailed, AfterBanner, Add, cardVars
  <2>2. spare' = spare \/ spare' = (IF spare = 0 THEN 0 ELSE spare - 1)
    BY <1>3 DEF Load, LoadSucceeds, LoadFails, Add, Fails, faultVars
  <2>3. spare > 0 => Copy(0) /\ Copy(1)
    BY <1>0, <2>1 DEF Copies
  <2> QED BY <1>0, <2>1, <2>2, <2>3 DEF Copies, Copy, Whole
<1>4. CASE /\ \A p \in Ports : card'[p].history = card[p].history
           /\ pc \notin {"off", "load", "add", "write"} /\ pc' \notin {"load", "add", "write"}
           /\ port' = port \/ (port = 0 /\ port' = 1)
           /\ spare' = spare \/ spare' = (IF spare = 0 THEN 0 ELSE spare - 1)
  BY <1>0, <1>4 DEF Copies, Copy, Whole
<1>5. CASE /\ SetFile(<< >>) /\ pc \in {"open", "reopen"} /\ pc' = "write"
           /\ port' = port /\ spare' = spare
  BY <1>0, <1>5, SetFileSets DEF Copies, Copy, Whole
<1>6. CASE Write
  <2>1. CASE SetFile(entries) /\ Goes("archive") /\ UNCHANGED faultVars
    BY <1>0, <1>6, <2>1, SetFileSets DEF Write, Goes, faultVars, Copies, Copy, Whole
  <2>2. CASE Fails /\ SaveReturnsError /\ \E f \in Prefixes(entries) : SetFile(f)
    BY <1>0, <1>6, <2>2, SetFileSets DEF Write, SaveReturnsError, Fails, Copies, Copy, Whole
  <2> QED BY <1>6, <2>1, <2>2 DEF Write
<1>7. CASE LosePower
  <2>1. pc' = "off" /\ port' = port /\ spare' = IF spare = 0 THEN 0 ELSE spare - 1
    BY <1>7 DEF LosePower, Fails
  <2>2. CASE pc = "write"
    BY <1>0, <1>7, <2>1, <2>2, SetFileSets DEF LosePower, Copies, Copy, Whole
  <2>3. CASE pc # "write"
    BY <1>0, <1>7, <2>1, <2>3 DEF LosePower, cardVars, Copies, Copy, Whole
  <2> QED BY <2>2, <2>3
<1>8. CASE Check \/ PowerOff
  <2>1. card' = card
    BY <1>8 DEF Check, PowerOff, cardVars
  <2> QED BY <1>0, <1>4, <1>8, <2>1
          DEF Check, PowerOff, Goes, SaveReturnsError, Fails, faultVars, Copies, Copy, Whole
<1>9. CASE Open \/ Reopen
  <2>1. CASE SetFile(<< >>) /\ Goes("write") /\ UNCHANGED faultVars
    BY <1>5, <1>9, <2>1 DEF Open, Reopen, Goes, faultVars
  <2>2. CASE UNCHANGED card /\ (Goes("mkdir") \/ SaveReturnsError)
    <3>1. spare' = spare \/ spare' = (IF spare = 0 THEN 0 ELSE spare - 1)
      BY <1>9 DEF Open, Reopen, Fails, faultVars
    <3> QED BY <1>0, <1>4, <1>9, <2>2, <3>1 DEF Open, Reopen, Goes, SaveReturnsError
  <2> QED BY <1>9, <2>1, <2>2 DEF Open, Reopen, cardVars
<1>10. CASE MkDir \/ Archive \/ IconCreate \/ IconWrite
  <2>1. \A p \in Ports : card'[p].history = card[p].history
    <3>1. CASE MkDir \/ Archive
      <4>1. \/ card' = card
            \/ card' = [card EXCEPT ![port].folder = TRUE]
            \/ card' = [card EXCEPT ![port].archive = @ \cup {old}]
        BY <3>1 DEF MkDir, Archive, cardVars
      <4> QED BY <1>0, <4>1 DEF Cards
    <3>2. CASE IconCreate \/ IconWrite
      <4>1. /\ card'[port].history = card[port].history
            /\ \A p \in Ports : p # port => card'[p] = card[p]
        BY <1>0, <3>2, MarkSets DEF IconCreate, IconWrite, cardVars
      <4> QED BY <4>1
    <3> QED BY <1>10, <3>1, <3>2
  <2>2. spare' = spare \/ spare' = (IF spare = 0 THEN 0 ELSE spare - 1)
    BY <1>10 DEF MkDir, Archive, IconCreate, IconWrite, Fails, faultVars
  <2>3. /\ pc \in {"mkdir", "archive", "icon", "iconwrite"} /\ port' = port
        /\ pc' \in {"reopen", "icon", "iconwrite", "done"}
    BY <1>10 DEF MkDir, Archive, IconCreate, IconWrite, Goes, SaveReturnsZero
  <2> QED BY <1>4, <2>1, <2>2, <2>3
<1> QED BY <1>1, <1>2, <1>3, <1>6, <1>7, <1>8, <1>9, <1>10 DEF Next, Save

-----------------------------------------------------------------------------
(* The theorems.                                                           *)

LEMMA PartsInit == Init => Loading /\ AddsToWholeTable /\ Iconless /\ Copies
BY DEF Init, Loading, AddsToWholeTable, Iconless, Copies

(* UpdatePlayHistory: whatever a short read or the load for the banner has *)
(* left in HistoryEntries, with any number of failures and losses of power *)
(* the launch is added to a table that was read in full, or to a wiped     *)
(* one, and without a failure to the one of the first port that has one.   *)
THEOREM LaunchesAddToWholeTable == Spec => []AddsToWholeTable
<1>1. Init => TypeOK /\ Loading /\ AddsToWholeTable
  BY TypeInit, PartsInit
<1>2. TypeOK /\ Loading /\ AddsToWholeTable /\ [Next]_vars
        => TypeOK' /\ Loading' /\ AddsToWholeTable'
  BY TypeInv, LoadInv
<1> QED BY <1>1, <1>2, PTL DEF Spec

(* SaveHistoryFile: icon.sys appears only on a card that has the whole     *)
(* table of the run, whichever calls have failed before it.                *)
THEOREM IconsComeLast == Spec => IconComesLast
<1>1. Init => TypeOK /\ Iconless
  BY TypeInit, PartsInit
<1>2. TypeOK /\ Iconless /\ [Next]_vars => TypeOK' /\ Iconless' /\ [IconNeedsTable]_vars
  BY TypeInv, IconInv
<1> QED BY <1>1, <1>2, PTL DEF Spec, IconComesLast

(* UpdatePlayHistory: a run that starts with a whole table on both cards   *)
(* and meets one failure or loss of power leaves one whole copy at every   *)
(* moment, but for the one in which the second is rewritten after it.      *)
THEOREM SomeCopyStaysWhole == Spec => []SomeCopyIsWhole
<1>1. Init => TypeOK /\ Copies
  BY TypeInit, PartsInit
<1>2. TypeOK /\ Copies /\ [Next]_vars => TypeOK' /\ Copies'
  BY TypeInv, CopiesInv
<1>3. TypeOK /\ Copies => SomeCopyIsWhole
  BY DEF TypeOK, Copies, Copy, SomeCopyIsWhole, Ports
<1> QED BY <1>1, <1>2, <1>3, PTL DEF Spec

-----------------------------------------------------------------------------
(* Without failures.                                                       *)

Saving == {"check", "open", "mkdir", "reopen", "write", "archive", "icon", "iconwrite"}

(* A save writes to a usable card, to the second if the first is not, and  *)
(* leaves there what the next run will load.                               *)
Unfailing ==
  /\ pc \in Saving \ {"check"} => card[port].kind = "usable"
  /\ faults = 0 =>
       /\ pc = "reopen" => card[port].folder
       /\ pc \in Saving /\ port = 1 => card[0].kind # "usable"
       /\ pc \in {"icon", "iconwrite"} /\ tooMany => old \in card[port].archive
       /\ pc = "done" /\ Accepting =>
            /\ Durable = entries
            /\ tooMany => \E p \in Ports : old \in card[p].archive

LEMMA CardsGain ==
  ASSUME TypeOK, Unfailing, [Next]_vars
  PROVE  \A p \in Ports : /\ card'[p].kind = card[p].kind /\ card[p].archive \subseteq card'[p].archive
                          /\ p # port => card'[p] = card[p]
                          /\ card[p].kind # "usable" => card'[p].history = card[p].history
<1>0. /\ card \in [Ports -> Cards] /\ port \in Ports /\ << >> \in Files /\ entries \in Files
      /\ Prefixes(entries) \subseteq Files
  BY TablesAreFiles, PrefixesTyped DEF TypeOK
<1>1. CASE card' = card
  BY <1>1
<1>2. CASE Open \/ Reopen \/ Write \/ LosePower
  <2>1. card' = card \/ (card[port].kind = "usable" /\ \E f \in Files : SetFile(f))
    <3>1. card' = card \/ pc \in Saving \ {"check"}
      BY <1>2 DEF Open, Reopen, Write, LosePower, Saving, cardVars
    <3>2. card' = card \/ \E f \in Files : SetFile(f)
      BY <1>0, <1>2 DEF Open, Reopen, Write, LosePower, cardVars
    <3> QED BY <1>0, <3>1, <3>2 DEF Unfailing
  <2> QED BY <1>0, <1>1, <2>1, SetFileSets
<1>3. CASE MkDir \/ Archive \/ IconCreate \/ IconWrite
  <2>1. \/ card' = card
        \/ card' = [card EXCEPT ![port].folder = TRUE]
        \/ card' = [card EXCEPT ![port].archive = @ \cup {old}]
        \/ card' = [card EXCEPT ![port].icon = "empty"]
        \/ card' = [card EXCEPT ![port].icon = "written"]
    BY <1>3 DEF MkDir, Archive, IconCreate, IconWrite, cardVars
  <2> QED BY <1>0, <2>1 DEF Cards
<1>4. card' = card \/ Open \/ Reopen \/ Write \/ LosePower \/ MkDir \/ Archive \/ IconCreate \/ IconWrite
  BY DEF Next, PowerOn, Load, LoadSucceeds, LoadFails, Add, Save, Check, PowerOff, cardVars, vars
<1> QED BY <1>1, <1>2, <1>3, <1>4

LEMMA AcceptingKept ==
  ASSUME TypeOK, Unfailing, [Next]_vars, Accepting'
  PROVE  Accepting
<1>1. Ports = {0, 1} /\ 0 .. 0 - 1 = {} /\ 0 .. 1 - 1 = {0} /\ Ports' = Ports
  BY DEF Ports
<1> QED BY <1>1, CardsGain DEF Accepting, Whole

LEMMA FaultsKept == TypeOK /\ [Next]_vars /\ faults' = 0 => faults = 0
BY DEF TypeOK, Next, PowerOn, Load, LoadSucceeds, LoadFails, Add, Save, Check, Open, MkDir, Reopen,
       Write, Archive, IconCreate, IconWrite, PowerOff, LosePower, Fails, faultVars, vars

(* What has been saved is loaded.                                          *)
LEMMA SavedIsDurable ==
  TypeOK /\ Accepting /\ (port = 1 => card[0].kind # "usable")
    /\ card[port].kind = "usable" /\ card[port].history = entries => Durable = entries
<1> SUFFICES ASSUME TypeOK, Accepting, port = 1 => card[0].kind # "usable",
                    card[port].kind = "usable", card[port].history = entries
             PROVE  Durable = entries
  OBVIOUS
<1>1. Whole(entries) /\ Ports = {0, 1} /\ port \in Ports /\ 0 .. 1 - 1 = {0}
      /\ card[0].kind \in {"none", "refused", "usable"}
  BY TablesAreFiles DEF TypeOK, Ports, Cards
<1>2. port = 1 => ~ (card[0].kind = "refused" /\ Whole(card[0].history))
  BY <1>1 DEF Accepting
<1> QED BY <1>1, <1>2 DEF Durable, Readable

LEMMA SavedIsDurableThen ==
  TypeOK' /\ Accepting' /\ (port' = 1 => card'[0].kind # "usable")
    /\ card'[port'].kind = "usable" /\ card'[port'].history = entries' => Durable' = entries'
<1>1. (TypeOK /\ Accepting /\ (port = 1 => card[0].kind # "usable")
        /\ card[port].kind = "usable" /\ card[port].history = entries => Durable = entries)'
  BY SavedIsDurable, PTL
<1> QED BY <1>1

LEMMA UnfailingInv ==
  TypeOK /\ Iconless /\ Unfailing /\ [Next]_vars => Unfailing'
<1> SUFFICES ASSUME TypeOK, Iconless, Unfailing, [Next]_vars PROVE Unfailing'
  OBVIOUS
<1>0. /\ card \in [Ports -> Cards] /\ port \in Ports /\ 0 \in Ports /\ 1 \in Ports
      /\ \A p \in Ports : card'[p].kind = card[p].kind
  BY CardsGain DEF TypeOK, Ports
<1>1. CASE UNCHANGED vars
  BY <1>1 DEF vars, memVars, cardVars, runVars, faultVars, Unfailing, Accepting, Durable, Readable,
              Whole, WipedTable
<1>2. CASE pc' \in {"off", "load", "add"}
  BY <1>2 DEF Unfailing, Saving
<1>3. CASE Add
  BY <1>3 DEF Add, Unfailing, Saving
<1>4. CASE Check
  BY <1>0, <1>4, FaultsKept DEF Check, Goes, SaveReturnsError, Fails, TypeOK, Unfailing, Saving, Accepting, Ports, cardVars
<1>5. CASE Open \/ Write
  BY <1>0, <1>5, FaultsKept DEF Open, Write, Goes, SaveReturnsError, Fails, Unfailing, Saving, TypeOK
<1>6. CASE MkDir \/ Reopen
  BY <1>0, <1>6, FaultsKept DEF MkDir, Reopen, Goes, SaveReturnsError, Fails, Unfailing, Saving, TypeOK, Cards
<1>7. CASE Archive
  BY <1>0, <1>7, FaultsKept DEF Archive, Goes, Fails, memVars, faultVars, Unfailing, Saving, TypeOK, Cards
<1>8. CASE IconCreate \/ IconWrite
  <2>0. \A p \in Ports : card[p].archive \subseteq card'[p].archive
    BY CardsGain
  <2>1. /\ card[port].kind = "usable" /\ card[port].history = entries
        /\ port' = port /\ entries' = entries /\ old' = old /\ tooMany' = tooMany
        /\ pc' \in {"iconwrite", "done"} /\ pc \in {"icon", "iconwrite"}
    BY <1>8 DEF IconCreate, IconWrite, Goes, SaveReturnsZero, memVars, Unfailing, Iconless, Saving
  <2>2. faults' = 0 => /\ faults = 0
                       /\ port = 1 => card[0].kind # "usable"
                       /\ tooMany => old \in card[port].archive
    BY <2>1, FaultsKept DEF Unfailing, Saving
  <2>3. ASSUME faults' = 0, Accepting' PROVE Durable' = entries'
    <3>1. TypeOK' /\ card'[port].history = entries
      <4>1. TypeOK'
        BY TypeInv
      <4>2. card'[port].history = card[port].history
        BY <1>0, <1>8, MarkSets DEF IconCreate, IconWrite, cardVars
      <4> QED BY <2>1, <4>1, <4>2
    <3>2. /\ port' = 1 => card'[0].kind # "usable"
          /\ card'[port'].kind = "usable" /\ card'[port'].history = entries'
      BY <1>0, <2>1, <2>2, <2>3, <3>1
    <3> QED BY <2>3, <3>1, <3>2, SavedIsDurableThen
  <2>4. port \in Ports /\ (faults' = 0 /\ tooMany' => old' \in card'[port].archive)
    BY <1>0, <2>0, <2>1, <2>2
  <2> QED BY <1>0, <2>1, <2>2, <2>3, <2>4 DEF Unfailing, Saving, Ports
<1>9. CASE PowerOff \/ LosePower \/ Load \/ \E n \in Names, d \in Dates, b \in BOOLEAN : PowerOn(n, d, b)
  <2>1. pc' \in {"off", "load", "add"}
    BY <1>9 DEF PowerOff, LosePower, Load, LoadSucceeds, LoadFails, LoadFailed, AfterBanner, PowerOn
  <2> QED BY <1>2, <2>1
<1> QED BY <1>1, <1>3, <1>4, <1>5, <1>6, <1>7, <1>8, <1>9 DEF Next, Save

-----------------------------------------------------------------------------
(* The table that outlives the run.                                        *)

Future == IF pc \in {"off", "load", "add"} THEN Durable ELSE entries

Appended(n) == \E p \in Ports : \E e \in card[p].archive : e.name = n

(* A game is in the table that will be loaded, or on its way to the        *)
(* archive of a card.                                                      *)
Known ==
  faults = 0 /\ Accepting =>
    \A n \in recorded :
      \/ Table!Matches(Future, n) # {}
      \/ Appended(n)
      \/ pc \in Saving \cup {"done"} /\ tooMany /\ n = old.name

(* What a step that meets no failure does to that table.                   *)
LEMMA FutureSteps ==
  ASSUME TypeOK, AddsToWholeTable, Unfailing, [Next]_vars, faults' = 0, Accepting
  PROVE  \/ /\ UNCHANGED <<old, tooMany, recorded>> /\ Future' = Future
            /\ \/ pc' \in {"load", "add"} /\ pc \in {"off", "load"}
               \/ pc' \in Saving \cup {"done"} /\ pc \in Saving
               \/ pc' = "off" /\ pc = "done"
               \/ pc' = pc
         \/ /\ Table!AddHistoryRecord(game, date) /\ Future = entries /\ Future' = entries'
            /\ recorded' \subseteq recorded \cup {m \in {game} : Table!Matches(entries', m) # {}}
            /\ pc = "add" /\ pc' \in Saving
<1>0. faults = 0
  BY FaultsKept
<1>1. card' = card => Durable' = Durable
  BY DEF Durable, Readable, Whole, WipedTable
<1>2. CASE UNCHANGED vars
  BY <1>1, <1>2 DEF vars, memVars, cardVars, runVars, Future
<1>3. CASE Load \/ \E n \in Names, d \in Dates, b \in BOOLEAN : PowerOn(n, d, b)
  <2>1. /\ card' = card /\ pc \in {"off", "load"} /\ pc' \in {"load", "add"}
        /\ UNCHANGED <<old, tooMany, recorded>>
    BY <1>3 DEF Load, LoadSucceeds, LoadFails, LoadFailed, AfterBanner, PowerOn, cardVars
  <2> QED BY <1>1, <2>1 DEF Future
<1>4. CASE Add
  <2>1. entries = Durable /\ pc = "add" /\ pc' = "check"
    BY <1>0, <1>4 DEF Add, AddsToWholeTable
  <2>2. recorded' \subseteq recorded \cup {m \in {game} : Table!Matches(entries', m) # {}}
    BY <1>4 DEF Add
  <2> QED BY <1>4, <2>1, <2>2 DEF Add, Future, Saving
<1>5. CASE Save
  <2>1. UNCHANGED <<memVars, recorded>> /\ pc \in Saving /\ pc' \in Saving \cup {"done"}
    BY <1>5 DEF Save, Check, Open, MkDir, Reopen, Write, Archive, IconCreate, IconWrite, Saving,
                Goes, SaveReturnsError, SaveReturnsZero
  <2> QED BY <2>1 DEF memVars, Future, Saving
<1>6. CASE PowerOff
  <2>1. Durable = entries /\ pc = "done" /\ pc' = "off" /\ card' = card
    BY <1>0, <1>6 DEF PowerOff, Unfailing, cardVars
  <2> QED BY <1>1, <1>6, <2>1 DEF PowerOff, Future
<1>7. CASE LosePower
  BY <1>0, <1>7 DEF LosePower, Fails
<1> QED BY <1>2, <1>3, <1>4, <1>5, <1>6, <1>7 DEF Next

LEMMA KnownInv ==
  TypeOK /\ AddsToWholeTable /\ Unfailing /\ Known /\ [Next]_vars => Known'
<1> SUFFICES ASSUME TypeOK, AddsToWholeTable, Unfailing, Known, [Next]_vars, faults' = 0, Accepting',
                    NEW n \in recorded'
             PROVE  \/ Table!Matches(Future', n) # {}
                    \/ Appended(n)'
                    \/ pc' \in Saving \cup {"done"} /\ tooMany' /\ n = old'.name
  BY DEF Known, Table!Matches
<1>1. faults = 0 /\ Accepting
  BY FaultsKept, AcceptingKept
<1>2. Appended(n) => Appended(n)'
  BY CardsGain DEF Appended, Ports
<1>3. CASE UNCHANGED <<old, tooMany, recorded>> /\ Future' = Future
  <2>1. \/ Table!Matches(Future, n) # {}
        \/ Appended(n)
        \/ pc \in Saving \cup {"done"} /\ tooMany /\ n = old.name
    BY <1>1, <1>3 DEF Known
  <2>2. CASE pc = "done" /\ pc' = "off" /\ tooMany /\ n = old.name
    BY <1>1, <1>2, <2>2 DEF Unfailing, Appended
  <2> QED BY <1>1, <1>2, <1>3, <2>1, <2>2, FutureSteps DEF Saving
<1>4. CASE /\ Table!AddHistoryRecord(game, date) /\ Future = entries /\ Future' = entries'
           /\ recorded' \subseteq recorded \cup {m \in {game} : Table!Matches(entries', m) # {}}
           /\ pc = "add" /\ pc' \in Saving
  <2>1. CASE n \in recorded /\ Table!Matches(entries, n) # {}
    <3>1. n \in Names /\ game \in Names /\ date \in Dates /\ entries \in Table!Tables /\ old \in Table!Records
      BY <2>1 DEF TypeOK
    <3>2. Table!Matches(entries', n) # {} \/ (tooMany' /\ old'.name = n)
      BY <1>4, <2>1, <3>1, AddKeeps
    <3> QED BY <1>4, <3>2
  <2>2. CASE Table!Matches(entries', n) # {}
    BY <1>4, <2>2
  <2>3. n \in recorded => Table!Matches(entries, n) # {} \/ Appended(n)
    BY <1>1, <1>4 DEF Known, Saving
  <2> QED BY <1>2, <1>4, <2>1, <2>2, <2>3
<1> QED BY <1>1, <1>3, <1>4, FutureSteps

-----------------------------------------------------------------------------

Parts == Loading /\ AddsToWholeTable /\ Iconless /\ Unfailing /\ Known

LEMMA PartsInv == Spec => [](TypeOK /\ Parts)
<1>1. Init => TypeOK /\ Parts
  <2>1. Init => Unfailing /\ Known
    BY DEF Init, Unfailing, Known, Saving
  <2> QED BY <2>1, TypeInit, PartsInit DEF Parts
<1>2. TypeOK /\ Parts /\ [Next]_vars => TypeOK' /\ Parts'
  BY TypeInv, LoadInv, IconInv, UnfailingInv, KnownInv DEF Parts
<1> QED BY <1>1, <1>2, PTL DEF Spec

(* While no call fails and no power is lost, and with a card that accepts  *)
(* the table: a game that AddHistoryRecord has put in it is in the table   *)
(* that the next run loads, or in the history.old of a card.               *)
THEOREM GamesStay == Spec => []GamesAreConserved
<1>1. TypeOK /\ Parts => GamesAreConserved
  BY DEF Parts, Known, Future, Appended, Saving, GamesAreConserved
<1> QED BY <1>1, PartsInv, PTL

(* What LaunchIsDurable leaves open is exactly the card that refuses: as   *)
(* long as another accepts the table, a launch is in what the next run     *)
(* loads once nothing failed.                                              *)
THEOREM LaunchesAreDurable == Spec => [](Accepting => LaunchIsDurable)
<1>1. TypeOK /\ Parts => (Accepting => LaunchIsDurable)
  BY DEF Parts, Unfailing, LaunchIsDurable
<1> QED BY <1>1, PartsInv, PTL

(* Both tables are HistoryTable with the same constants.                   *)
LEMMA SameOperators ==
  /\ Lasting!Slots = Table!Slots /\ Lasting!Bits = Table!Bits
  /\ \A t, n : Lasting!Matches(t, n) = Table!Matches(t, n)
  /\ \A t : /\ Lasting!BlankSlots(t) = Table!BlankSlots(t)
            /\ Lasting!AllPinned(t) = Table!AllPinned(t)
            /\ Lasting!LeastUsedRecord(t) = Table!LeastUsedRecord(t)
  /\ \A n, d : Lasting!NewRecord(n, d) = Table!NewRecord(n, d)
  /\ \A e, d, v : Lasting!Relaunched(e, d, v) = Table!Relaunched(e, d, v)
<1>1. Lasting!Slots = Table!Slots /\ Lasting!Bits = Table!Bits /\ Lasting!Pinned = Table!Pinned
  BY DEF Lasting!Slots, Table!Slots, Lasting!Bits, Table!Bits, Lasting!Pinned, Table!Pinned
<1>2. \A t, n : Lasting!Matches(t, n) = Table!Matches(t, n)
  BY <1>1 DEF Lasting!Matches, Table!Matches
<1>3. \A t : Lasting!BlankSlots(t) = Table!BlankSlots(t) /\ Lasting!AllPinned(t) = Table!AllPinned(t)
  BY <1>1 DEF Lasting!BlankSlots, Table!BlankSlots, Lasting!AllPinned, Table!AllPinned
<1>4. \A t : Lasting!LeastUsedRecord(t) = Table!LeastUsedRecord(t)
  <2>1. \A t : Lasting!RunningMinima(t) = Table!RunningMinima(t)
    BY <1>1 DEF Lasting!RunningMinima, Table!RunningMinima
  <2>2. \A t : Lasting!LeastUsedUpdates(t) = Table!LeastUsedUpdates(t)
    BY <2>1 DEF Lasting!LeastUsedUpdates, Table!LeastUsedUpdates
  <2> QED BY <2>2 DEF Lasting!LeastUsedRecord, Table!LeastUsedRecord, Lasting!Max, Table!Max
<1>5. \A n, d : Lasting!NewRecord(n, d) = Table!NewRecord(n, d)
  BY DEF Lasting!NewRecord, Table!NewRecord
<1>6. \A e, d, v : Lasting!Relaunched(e, d, v) = Table!Relaunched(e, d, v)
  <2>1. \A e : Lasting!NextCount(e) = Table!NextCount(e)
    BY DEF Lasting!NextCount, Table!NextCount
  <2>2. \A k : Lasting!IsMilestone(k) = Table!IsMilestone(k)
    BY DEF Lasting!IsMilestone, Table!IsMilestone
  <2> QED BY <1>1, <2>1, <2>2 DEF Lasting!Relaunched, Table!Relaunched
<1> QED BY <1>1, <1>2, <1>3, <1>4, <1>5, <1>6

LEMMA StepsImplement ==
  TypeOK /\ Parts /\ [Next]_vars
    => [faults' = 0 /\ Accepting => Lasting!Next]_(Lasting!tableVars)
<1> SUFFICES ASSUME TypeOK, Parts, [Next]_vars, faults' = 0, Accepting
             PROVE  Lasting!Next \/ UNCHANGED Lasting!tableVars
  OBVIOUS
<1>1. CASE UNCHANGED <<old, tooMany, recorded>> /\ Future' = Future
  BY <1>1 DEF Lasting!tableVars, Future
<1>2. CASE Table!AddHistoryRecord(game, date) /\ Future = entries /\ Future' = entries'
  <2>1. Lasting!AddHistoryRecord(game, date)
    <3>1. CASE Table!UpdateRecord(game, date)
      BY <1>2, <3>1, SameOperators
         DEF Future, Table!UpdateRecord, Lasting!UpdateRecord, Lasting!AddHistoryRecord
    <3>2. CASE Table!InsertRecord(game, date)
      BY <1>2, <3>2, SameOperators
         DEF Future, Table!InsertRecord, Lasting!InsertRecord, Lasting!AddHistoryRecord
    <3>3. CASE Table!RefuseRecord(game)
      BY <1>2, <3>3, SameOperators
         DEF Future, Table!RefuseRecord, Lasting!RefuseRecord, Lasting!AddHistoryRecord
    <3> QED BY <1>2, <3>1, <3>2, <3>3 DEF Table!AddHistoryRecord
  <2> QED BY <2>1 DEF Lasting!Next, TypeOK
<1> QED BY <1>1, <1>2, FutureSteps DEF Parts

(* Until the first failure, and with a card that accepts it, the cards     *)
(* implement the table of HistoryTable: of a run's steps only Add changes  *)
(* what the next run will load, and it does what AddHistoryRecord does.    *)
THEOREM CardsImplementTable == Spec => ImplementsTable
<1>1. Init => ((\A p \in Ports : card[p].history = NoFile) => Lasting!Init)
  BY DEF Init, Lasting!Init, Durable, WipedTable, Whole, Ports, Slots, Lasting!Slots,
         Table!Wiped, Lasting!Wiped
<1> QED BY <1>1, PartsInv, StepsImplement, PTL DEF Spec, ImplementsTable

=============================================================================
