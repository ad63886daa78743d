--------------------------- MODULE BootFlow_proofs ---------------------------
(***************************************************************************)
(* For any pads, buttons, configurations, paths and devices that satisfy   *)
(* the assumptions of BootFlow: what is held while main runs and given     *)
(* back after, and that what is started is what was bound to the key that  *)
(* was down, from its own partition.                                       *)
(***************************************************************************)
EXTENDS BootFlow, Extremes

-----------------------------------------------------------------------------
(* CheckPath on the '?' of a path.                                         *)

(* The two slots of a device, one of which is the other's second.          *)
LEMMA SlotsDiffer ==
  ASSUME NEW d \in DOMAIN SecondSource, NEW src
  PROVE  FirstSlot(d, src) \in Slots(d) /\ SecondSlot(d, src) \in Slots(d)
<1>1. d \in {"mc?", "mmce?"}
  BY SourceAssumption
<1>2. FirstSlot(d, src) \in Slots(d)
  BY <1>1 DEF FirstSlot, Slots
<1>3. \E s \in Slots(d) : s # FirstSlot(d, src)
  BY <1>1 DEF FirstSlot, Slots
<1> QED BY <1>2, <1>3 DEF SecondSlot

(* What is left behind is a path to the same file.                         *)
LEMMA CheckedIsPath ==
  ASSUME NEW p \in Paths, NEW src
  PROVE  Checked(p, src) \in Paths
<1>1. CASE p.dev \notin DOMAIN SecondSource
  BY <1>1 DEF Checked
<1>2. CASE p.dev \in DOMAIN SecondSource
  <2>1. p.dev \in {"mc?", "mmce?"}
    BY <1>2, SourceAssumption
  <2>2. FirstSlot(p.dev, src) \in PathDevs /\ SecondSlot(p.dev, src) \in PathDevs
    BY <1>2, <2>1, SlotsDiffer DEF Slots, PathDevs
  <2>3. p.file \in FileNames /\ p.kelf \in BOOLEAN
    BY DEF Paths
  <2> QED BY <1>2, <2>2, <2>3 DEF Checked, Paths
<1> QED BY <1>1, <1>2

LEMMA CheckedSame ==
  ASSUME NEW p, NEW b, NEW src, SameFile(p, b)
  PROVE  SameFile(Checked(p, src), b)
<1>1. CASE p.dev \notin DOMAIN SecondSource
  BY <1>1 DEF Checked
<1>2. CASE p.dev \in DOMAIN SecondSource
  <2>1. p.dev \in {"mc?", "mmce?"}
    BY <1>2, SourceAssumption
  <2>2. p.dev = b.dev
    <3>1. CASE p.dev \in Slots(b.dev)
      BY <2>1, <3>1 DEF Slots
    <3> QED BY <3>1 DEF SameFile
  <2>3. Checked(p, src).file = b.file /\ Checked(p, src).dev \in Slots(b.dev)
    BY <1>2, <2>2, SlotsDiffer DEF Checked, SameFile
  <2> QED BY <1>2, <2>2, <2>3 DEF SameFile
<1> QED BY <1>1, <1>2

-----------------------------------------------------------------------------
(* The types.                                                              *)

LEMMA ConstantsTyped ==
  /\ Unset \in Paths /\ AllUnset \in Tables /\ Rescue \in Paths
  /\ 0 \in 0 .. NumButtons /\ NumButtons \in Nat
<1>1. Unset \in Paths /\ Rescue \in Paths
  BY PartyAssumption DEF Unset, Rescue, Paths, PathDevs
<1> QED BY <1>1, ButtonAssumption DEF AllUnset, Tables

(* A configured path is one of a line.                                     *)
LEMMA ConfiguredTyped ==
  ASSUME NEW f \in Configs
  PROVE  Configured(f) \in Tables
<1>1. f \in Seq(Lines)
  BY TableAssumption
<1>2. ASSUME NEW k \in 0 .. NumButtons, NEW i \in 0 .. 2
      PROVE  Configured(f)[k][i] \in Paths
  <2> DEFINE read == {n \in DOMAIN f : \A m \in 1 .. n : ~ Stops(f[m])}
             sets == {n \in read : f[n].kind = "entry" /\ f[n].key = k /\ f[n].entry = i}
  <2>1. Configured(f)[k][i] = IF sets = {} THEN Unset ELSE f[Max(sets)].path
    BY DEF Configured
  <2>2. CASE sets = {}
    BY <2>1, <2>2, ConstantsTyped
  <2>3. CASE sets # {}
    <3>1. Len(f) \in Nat /\ DOMAIN f = 1 .. Len(f) /\ sets \in SUBSET (0 .. Len(f))
      BY <1>1
    <3> HIDE DEF sets
    <3>2. Max(sets) \in sets
      BY <2>3, <3>1, GreatestElement
    <3>3. Max(sets) \in DOMAIN f
      BY <3>2 DEF sets
    <3>4. f[Max(sets)] \in Lines
      BY <1>1, <3>1, <3>3
    <3> QED BY <2>1, <2>3, <3>4 DEF Lines
  <2> QED BY <2>2, <2>3
<1>3. Configured(f) = [k \in 0 .. NumButtons |-> [i \in 0 .. 2 |-> Configured(f)[k][i]]]
  BY DEF Configured
<1> QED BY <1>2, <1>3 DEF Tables

(* The line that is read is one of the file.                               *)
LEMMA LineTyped ==
  ASSUME TypeOK, NEW kinds, LineIs(kinds)
  PROVE  /\ file[line] \in Lines /\ line \in DOMAIN file
         /\ line + 1 \in 1 .. Len(file) + 1
<1>1. file \in Seq(Lines)
  <2>1. << >> \in Seq(Lines)
    OBVIOUS
  <2> QED BY <2>1, TableAssumption DEF TypeOK
<1>2. line \in 1 .. Len(file) + 1 /\ line <= Len(file) /\ Len(file) \in Nat
  BY <1>1 DEF TypeOK, LineIs
<1> QED BY <1>1, <1>2

LEMMA EntryTyped ==
  ASSUME NEW t \in Tables, NEW k \in 0 .. NumButtons, NEW i \in 0 .. 2, NEW p \in Paths
  PROVE  /\ [t EXCEPT ![k][i] = p] \in Tables
         /\ t[k][i] \in Paths
BY DEF Tables

(* MountParty and the pads.                                                *)
LEMMA MountTyped ==
  ASSUME TypeOK, NEW p, Mount(p)
  PROVE  part' \in Parties \cup {NoParty} /\ mounted' \in Parties \cup {NoParty}
BY DEF TypeOK, Mount, hddVars

LEMMA ReadingTyped ==
  ASSUME TypeOK, NEW R \in SUBSET PadPorts
  PROVE  /\ ReadRaw(R) \subseteq Buttons
         /\ [p \in PadPorts |-> IF p \in R THEN held[p] ELSE old_pad[p]] \in [PadPorts -> SUBSET Buttons]
<1>1. \A p \in PadPorts : held[p] \in SUBSET Buttons /\ old_pad[p] \in SUBSET Buttons
  BY DEF TypeOK
<1> QED BY <1>1 DEF ReadRaw

LEMMA HandedVia ==
  ASSUME NEW via, NEW p, NEW party, HandTo(via, p, party)
  PROVE  /\ handed'.via = via /\ handed'.key = key /\ handed'.path = p /\ handed'.party = party
         /\ pc' = "handover"
BY DEF HandTo

(* The row of a key that is down.                                          *)
Pressed(R) == {k \in 1 .. NumRows : ButtonOf(k) \in ReadRaw(R)}

LEMMA RowTyped ==
  ASSUME NEW R, Pressed(R) # {}
  PROVE  /\ Min(Pressed(R)) \in 1 .. NumButtons
         /\ ButtonOf(Min(Pressed(R))) \in ReadRaw(R)
         /\ \A k \in 1 .. Min(Pressed(R)) - 1 : ButtonOf(k) \notin ReadRaw(R)
<1>1. NumRows \in Nat /\ NumRows <= NumButtons
  BY ButtonAssumption DEF NumRows, Buttons
<1>2. Pressed(R) \in SUBSET Nat /\ \A k \in Pressed(R) : k \in 1 .. NumRows
  BY <1>1 DEF Pressed
<1>3. Min(Pressed(R)) \in Pressed(R) /\ \A k \in Pressed(R) : Min(Pressed(R)) <= k
  BY <1>2, MinIsLeast
<1> DEFINE first == Min(Pressed(R))
<1> HIDE DEF first
<1>4. first \in Pressed(R) /\ first \in 1 .. NumRows /\ \A k \in Pressed(R) : first <= k
  BY <1>2, <1>3 DEF first
<1>5. ASSUME NEW k \in 1 .. first - 1 PROVE ButtonOf(k) \notin ReadRaw(R)
  <2>1. k \in 1 .. NumRows /\ ~ (first <= k)
    BY <1>1, <1>4
  <2> QED BY <1>4, <2>1 DEF Pressed
<1>6. ButtonOf(first) \in ReadRaw(R)
  BY <1>4 DEF Pressed
<1>7. first \in 1 .. NumButtons
  BY <1>1, <1>4, ButtonAssumption
<1> QED BY <1>5, <1>6, <1>7 DEF first

LEMMA TypeInv == TypeOK /\ [Next]_vars => TypeOK'
<1> SUFFICES ASSUME TypeOK, [Next]_vars PROVE TypeOK'
  OBVIOUS
<1> USE DEF envVars, cfgVars, fileVars, tryVars, hddVars, resVars
<1>1. ASSUME NEW p \in PadPorts, NEW b \in Buttons, Press(p, b) PROVE TypeOK'
  <2>1. held' \in [PadPorts -> SUBSET Buttons]
    BY <1>1 DEF TypeOK, Press
  <2> QED BY <1>1, <2>1 DEF TypeOK, Press
<1>2. ASSUME NEW f \in Files, Plug(f) PROVE TypeOK'
  BY <1>2 DEF TypeOK, Plug
<1>3. CASE Expire \/ Stopped \/ UNCHANGED vars
  BY <1>3 DEF TypeOK, Expire, Stopped, vars
<1>4. CASE RescuePoll \/ RescueEnds \/ EndPoll
  <2>1. old_pad' \in [PadPorts -> SUBSET Buttons]
    BY <1>4, ReadingTyped DEF TypeOK, RescuePoll, RescueEnds, EndPoll
  <2> QED BY <1>4, <2>1 DEF TypeOK, RescuePoll, RescueEnds, EndPoll
<1>5. CASE Probe
  <2>1. part' \in Parties \cup {NoParty} /\ mounted' \in Parties \cup {NoParty}
    BY <1>5, MountTyped DEF Probe
  <2>2. x' \in DOMAIN Sources /\ source' \in DOMAIN Sources \cup {NoSource}
    BY <1>5, SourceAssumption DEF TypeOK, Probe
  <2> QED BY <1>5, <2>1, <2>2 DEF TypeOK, Probe
<1>6. CASE ReadFile
  <2>1. /\ file' \in Configs \cup {<<>>} /\ line' \in 1 .. Len(file') + 1
        /\ bound' \in Tables
    <3>1. CASE file' \in Configs /\ line' = 1 /\ bound' = Configured(file')
      <4>1. file' \in Seq(Lines)
        BY <3>1, TableAssumption
      <4>2. Len(file') \in Nat
        BY <4>1
      <4> QED BY <3>1, <4>2, ConfiguredTyped
    <3> QED BY <1>6, <3>1 DEF TypeOK, ReadFile
  <2>2. /\ mounted' \in Parties \cup {NoParty} /\ config_buf' \in BOOLEAN /\ expired' \in BOOLEAN
        /\ pc' \in {"lines", "window"}
    BY <1>6 DEF TypeOK, ReadFile, Unmount, Window
  <2> QED BY <1>6, <2>1, <2>2 DEF TypeOK, ReadFile
<1>7. CASE Defaults
  <2>1. paths' \in Tables /\ bound' \in Tables
    BY <1>7, CheckedIsPath, ConstantsTyped, TableAssumption, ButtonAssumption DEF Defaults, Tables
  <2> QED BY <1>7, <2>1 DEF TypeOK, Defaults, Window
<1>8. CASE ParseEntry
  <2>1. file[line] \in Lines /\ line' \in 1 .. Len(file) + 1
    BY <1>8, LineTyped DEF ParseEntry
  <2>2. paths' \in Tables
    BY <1>8, <2>1, EntryTyped DEF TypeOK, ParseEntry, Lines
  <2> QED BY <1>8, <2>1, <2>2 DEF TypeOK, ParseEntry
<1>9. CASE ParseModule
  <2>1. line' \in 1 .. Len(file) + 1
    BY <1>9, LineTyped DEF ParseModule
  <2>2. part' \in Parties \cup {NoParty} /\ mounted' \in Parties \cup {NoParty}
    BY <1>9, MountTyped DEF ParseModule
  <2> QED BY <1>9, <2>1, <2>2 DEF TypeOK, ParseModule
<1>10. CASE ParseOther
  <2>1. line' \in 1 .. Len(file) + 1
    BY <1>10, LineTyped DEF ParseOther
  <2> QED BY <1>10, <2>1 DEF TypeOK, ParseOther
<1>11. CASE ParseEnds
  BY <1>11 DEF TypeOK, ParseEnds, Unmount, Window
<1>12. CASE KeyPoll
  <2>1. PICK R \in SUBSET PadPorts :
          Pressed(R) # {} /\ key' = Min(Pressed(R)) /\ j' = 0 /\ sampled' = ReadRaw(R)
    BY <1>12 DEF KeyPoll, Pressed
  <2>2. key' \in 0 .. NumButtons /\ sampled' \subseteq Buttons
    BY <2>1, RowTyped, ReadingTyped, ButtonAssumption
  <2> QED BY <1>12, <2>1, <2>2 DEF TypeOK, KeyPoll
<1>13. CASE WindowEnds
  BY <1>13, ConstantsTyped DEF TypeOK, WindowEnds
<1>14. CASE CheckFile
  <2> DEFINE p == Checked(paths[key][j], source)
  <2>1. p \in Paths /\ [paths EXCEPT ![key][j] = p] \in Tables
    BY EntryTyped, CheckedIsPath DEF TypeOK
  <2> HIDE DEF p
  <2>2. Mount(p) /\ cur' = p /\ paths' = [paths EXCEPT ![key][j] = p]
    BY <1>14 DEF CheckFile, p
  <2>3. part' \in Parties \cup {NoParty} /\ mounted' \in Parties \cup {NoParty}
    BY <2>2, MountTyped
  <2>4. handed' = handed \/ handed'.via = "kelf"
    BY <1>14, HandedVia DEF CheckFile
  <2>5. pads' \in BOOLEAN /\ pc' \in {"exist", "handover"}
    BY <1>14 DEF TypeOK, CheckFile, HandTo
  <2> QED BY <1>14, <2>1, <2>2, <2>3, <2>4, <2>5 DEF TypeOK, CheckFile
<1>15. CASE CheckCommand
  <2>1. cur' \in Paths
    BY <1>15, EntryTyped DEF TypeOK, CheckCommand
  <2>2. handed' = handed \/ handed'.via = "osdsys"
    BY <1>15, HandedVia DEF CheckCommand
  <2>3. pads' \in BOOLEAN /\ config_buf' \in BOOLEAN /\ cd' \in BOOLEAN
    BY <1>15 DEF TypeOK, CheckCommand, CleanUp
  <2>4. pc' \in {"disc", "credits", "exist", "handover"}
    BY <1>15 DEF CheckCommand, HandTo
  <2> QED BY <1>15, <2>1, <2>2, <2>3, <2>4 DEF TypeOK, CheckCommand
<1>16. CASE EmergencyTry \/ DiscBoots
  <2>1. handed'.via \in {"rescue", "disc"}
    BY <1>16, HandedVia DEF EmergencyTry, DiscBoots
  <2>2. pads' \in BOOLEAN /\ config_buf' \in BOOLEAN /\ cd' \in BOOLEAN /\ pc' = "handover"
    BY <1>16 DEF EmergencyTry, DiscBoots, HandTo, CleanUp
  <2> QED BY <1>16, <2>1, <2>2 DEF TypeOK, EmergencyTry, DiscBoots
<1>17. CASE NotFound \/ DiscFails
  BY <1>17 DEF TypeOK, NotFound, DiscFails
<1>18. CASE Launch
  BY <1>18 DEF TypeOK, Launch, CleanUp
<1>19. CASE RunLoaderElf
  <2>1. handed'.via = "elf" /\ pc' = "handover"
    BY <1>19, HandedVia DEF RunLoaderElf
  <2> QED BY <1>19, <2>1 DEF TypeOK, RunLoaderElf
<1> QED BY <1>1, <1>2, <1>3, <1>4, <1>5, <1>6, <1>7, <1>8, <1>9, <1>10, <1>11, <1>12, <1>13,
           <1>14, <1>15, <1>16, <1>17, <1>18, <1>19 DEF Next, Environment, Program, Disc

-----------------------------------------------------------------------------
(* What is held.                                                           *)

(* Until main leaves the console the pads are open, and the text of a      *)
(* configuration that was read is allocated; no path is bound before.  At  *)
(* "load" all of it has been given up.                                     *)
Held ==
  /\ pc # "handover" => handed = Nobody
  /\ pc \notin {"load", "handover"} => pads
  /\ pc = "load" => ~pads /\ ~cd /\ ~config_buf
  /\ pc \in {"rescue", "search", "parse", "defaults"} => bound = AllUnset /\ paths = AllUnset
  /\ pc \in {"rescue", "search", "defaults"} => source = NoSource
  /\ pc = "lines" => config_buf
  /\ pc \notin {"load", "handover"} /\ bound # AllUnset /\ source # NoSource => config_buf
  /\ HandoverIsClean

LEMMA HeldInv == Held /\ [Next]_vars => Held'
<1> SUFFICES ASSUME Held, [Next]_vars PROVE Held'
  OBVIOUS
<1> USE DEF envVars, cfgVars, fileVars, tryVars, hddVars, resVars
<1>1. CASE Environment \/ Expire \/ Stopped \/ UNCHANGED vars
  BY <1>1 DEF Held, HandoverIsClean, Environment, Press, Plug, Expire, Stopped, vars
<1>2. CASE RescuePoll \/ RescueEnds \/ EndPoll
  BY <1>2 DEF Held, HandoverIsClean, RescuePoll, RescueEnds, EndPoll
<1>3. CASE Probe
  BY <1>3 DEF Held, HandoverIsClean, Probe
<1>4. CASE ReadFile
  BY <1>4 DEF Held, HandoverIsClean, ReadFile, Window
<1>5. CASE Defaults
  BY <1>5 DEF Held, HandoverIsClean, Defaults, Window
<1>6. CASE ParseEntry \/ ParseModule \/ ParseOther \/ ParseEnds
  BY <1>6 DEF Held, HandoverIsClean, ParseEntry, ParseModule, ParseOther, ParseEnds, LineIs, Window
<1>7. CASE KeyPoll \/ WindowEnds \/ NotFound \/ DiscFails
  BY <1>7 DEF Held, HandoverIsClean, KeyPoll, WindowEnds, NotFound, DiscFails
<1>8. CASE CheckFile
  <2>1. CASE pc' = "exist"
    BY <1>8, <2>1 DEF Held, HandoverIsClean, CheckFile, HandTo
  <2>2. CASE pc' = "handover"
    <3>1. handed'.via = "kelf" /\ ~ pads'
      BY <1>8, <2>2, HandedVia DEF CheckFile
    <3> QED BY <2>2, <3>1 DEF Held, HandoverIsClean
  <2> QED BY <1>8, <2>1, <2>2 DEF CheckFile, HandTo
<1>9. CASE CheckCommand
  <2>1. CASE pc' = "handover"
    BY <1>9, <2>1 DEF Held, HandoverIsClean, CheckCommand, CleanUp
  <2>2. CASE pc' # "handover"
    BY <1>9, <2>2 DEF Held, HandoverIsClean, CheckCommand, HandTo
  <2> QED BY <2>1, <2>2
<1>10. CASE EmergencyTry \/ DiscBoots
  BY <1>10 DEF Held, HandoverIsClean, EmergencyTry, DiscBoots, CleanUp, HandTo
<1>11. CASE Launch
  BY <1>11 DEF Held, HandoverIsClean, Launch, CleanUp
<1>12. CASE RunLoaderElf
  BY <1>12 DEF Held, HandoverIsClean, RunLoaderElf, HandTo
<1> QED BY <1>1, <1>2, <1>3, <1>4, <1>5, <1>6, <1>7, <1>8, <1>9, <1>10, <1>11, <1>12
        DEF Next, Program, Disc

-----------------------------------------------------------------------------
(* The partition.                                                          *)

(* The path that is about to be looked for was the last to mount.          *)
Mounted ==
  /\ pc \in {"exist", "disc"} /\ cur.dev \in Parties =>
       part = cur.dev /\ mounted \in {cur.dev, NoParty}
  /\ pc = "load" /\ cur.dev \in Parties => part = cur.dev /\ mounted = cur.dev
  /\ pc = "disc" => cur.dev \notin Parties
  /\ PartitionIsOwn

LEMMA MountedInv == TypeOK /\ Held /\ Mounted /\ [Next]_vars => Mounted'
<1> SUFFICES ASSUME TypeOK, Held, Mounted, [Next]_vars PROVE Mounted'
  OBVIOUS
<1> USE DEF envVars, cfgVars, fileVars, tryVars, hddVars, resVars
<1>1. CASE Environment \/ Expire \/ Stopped \/ UNCHANGED vars
  BY <1>1 DEF Mounted, PartitionIsOwn, Environment, Press, Plug, Expire, Stopped, vars
<1>2. CASE pc' \notin {"exist", "disc", "load", "handover"} /\ handed' = handed /\ handed = Nobody
  BY <1>2 DEF Mounted, PartitionIsOwn, Nobody
<1>3. CASE RescuePoll \/ RescueEnds \/ EndPoll \/ Probe \/ ReadFile \/ Defaults \/ ParseEntry
           \/ ParseModule \/ ParseOther \/ ParseEnds \/ KeyPoll \/ WindowEnds
  BY <1>2, <1>3 DEF Held, RescuePoll, RescueEnds, EndPoll, Probe, ReadFile, Defaults, ParseEntry,
     ParseModule, ParseOther, ParseEnds, LineIs, KeyPoll, WindowEnds, Window
<1>4. CASE NotFound
  BY <1>2, <1>4 DEF Held, NotFound
<1>5. CASE DiscFails
  BY <1>5 DEF Held, Mounted, PartitionIsOwn, DiscFails
<1>6. CASE CheckFile
  <2>1. CASE pc' = "exist"
    <3>1. handed' = Nobody /\ Mount(cur')
      BY <1>6, <2>1 DEF Held, CheckFile, HandTo
    <3> QED BY <2>1, <3>1 DEF Mounted, PartitionIsOwn, Mount, Nobody
  <2>2. CASE pc' = "handover"
    <3>1. handed'.via = "kelf"
      BY <1>6, <2>2, HandedVia DEF CheckFile
    <3> QED BY <2>2, <3>1 DEF Mounted, PartitionIsOwn
  <2> QED BY <1>6, <2>1, <2>2 DEF CheckFile, HandTo
<1>7. CASE CheckCommand
  <2>1. cur'.dev = "$" /\ "$" \notin Parties
    BY <1>7, PartyAssumption DEF CheckCommand
  <2>2. handed' = handed \/ handed'.via = "osdsys"
    BY <1>7, HandedVia DEF CheckCommand
  <2>3. pc = "resolve" /\ handed.via # "elf"
    BY <1>7 DEF CheckCommand, Held, Nobody
  <2> QED BY <2>1, <2>2, <2>3 DEF Mounted, PartitionIsOwn
<1>8. CASE EmergencyTry \/ DiscBoots
  <2>1. handed'.via \in {"rescue", "disc"} /\ pc' = "handover"
    BY <1>8, HandedVia DEF EmergencyTry, DiscBoots
  <2> QED BY <2>1 DEF Mounted, PartitionIsOwn
<1>9. CASE Launch
  <2>1. /\ handed' = Nobody /\ pc' = "load" /\ pc = "exist"
        /\ cur' = cur /\ part' = part /\ mounted' = mounted /\ Exists(cur, mounted)
    BY <1>9 DEF Launch, Held
  <2>2. cur.dev \in Parties => mounted # NoParty
    <3>1. ASSUME cur.dev \in Parties, mounted = NoParty PROVE FALSE
      <4>1. <<NoParty, cur.file>> \in Files
        BY <2>1, <3>1 DEF Exists, TypeOK
      <4> QED BY <4>1, PartyAssumption
    <3> QED BY <3>1
  <2> QED BY <2>1, <2>2 DEF Mounted, PartitionIsOwn, Nobody
<1>10. CASE RunLoaderElf
  <2>1. /\ handed'.party = part /\ pc' = "handover" /\ pc = "load"
        /\ cur' = cur /\ mounted' = mounted
    BY <1>10, HandedVia DEF RunLoaderElf
  <2> QED BY <2>1 DEF Mounted, PartitionIsOwn
<1> QED BY <1>1, <1>3, <1>4, <1>5, <1>6, <1>7, <1>8, <1>9, <1>10 DEF Next, Program, Disc

-----------------------------------------------------------------------------
(* The configuration.                                                      *)

(* The lines for an entry among the first n, and what they configure.      *)
LinesFor(k, i, n) ==
  {m \in 1 .. n : file[m].kind = "entry" /\ file[m].key = k /\ file[m].entry = i}

PathAfter(k, i, n) ==
  IF LinesFor(k, i, n) = {} THEN Unset ELSE file[Max(LinesFor(k, i, n))].path

(* The lines behind CNFBUFF are in the table, and none of them ended it.   *)
Parsed ==
  pc = "lines" =>
    /\ file \in Configs /\ bound = Configured(file)
    /\ \A m \in 1 .. line - 1 : ~ Stops(file[m])
    /\ \A k \in 0 .. NumButtons, i \in 0 .. 2 : paths[k][i] = PathAfter(k, i, line - 1)

(* One more line.                                                          *)
LEMMA NextLine ==
  ASSUME NEW n \in Nat, NEW k \in 0 .. NumButtons, NEW i \in 0 .. 2
  PROVE  PathAfter(k, i, n + 1) =
           IF file[n + 1].kind = "entry" /\ file[n + 1].key = k /\ file[n + 1].entry = i
           THEN file[n + 1].path ELSE PathAfter(k, i, n)
<1> DEFINE S == LinesFor(k, i, n)
           T == LinesFor(k, i, n + 1)
<1>0. T \in SUBSET (0 .. n + 1) /\ n + 1 \in Nat
  BY DEF LinesFor
<1>1. CASE file[n + 1].kind = "entry" /\ file[n + 1].key = k /\ file[n + 1].entry = i
  <2>1. n + 1 \in T
    BY <1>1 DEF LinesFor
  <2> HIDE DEF T
  <2>2. Max(T) \in T /\ Max(T) >= n + 1
    BY <1>0, <2>1, GreatestElement
  <2>3. Max(T) = n + 1
    <3>1. Max(T) \in 0 .. n + 1
      BY <1>0, <2>2
    <3> QED BY <2>2, <3>1
  <2>4. PathAfter(k, i, n + 1) = file[n + 1].path
    BY <2>1, <2>3 DEF PathAfter, T
  <2> QED BY <1>1, <2>4
<1>2. CASE ~ (file[n + 1].kind = "entry" /\ file[n + 1].key = k /\ file[n + 1].entry = i)
  <2>1. \A m \in 1 .. n + 1 : m \in 1 .. n \/ m = n + 1
    OBVIOUS
  <2>2. 1 .. n \subseteq 1 .. n + 1
    OBVIOUS
  <2>3. T = S
    BY <1>2, <2>1, <2>2 DEF LinesFor
  <2> QED BY <1>2, <2>3 DEF PathAfter
<1> QED BY <1>1, <1>2

(* At the end of the file, or at a line that ends it, all is configured.   *)
LEMMA AllParsed ==
  ASSUME TypeOK, Parsed, pc = "lines", line > Len(file) \/ LineIs({"bare", "cut"}),
         NEW k \in 0 .. NumButtons, NEW i \in 0 .. 2
  PROVE  paths[k][i] = bound[k][i]
<1>1. file \in Seq(Lines) /\ line \in 1 .. Len(file) + 1
  BY TableAssumption DEF TypeOK, Parsed
<1>2. Len(file) \in Nat /\ DOMAIN file = 1 .. Len(file)
  BY <1>1
<1> DEFINE read == {n \in DOMAIN file : \A m \in 1 .. n : ~ Stops(file[m])}
<1>3. ASSUME NEW n \in 1 .. line - 1 PROVE n \in read
  <2>1. n \in DOMAIN file /\ \A m \in 1 .. n : m \in 1 .. line - 1
    BY <1>1, <1>2
  <2> QED BY <2>1 DEF Parsed
<1>4. ASSUME NEW n \in read PROVE n \in 1 .. line - 1
  <2>1. CASE line > Len(file)
    BY <1>1, <1>2, <2>1
  <2>2. CASE LineIs({"bare", "cut"})
    <3>1. Stops(file[line])
      BY <2>2 DEF LineIs, Stops
    <3>2. line \notin 1 .. n
      BY <3>1
    <3> QED BY <1>1, <1>2, <3>2
  <2> QED BY <2>1, <2>2
<1>5. read = 1 .. line - 1
  BY <1>3, <1>4
<1>6. Configured(file)[k][i] = PathAfter(k, i, line - 1)
  BY <1>5 DEF Configured, PathAfter, LinesFor
<1> QED BY <1>6 DEF Parsed

LEMMA ParsedInv == TypeOK /\ Held /\ Parsed /\ [Next]_vars => Parsed'
<1> SUFFICES ASSUME TypeOK, Held, Parsed, [Next]_vars PROVE Parsed'
  OBVIOUS
<1> USE DEF envVars, cfgVars, fileVars, tryVars, hddVars, resVars
<1>1. CASE pc' # "lines"
  BY <1>1 DEF Parsed
<1>2. CASE UNCHANGED <<pc, file, line, bound, paths>>
  <2>1. \A k \in 0 .. NumButtons, i \in 0 .. 2 :
          PathAfter(k, i, line - 1)' = PathAfter(k, i, line - 1)
    BY <1>2 DEF PathAfter, LinesFor
  <2> QED BY <1>2, <2>1 DEF Parsed
<1>3. CASE ReadFile
  <2> SUFFICES ASSUME pc' = "lines" PROVE Parsed'
    BY <1>1
  <2>1. /\ file' \in Configs /\ line' = 1 /\ bound' = Configured(file') /\ paths' = AllUnset
    BY <1>3 DEF ReadFile, Window, Held
  <2>2. 1 .. line' - 1 = {}
    BY <2>1
  <2>3. ASSUME NEW k \in 0 .. NumButtons, NEW i \in 0 .. 2
        PROVE  paths'[k][i] = PathAfter(k, i, line - 1)'
    BY <2>1, <2>2 DEF PathAfter, LinesFor, AllUnset
  <2> QED BY <2>1, <2>2, <2>3 DEF Parsed
<1>4. CASE ParseEntry \/ ParseModule \/ ParseOther
  <2>1. /\ pc = "lines" /\ pc' = "lines" /\ file' = file /\ bound' = bound /\ line' = line + 1
        /\ LineIs({"entry", "irx", "other", "skip"})
    BY <1>4 DEF ParseEntry, ParseModule, ParseOther, LineIs
  <2>2. file[line] \in Lines /\ line \in Nat /\ line - 1 \in Nat /\ (line - 1) + 1 = line
    <3>1. line \in DOMAIN file /\ file \in Seq(Lines)
      BY <2>1, LineTyped, TableAssumption DEF Parsed
    <3> QED BY <2>1, <3>1, LineTyped
  <2>3. ~ Stops(file[line])
    BY <2>1 DEF LineIs, Stops
  <2>4. \A m \in 1 .. line' - 1 : ~ Stops(file'[m])
    <3>1. ASSUME NEW m \in 1 .. line PROVE m \in 1 .. line - 1 \/ m = line
      BY <2>2
    <3>2. line' - 1 = line
      BY <2>1, <2>2
    <3> QED BY <2>1, <2>3, <3>1, <3>2 DEF Parsed
  <2>5. ASSUME NEW k \in 0 .. NumButtons, NEW i \in 0 .. 2
        PROVE  paths'[k][i] = PathAfter(k, i, line)
    <3>1. PathAfter(k, i, line) =
            IF file[line].kind = "entry" /\ file[line].key = k /\ file[line].entry = i
            THEN file[line].path ELSE paths[k][i]
      BY <2>1, <2>2, NextLine DEF Parsed
    <3>2. CASE ParseEntry
      <4>1. paths' = [paths EXCEPT ![file[line].key][file[line].entry] = file[line].path]
            /\ file[line].kind = "entry"
        BY <3>2 DEF ParseEntry, LineIs
      <4>2. file[line].key \in 0 .. NumButtons /\ file[line].entry \in 0 .. 2
        BY <2>2 DEF Lines
      <4> QED BY <3>1, <4>1, <4>2 DEF TypeOK, Tables
    <3>3. CASE ParseModule \/ ParseOther
      BY <3>1, <3>3 DEF ParseModule, ParseOther, LineIs
    <3> QED BY <1>4, <3>2, <3>3
  <2>6. line' - 1 = line
    BY <2>1, <2>2
  <2>7. \A k \in 0 .. NumButtons, i \in 0 .. 2 : PathAfter(k, i, line - 1)' = PathAfter(k, i, line)
    BY <2>1, <2>6 DEF PathAfter, LinesFor
  <2> QED BY <2>1, <2>4, <2>5, <2>7 DEF Parsed
<1>5. CASE Environment \/ Expire \/ Stopped \/ UNCHANGED vars
  BY <1>2, <1>5 DEF Environment, Press, Plug, Expire, Stopped, vars
<1>6. CASE RescuePoll \/ RescueEnds \/ EmergencyTry \/ Probe \/ Defaults \/ ParseEnds \/ KeyPoll
           \/ WindowEnds \/ Launch \/ RunLoaderElf \/ NotFound \/ EndPoll \/ Disc
  BY <1>1, <1>6 DEF RescuePoll, RescueEnds, EmergencyTry, Probe, Defaults, ParseEnds, KeyPoll,
     WindowEnds, Launch, RunLoaderElf, NotFound, EndPoll, Disc, DiscBoots, DiscFails, HandTo, Window
<1>7. CASE CheckFile \/ CheckCommand
  BY <1>1, <1>7 DEF CheckFile, CheckCommand, HandTo
<1> QED BY <1>3, <1>4, <1>5, <1>6, <1>7 DEF Next, Program

-----------------------------------------------------------------------------
(* What is started.                                                        *)

Choosing == {"resolve", "exist", "disc", "load", "credits"}

(* Why the row is the one that is tried.                                   *)
Chosen ==
  IF key = 0 THEN expired
  ELSE /\ ButtonOf(key) \in sampled
       /\ \A k \in 1 .. key - 1 : ButtonOf(k) \notin sampled

Faithful == \A k \in 0 .. NumButtons, i \in 0 .. 2 : SameFile(paths[k][i], bound[k][i])

(* CheckPath changes strings, and none to another file.                    *)
Bound ==
  /\ pc \in Choosing \cup {"window", "end"} => Faithful
  /\ pc \in Choosing => Chosen
  /\ pc \in Choosing \ {"resolve"} => SameFile(cur, bound[key][j])
  /\ LaunchIsBound

(* What is handed over is what was chosen.                                 *)
LEMMA HandedBound ==
  ASSUME NEW via, NEW party, HandTo(via, cur', party), Chosen,
         SameFile(cur', bound[key][j]), UNCHANGED <<key, j, sampled, bound, expired, source>>
  PROVE  Bound'
<1>1. /\ handed'.path = cur' /\ handed'.key = key' /\ pc' = "handover"
      /\ SameFile(handed'.path, bound'[handed'.key][j'])
  BY HandedVia
<1>2. IF key = 0 THEN expired'
      ELSE /\ ButtonOf(key)' \in sampled'
           /\ \A k \in 1 .. key - 1 : ButtonOf(k)' \notin sampled'
  BY DEF Chosen, ButtonOf
<1>3. LaunchIsBound'
  BY <1>1, <1>2 DEF LaunchIsBound, ButtonOf
<1> QED BY <1>1, <1>3 DEF Bound, Choosing

LEMMA BoundInv == TypeOK /\ Held /\ Parsed /\ Bound /\ [Next]_vars => Bound'
<1> SUFFICES ASSUME TypeOK, Held, Parsed, Bound, [Next]_vars PROVE Bound'
  OBVIOUS
<1> USE DEF envVars, cfgVars, fileVars, tryVars, hddVars, resVars
<1>1. CASE Environment \/ Expire \/ Stopped \/ UNCHANGED vars
  <2>1. UNCHANGED <<pc, paths, bound, key, j, sampled, cur, handed, source>>
        /\ (expired' = expired \/ expired' = TRUE)
    BY <1>1 DEF Environment, Press, Plug, Expire, Stopped, vars
  <2>2. (Faithful => Faithful') /\ (LaunchIsBound => LaunchIsBound')
    BY <2>1 DEF Faithful, LaunchIsBound, InConfig, ButtonOf
  <2>3. Chosen => Chosen'
    BY <2>1 DEF Chosen, ButtonOf
  <2> QED BY <2>1, <2>2, <2>3 DEF Bound
<1>2. ASSUME handed = Nobody, handed' = handed PROVE LaunchIsBound'
  BY <1>2 DEF LaunchIsBound, Nobody
<1>3. CASE RescuePoll \/ RescueEnds \/ Probe \/ ParseEntry \/ ParseModule \/ ParseOther \/ EndPoll
  <2>1. handed = Nobody /\ handed' = handed /\ pc' \notin Choosing \cup {"window"}
    BY <1>3 DEF Held, RescuePoll, RescueEnds, Probe, ParseEntry, ParseModule, ParseOther, LineIs,
       EndPoll, Choosing
  <2>2. pc' = "end" => Faithful'
    BY <1>3 DEF RescuePoll, RescueEnds, Probe, ParseEntry, ParseModule, ParseOther, LineIs, EndPoll,
       Bound, Faithful
  <2> QED BY <1>2, <2>1, <2>2 DEF Bound, Choosing
<1>4. ASSUME pc' = "window", handed = Nobody, handed' = handed, Faithful' PROVE Bound'
  BY <1>2, <1>4 DEF Bound, Choosing
<1>5. CASE ReadFile
  <2>1. handed = Nobody /\ handed' = handed /\ paths' = AllUnset /\ bound = AllUnset
        /\ pc' \in {"lines", "window"}
    BY <1>5 DEF ReadFile, Held, Window
  <2>2. CASE pc' = "lines"
    BY <1>2, <2>1, <2>2 DEF Bound, Choosing
  <2>3. CASE pc' = "window"
    <3>1. bound' = AllUnset
      BY <1>5, <2>1, <2>3 DEF ReadFile
    <3>2. Faithful'
      BY <2>1, <3>1 DEF Faithful, SameFile
    <3> QED BY <1>4, <2>1, <2>3, <3>2
  <2> QED BY <2>1, <2>2, <2>3
<1>6. CASE Defaults
  <2>1. handed = Nobody /\ handed' = handed /\ pc' = "window"
    BY <1>6 DEF Defaults, Held, Window
  <2>2. ASSUME NEW k \in 0 .. NumButtons, NEW i \in 0 .. 2
        PROVE  SameFile(paths'[k][i], bound'[k][i])
    <3>1. CASE k <= NumDefaults
      <4>1. /\ paths'[k][i] = Checked(DefaultPaths[k][i], source)
            /\ bound'[k][i] = DefaultPaths[k][i]
        BY <1>6, <3>1 DEF Defaults
      <4>2. SameFile(DefaultPaths[k][i], DefaultPaths[k][i])
        BY DEF SameFile
      <4> QED BY <4>1, <4>2, CheckedSame
    <3>2. CASE ~ (k <= NumDefaults)
      BY <1>6, <3>2 DEF Defaults, SameFile
    <3> QED BY <3>1, <3>2
  <2> QED BY <1>4, <2>1, <2>2 DEF Faithful
<1>7. CASE ParseEnds
  <2>1. /\ pc = "lines" /\ handed = Nobody /\ handed' = handed /\ pc' = "window"
        /\ paths' = paths /\ bound' = bound /\ (line > Len(file) \/ LineIs({"bare", "cut"}))
    BY <1>7 DEF ParseEnds, Held, Window
  <2>2. Faithful'
    BY <2>1, AllParsed DEF Faithful, SameFile
  <2> QED BY <1>4, <2>1, <2>2
<1>8. CASE KeyPoll
  <2>1. PICK R \in SUBSET PadPorts :
          Pressed(R) # {} /\ key' = Min(Pressed(R)) /\ j' = 0 /\ sampled' = ReadRaw(R)
    BY <1>8 DEF KeyPoll, Pressed
  <2>2. /\ UNCHANGED <<paths, bound, source, handed>> /\ pc = "window" /\ pc' = "resolve"
        /\ handed = Nobody
    BY <1>8 DEF KeyPoll, Held
  <2>3. Chosen'
    <3>1. /\ key' # 0 /\ ButtonOf(key') \in sampled'
          /\ \A k \in 1 .. key' - 1 : ButtonOf(k) \notin sampled'
      BY <2>1, RowTyped, ButtonAssumption
    <3> QED BY <2>2, <3>1 DEF Chosen, ButtonOf
  <2>4. Faithful'
    BY <2>2 DEF Bound, Faithful
  <2> QED BY <1>2, <2>2, <2>3, <2>4 DEF Bound, Choosing
<1>9. CASE WindowEnds
  <2>1. /\ UNCHANGED <<paths, bound, source, handed, expired>> /\ pc = "window" /\ pc' = "resolve"
        /\ handed = Nobody /\ key' = 0 /\ expired
    BY <1>9 DEF WindowEnds, Held
  <2>2. Chosen' /\ Faithful'
    BY <2>1 DEF Bound, Faithful, Chosen
  <2> QED BY <1>2, <2>1, <2>2 DEF Bound, Choosing
<1>10. CASE CheckFile
  <2> DEFINE p == Checked(paths[key][j], source)
  <2>1. /\ cur' = p /\ paths' = [paths EXCEPT ![key][j] = p] /\ pc = "resolve" /\ handed = Nobody
        /\ UNCHANGED <<key, j, sampled, bound, expired, source>>
    BY <1>10 DEF CheckFile, Held
  <2>2. key \in 0 .. NumButtons /\ j \in 0 .. 2 /\ paths \in Tables
    BY DEF TypeOK
  <2>3. SameFile(cur', bound[key][j]) /\ Chosen
    BY <2>1, <2>2, CheckedSame DEF Bound, Faithful, Choosing
  <2>4. CASE handed' = handed /\ pc' = "exist"
    <3>1. Faithful'
      <4>1. ASSUME NEW k \in 0 .. NumButtons, NEW i \in 0 .. 2
            PROVE  paths'[k][i] = IF k = key /\ i = j THEN cur' ELSE paths[k][i]
        BY <2>1, <2>2 DEF Tables
      <4> QED BY <2>1, <2>3, <4>1 DEF Bound, Choosing, Faithful
    <3>2. Chosen' /\ SameFile(cur', bound'[key'][j'])
      BY <2>1, <2>3 DEF Chosen, ButtonOf
    <3> QED BY <1>2, <2>1, <2>4, <3>1, <3>2 DEF Bound
  <2>5. CASE HandTo("kelf", p, NoParty)
    BY <2>1, <2>3, <2>5, HandedBound
  <2> QED BY <1>10, <2>4, <2>5 DEF CheckFile
<1>11. CASE CheckCommand
  <2>1. /\ cur' = paths[key][j] /\ pc = "resolve" /\ handed = Nobody
        /\ UNCHANGED <<key, j, sampled, bound, expired, source, paths>>
    BY <1>11 DEF CheckCommand, Held
  <2>2. SameFile(cur', bound[key][j]) /\ Chosen
    BY <2>1 DEF TypeOK, Bound, Faithful, Choosing
  <2>3. CASE handed' = handed
    <3>1. Faithful' /\ Chosen' /\ SameFile(cur', bound'[key'][j'])
      BY <2>1, <2>2 DEF Bound, Faithful, Choosing, Chosen, ButtonOf
    <3> QED BY <1>2, <2>1, <2>3, <3>1 DEF Bound
  <2>4. CASE HandTo("osdsys", cur', NoParty)
    BY <2>1, <2>2, <2>4, HandedBound
  <2> QED BY <1>11, <2>3, <2>4 DEF CheckCommand
<1>12. CASE RunLoaderElf \/ DiscBoots
  <2>1. /\ pc \in {"load", "disc"} /\ cur' = cur
        /\ UNCHANGED <<key, j, sampled, bound, expired, source>>
    BY <1>12 DEF RunLoaderElf, DiscBoots
  <2>2. SameFile(cur', bound[key][j]) /\ Chosen
    BY <2>1 DEF Bound, Choosing
  <2>3. CASE HandTo("elf", cur', part) \/ HandTo("disc", cur', NoParty)
    BY <2>1, <2>2, <2>3, HandedBound
  <2>4. CASE InConfig(key, j) /\ HandTo("elf", Overwritten, part)
    <3>1. /\ handed'.path = Overwritten /\ handed'.key = key' /\ handed'.via = "elf"
          /\ pc' = "handover" /\ InConfig(handed.key, j)'
      BY <2>1, <2>4, HandedVia DEF InConfig
    <3>2. IF key = 0 THEN expired'
          ELSE /\ ButtonOf(key)' \in sampled'
               /\ \A k \in 1 .. key - 1 : ButtonOf(k)' \notin sampled'
      BY <2>1, <2>2 DEF Chosen, ButtonOf
    <3>3. LaunchIsBound'
      BY <2>1, <3>1, <3>2 DEF LaunchIsBound, ButtonOf
    <3> QED BY <3>1, <3>3 DEF Bound, Choosing
  <2> QED BY <1>12, <2>1, <2>3, <2>4 DEF RunLoaderElf, DiscBoots
<1>13. CASE EmergencyTry
  <2>1. handed'.via = "rescue" /\ pc' = "handover"
    BY <1>13, HandedVia DEF EmergencyTry
  <2> QED BY <2>1 DEF Bound, Choosing, LaunchIsBound
<1>14. CASE DiscFails
  <2>1. /\ pc = "disc" /\ pc' = "exist" /\ handed = Nobody
        /\ UNCHANGED <<key, j, sampled, bound, expired, source, paths, cur, handed>>
    BY <1>14 DEF DiscFails, Held
  <2>2. Faithful' /\ Chosen' /\ SameFile(cur', bound'[key'][j'])
    BY <2>1 DEF Bound, Faithful, Choosing, Chosen, ButtonOf
  <2> QED BY <1>2, <2>1, <2>2 DEF Bound
<1>15. CASE Launch
  <2>1. /\ pc = "exist" /\ pc' = "load" /\ handed = Nobody
        /\ UNCHANGED <<key, j, sampled, bound, expired, source, paths, cur, handed>>
    BY <1>15 DEF Launch, Held
  <2>2. Faithful' /\ Chosen' /\ SameFile(cur', bound'[key'][j'])
    BY <2>1 DEF Bound, Faithful, Choosing, Chosen, ButtonOf
  <2> QED BY <1>2, <2>1, <2>2 DEF Bound
<1>16. CASE NotFound
  <2>1. /\ pc = "exist" /\ handed = Nobody /\ pc' \in {"resolve", "end", "window"}
        /\ UNCHANGED <<key, sampled, bound, expired, source, paths, handed>>
    BY <1>16 DEF NotFound, Held
  <2>2. Faithful' /\ Chosen'
    BY <2>1 DEF Bound, Faithful, Choosing, Chosen, ButtonOf
  <2> QED BY <1>2, <2>1, <2>2 DEF Bound, Choosing
<1> QED BY <1>1, <1>3, <1>5, <1>6, <1>7, <1>8, <1>9, <1>10, <1>11, <1>12, <1>13, <1>14, <1>15,
           <1>16 DEF Next, Program, Disc

-----------------------------------------------------------------------------

IInv == TypeOK /\ Held /\ Mounted /\ Parsed /\ Bound

LEMMA InitInv == Init => IInv
<1> SUFFICES ASSUME Init PROVE IInv
  OBVIOUS
<1>1. /\ pc = "rescue" /\ source = NoSource /\ paths = AllUnset /\ bound = AllUnset
      /\ handed = Nobody /\ pads = TRUE /\ expired = FALSE /\ config_buf = FALSE /\ cd = TRUE
  BY Zenon DEF Init
<1>2. Held /\ Mounted /\ Parsed /\ Bound
  BY <1>1 DEF Held, HandoverIsClean, Mounted, PartitionIsOwn, Parsed, Bound, Choosing,
              LaunchIsBound, Nobody
<1>3. TypeOK
  <2>1. held \in [PadPorts -> SUBSET Buttons] /\ old_pad \in [PadPorts -> SUBSET Buttons]
    BY ButtonAssumption DEF Init
  <2>2. /\ present \subseteq Files /\ sampled \subseteq Buttons /\ cur \in Paths
        /\ paths \in Tables /\ bound \in Tables /\ key \in 0 .. NumButtons /\ j \in 0 .. 2
    BY ConstantsTyped DEF Init
  <2>3. x \in DOMAIN Sources
    BY SourceAssumption DEF Init
  <2>4. file \in Configs \cup {<<>>} /\ line \in 1 .. Len(file) + 1
    BY DEF Init
  <2>5. part \in Parties \cup {NoParty} /\ mounted \in Parties \cup {NoParty}
    BY DEF Init
  <2>6. {expired, pads, config_buf, cd} \subseteq BOOLEAN
    BY <1>1
  <2> QED BY <1>1, <2>1, <2>2, <2>3, <2>4, <2>5, <2>6 DEF TypeOK, Nobody
<1> QED BY <1>2, <1>3 DEF IInv

LEMMA Invariance == Spec => []IInv
<1>1. IInv /\ [Next]_vars => IInv'
  BY TypeInv, HeldInv, MountedInv, ParsedInv, BoundInv DEF IInv
<1> QED BY <1>1, InitInv, PTL DEF Spec

(* The variables keep their types and bounds.                              *)
THEOREM TypeCorrect == Spec => []TypeOK
<1>1. IInv => TypeOK
  BY DEF IInv
<1> QED BY <1>1, Invariance, PTL

(* main has its pads as long as it polls them, and the text behind the     *)
(* paths as long as it looks them up; not when RunLoaderElf reads one.     *)
THEOREM ResourcesAreHeld == Spec => []ResourcesHeld
<1>1. IInv => ResourcesHeld
  BY DEF IInv, Held, ResourcesHeld
<1> QED BY <1>1, Invariance, PTL

(* Whenever RunLoaderElf reads a path the configuration has been freed: a  *)
(* configured path is never read from memory that is still allocated.      *)
THEOREM PathsAreReadFreed == Spec => [](pc = "load" => ~config_buf)
<1>1. IInv => (pc = "load" => ~config_buf)
  BY DEF IInv, Held
<1> QED BY <1>1, Invariance, PTL

(* CleanUp has been called, but for $RUNKELF: which only closes the pads.  *)
THEOREM HandoversAreClean == Spec => []HandoverIsClean
<1>1. IInv => HandoverIsClean
  BY DEF IInv, Held
<1> QED BY <1>1, Invariance, PTL

(* RunLoaderElf gets the partition of the path that CheckPath returned.    *)
THEOREM PartitionsAreOwn == Spec => []PartitionIsOwn
<1>1. IInv => PartitionIsOwn
  BY DEF IInv, Mounted
<1> QED BY <1>1, Invariance, PTL

(* main starts what was bound to the first key that was down, unless the   *)
(* path was overwritten in the text that CleanUp had freed.                *)
THEOREM LaunchesAreBound == Spec => []LaunchIsBound
<1>1. IInv => LaunchIsBound
  BY DEF IInv, Bound
<1> QED BY <1>1, Invariance, PTL

-----------------------------------------------------------------------------
(* What is left to do.                                                     *)

(* A try of a path of a row: the stages before it, it and after it.        *)
LEMMA TryEnds ==
  ASSUME Trying, pc' \in {"window", "end", "credits", "load", "handover"}, pc' = "window" => key # 0
  PROVE  Stage' < Stage
BY DEF Trying, Stage

LEMMA TryGoesOn ==
  ASSUME Trying, Trying', key' = key, LeftInStage' < LeftInStage
  PROVE  LeavesLess
<1>1. Stage' = Stage
  BY DEF Trying, Stage
<1> QED BY <1>1 DEF LeavesLess

LEMMA StepsLeaveLess ==
  ASSUME TypeOK, Program \/ Disc
  PROVE  LeavesLess \/ (pc \in {"rescue", "window"} /\ ~expired)
<1> USE DEF tryVars, cfgVars, fileVars
<1>0. x \in Int /\ j \in 0 .. 2 /\ Len(file) \in Nat /\ line \in Int
  <2>1. file \in Seq(Lines)
    <3>1. << >> \in Seq(Lines)
      OBVIOUS
    <3> QED BY <3>1, TableAssumption DEF TypeOK
  <2>2. Len(file) \in Nat
    BY <2>1
  <2> QED BY <2>2, SourceAssumption DEF TypeOK
<1>1. CASE RescuePoll \/ KeyPoll
  BY <1>1 DEF RescuePoll, KeyPoll
<1>2. CASE RescueEnds \/ EmergencyTry \/ EndPoll
  BY <1>2 DEF RescueEnds, EmergencyTry, EndPoll, HandTo, Trying, Stage, LeavesLess
<1>3. CASE Probe
  <2>1. CASE pc' \in {"parse", "defaults"}
    BY <1>3, <2>1 DEF Probe, Trying, Stage, LeavesLess
  <2>2. CASE pc' = "search" /\ x' = x - 1
    <3>1. pc = "search"
      BY <1>3 DEF Probe
    <3> QED BY <1>0, <2>2, <3>1 DEF Stage, LeftInStage, LeavesLess, Trying
  <2> QED BY <1>3, <2>1, <2>2 DEF Probe
<1>4. CASE ReadFile \/ Defaults
  BY <1>4 DEF ReadFile, Defaults, Window, Trying, Stage, LeavesLess
<1>5. CASE ParseEntry \/ ParseModule \/ ParseOther
  <2>1. pc = "lines" /\ pc' = "lines" /\ file' = file /\ line' = line + 1
    BY <1>5 DEF ParseEntry, ParseModule, ParseOther, LineIs
  <2>2. Stage' = Stage /\ LeftInStage = Len(file) + 1 - line /\ LeftInStage' = Len(file) + 1 - (line + 1)
    BY <2>1 DEF Stage, LeftInStage, Trying
  <2> QED BY <1>0, <2>2 DEF LeavesLess
<1>6. CASE ParseEnds
  BY <1>6 DEF ParseEnds, Window, Trying, Stage, LeavesLess
<1>7. CASE WindowEnds
  BY <1>7 DEF WindowEnds, Trying, Stage, LeavesLess
<1>8. CASE CheckFile \/ CheckCommand
  <2>1. /\ pc = "resolve" /\ key' = key /\ j' = j
        /\ pc' \in {"exist", "disc", "credits", "handover"}
    BY <1>8 DEF CheckFile, CheckCommand, HandTo
  <2>2. CASE pc' \in {"exist", "disc"}
    <3>1. LeftInStage' < LeftInStage
      BY <1>0, <2>1, <2>2 DEF LeftInStage
    <3> QED BY <2>1, <2>2, <3>1, TryGoesOn DEF Trying
  <2>3. CASE pc' \in {"credits", "handover"}
    BY <2>1, <2>3, TryEnds DEF Trying, LeavesLess
  <2> QED BY <2>1, <2>2, <2>3
<1>9. CASE Launch \/ DiscBoots
  BY <1>9, TryEnds DEF Launch, DiscBoots, HandTo, Trying, LeavesLess
<1>10. CASE RunLoaderElf
  <2>1. pc = "load" /\ pc' = "handover"
    BY <1>10 DEF RunLoaderElf, HandTo
  <2>2. Stage = 0 /\ Stage' = 0 /\ LeftInStage = 1 /\ LeftInStage' = 0
    BY <2>1 DEF Stage, LeftInStage, Trying
  <2> QED BY <2>2 DEF LeavesLess
<1>11. CASE DiscFails
  <2>1. pc = "disc" /\ pc' = "exist" /\ key' = key /\ j' = j
    BY <1>11 DEF DiscFails
  <2>2. LeftInStage' < LeftInStage
    BY <1>0, <2>1 DEF LeftInStage
  <2> QED BY <2>1, <2>2, TryGoesOn DEF Trying
<1>12. CASE NotFound
  <2>1. CASE j < 2
    <3>1. pc = "exist" /\ pc' = "resolve" /\ key' = key /\ j' = j + 1
      BY <1>12, <2>1 DEF NotFound
    <3>2. LeftInStage' < LeftInStage
      BY <1>0, <3>1 DEF LeftInStage
    <3> QED BY <3>1, <3>2, TryGoesOn DEF Trying
  <2>2. CASE ~ (j < 2)
    <3>1. pc = "exist" /\ pc' = IF key = 0 THEN "end" ELSE "window"
      BY <1>12, <2>2 DEF NotFound
    <3> QED BY <3>1, TryEnds DEF Trying, LeavesLess
  <2> QED BY <2>1, <2>2
<1> QED BY <1>1, <1>2, <1>3, <1>4, <1>5, <1>6, <1>7, <1>8, <1>9, <1>10, <1>11, <1>12
        DEF Program, Disc

(* main comes to rest when nothing more is to be done: it never does       *)
(* anything twice, but what keys ask for while the key window is open.     *)
THEOREM BootsAdvance == Spec => BootAdvances
<1>1. TypeOK /\ [Next]_vars =>
        [Program \/ Disc => LeavesLess \/ (pc \in {"rescue", "window"} /\ ~expired)]_vars
  BY StepsLeaveLess
<1> QED BY <1>1, TypeCorrect, PTL DEF Spec, BootAdvances

-----------------------------------------------------------------------------
(* Comments.                                                               *)

(* A text whose reading comes to a comment beyond ASCII.                   *)
Holds(f) == \E n \in DOMAIN f : f[n].kind = "foreign" /\ \A m \in 1 .. n : ~ Stops(f[m])

Skipped ==
  IF pc = "lines" THEN \A m \in 1 .. line - 1 : file[m].kind # "foreign" ELSE ~ Holds(file)

(* No line is passed that is such a comment, nor is the parser's end.      *)
LEMMA SkippedInv == TypeOK /\ Parsed /\ Skipped /\ [Next]_vars => Skipped'
<1> SUFFICES ASSUME TypeOK, Parsed, Skipped, [Next]_vars PROVE Skipped'
  OBVIOUS
<1> USE DEF envVars, cfgVars, fileVars, tryVars, hddVars, resVars
<1>1. CASE pc # "lines" /\ pc' # "lines" /\ file' = file
  BY <1>1 DEF Skipped, Holds
<1>2. CASE UNCHANGED <<pc, file, line>>
  BY <1>2 DEF Skipped, Holds
<1>3. CASE ReadFile
  <2>1. CASE pc' = "lines"
    <3>1. 1 .. line' - 1 = {}
      BY <1>3, <2>1 DEF ReadFile, Window
    <3> QED BY <2>1, <3>1 DEF Skipped
  <2>2. CASE pc' # "lines"
    BY <1>1, <1>3, <2>2 DEF ReadFile
  <2> QED BY <2>1, <2>2
<1>4. CASE ParseEntry \/ ParseModule \/ ParseOther
  <2>1. /\ pc = "lines" /\ pc' = "lines" /\ file' = file /\ line' = line + 1
        /\ LineIs({"entry", "irx", "other", "skip"})
    BY <1>4 DEF ParseEntry, ParseModule, ParseOther, LineIs
  <2>2. line \in Nat /\ file[line].kind # "foreign"
    <3>1. line \in Nat
      BY <2>1, TableAssumption DEF TypeOK, Parsed
    <3> QED BY <2>1, <3>1 DEF LineIs
  <2>3. line' - 1 = line /\ \A m \in 1 .. line : m \in 1 .. line - 1 \/ m = line
    BY <2>1, <2>2
  <2> QED BY <2>1, <2>2, <2>3 DEF Skipped
<1>5. CASE ParseEnds
  <2>1. pc = "lines" /\ pc' = "window" /\ file' = file /\ (line > Len(file) \/ LineIs({"bare", "cut"}))
    BY <1>5 DEF ParseEnds, Window
  <2>2. file \in Seq(Lines) /\ line \in Nat /\ line >= 1
    BY <2>1, TableAssumption DEF Parsed, TypeOK
  <2>3. Len(file) \in Nat /\ DOMAIN file = 1 .. Len(file)
    BY <2>2
  <2>4. ASSUME NEW n \in DOMAIN file, file[n].kind = "foreign", \A m \in 1 .. n : ~ Stops(file[m])
        PROVE  FALSE
    <3>1. n \notin 1 .. line - 1
      BY <2>1, <2>4 DEF Skipped
    <3>2. n \in 1 .. Len(file) /\ n >= line
      BY <2>2, <2>3, <2>4, <3>1
    <3>3. LineIs({"bare", "cut"}) /\ line \in 1 .. n
      BY <2>1, <2>2, <2>3, <3>2
    <3> QED BY <2>4, <3>3 DEF LineIs, Stops
  <2>5. ~ Holds(file)
    BY <2>4 DEF Holds
  <2> QED BY <2>1, <2>5 DEF Skipped, Holds
<1>6. CASE Environment \/ Expire \/ Stopped \/ UNCHANGED vars
  BY <1>2, <1>6 DEF Environment, Press, Plug, Expire, Stopped, vars
<1>7. CASE RescuePoll \/ RescueEnds \/ EmergencyTry \/ Probe \/ Defaults \/ KeyPoll
           \/ WindowEnds \/ Launch \/ RunLoaderElf \/ NotFound \/ EndPoll \/ Disc
  BY <1>1, <1>7 DEF RescuePoll, RescueEnds, EmergencyTry, Probe, Defaults, KeyPoll,
     WindowEnds, Launch, RunLoaderElf, NotFound, EndPoll, Disc, DiscBoots, DiscFails, HandTo, Window
<1>8. CASE CheckFile \/ CheckCommand
  BY <1>1, <1>8 DEF CheckFile, CheckCommand, HandTo
<1> QED BY <1>3, <1>4, <1>5, <1>6, <1>7, <1>8 DEF Next, Program

(***************************************************************************)
(* A configuration with a comment beyond ASCII, in the part that is read,  *)
(* keeps main in get_CNF_string: it never comes to the key window, nor to  *)
(* the AUTO entries, nor to the rescue mode at the end.                    *)
(***************************************************************************)
THEOREM ForeignCommentsHold == Spec => [](Holds(file) => pc = "lines")
<1>1. Init => Skipped
  BY DEF Init, Skipped, Holds
<1>2. IInv /\ Skipped /\ [Next]_vars => Skipped'
  BY SkippedInv DEF IInv
<1>3. Skipped => (Holds(file) => pc = "lines")
  BY DEF Skipped
<1> QED BY <1>1, <1>2, <1>3, Invariance, PTL DEF Spec

=============================================================================
