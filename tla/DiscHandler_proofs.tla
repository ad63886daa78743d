------------------------- MODULE DiscHandler_proofs -------------------------
(***************************************************************************)
(* For any discs, consoles and cards, and any number of calls and changes: *)
(* no wakeup is lost or left over, who comes back has kept what main needs *)
(* and who does not has given it up, the tray is opened once, and the game *)
(* that is started is the one that was recorded.                           *)
(***************************************************************************)
EXTENDS DiscHandler, TLAPS

-----------------------------------------------------------------------------
(* What every part of the invariant needs of a step.                       *)

LoopPcs == {"diagnose", "poll", "react", "arm", "sleep"}
Ps1Pcs  == {"ps1parse", "ps1clean", "ps1history", "ps1load"}
Ps2Pcs  == {"ps2key", "ps2cnf", "ps2scan", "ps2check", "ps2history", "ps2load"}
DvdPcs  == {"dvdhistory", "checkelf", "checkrom", "dvdboot"}
Pcs == {"dvdinit", "readid", "readver", "returned", "main", "handover"}
       \cup LoopPcs \cup Ps1Pcs \cup Ps2Pcs \cup DvdPcs

(* The drive and the user change nothing but the disc and the cards.       *)
Outside == UNCHANGED <<pc, console, ROMDVDPlayer, caller, port, dvdId, shown, player, calls,
                       discVars, trayEject, bootVars, played, resVars, handed>>

LEMMA OutsideSteps ==
  ASSUME User \/ Recognise \/ AlarmCallback \/ Stopped \/ UNCHANGED vars
  PROVE  Outside
<1>1. CASE User
  BY <1>1 DEF User, TakeOut, PutIn, Change, SwapCard, Swap, discSide, dvdVars, envVars, discVars,
              waitVars, bootVars, resVars, Outside
<1>2. CASE Recognise \/ AlarmCallback
  BY <1>2 DEF Recognise, AlarmCallback, Waited, dvdVars, envVars, discVars, waitVars, bootVars,
              resVars, Outside
<1>3. CASE Stopped \/ UNCHANGED vars
  BY <1>3 DEF Stopped, vars, discSide, dvdVars, envVars, discVars, waitVars, bootVars, resVars,
              Outside
<1> QED BY <1>1, <1>2, <1>3

-----------------------------------------------------------------------------
(* What dischandler has seen in the drive, and so where a launcher may be. *)

Kinds ==
  /\ pc \in Pcs
  /\ valid => OldDiscType \in Games
  /\ pc \in {"arm", "sleep"} => DiscType = OldDiscType
  /\ pc \in Ps1Pcs => DiscType = "ps1"
  /\ pc \in Ps2Pcs => DiscType = "ps2"
  /\ pc \in DvdPcs \/ (pc \in {"readid", "readver"} /\ caller # "banner") => DiscType = "dvd"

LEMMA KindsInv == Kinds /\ [Next]_vars => Kinds'
<1> SUFFICES ASSUME Kinds, [Next]_vars PROVE Kinds'
  OBVIOUS
<1> USE DEF Kinds, Pcs, LoopPcs, Ps1Pcs, Ps2Pcs, DvdPcs
<1>1. CASE User \/ Recognise \/ AlarmCallback \/ Stopped \/ UNCHANGED vars
  BY <1>1, OutsideSteps DEF Outside, discVars
<1>2. CASE Player
  BY <1>2 DEF Player, DvdCheck, DVDPlayerInit, BeginCheck, ReadId, ReadVersion, CheckElf, CheckRom,
              Found, Passed, Returned, discSide, discVars
<1>3. CASE Loop
  <2>1. CASE Diagnose \/ Poll
    BY <2>1 DEF Diagnose, Poll, dvdVars
  <2>2. CASE React
    <3>1. valid' => DiscType \in Games
      BY <2>2 DEF React
    <3> QED BY <2>2, <3>1 DEF React, dvdVars
  <2>3. CASE Arm
    BY <2>3 DEF Arm, Waited, discVars, dvdVars
  <2>4. CASE Sleep
    BY <2>4 DEF Sleep, Waited, discVars, dvdVars, Games
  <2> QED BY <1>3, <2>1, <2>2, <2>3, <2>4 DEF Loop
<1>4. CASE Ps1Boot
  BY <1>4 DEF Ps1Boot, ParseBootCNF, Ps1CleanUp, Ps1History, Ps1Load, Goes, Returns, HandTo,
              inBoot, discVars, dvdVars
<1>5. CASE Ps2Boot
  BY <1>5 DEF Ps2Boot, PS2GetBootFile, ReadSystemCnf, Ps2Scan, Ps2Check, Ps2History, Ps2Load,
              BootError, Goes, Returns, HandTo, inBoot, discVars, dvdVars
<1>6. CASE DvdBoot
  BY <1>6 DEF DvdBoot, DvdHistory, BeginCheck, DVDPlayerBoot, Goes, Returns, HandTo,
              inBoot, discVars, dvdVars
<1>7. CASE MainGoesOn
  BY <1>7 DEF MainGoesOn, discVars, dvdVars
<1> QED BY <1>1, <1>2, <1>3, <1>4, <1>5, <1>6, <1>7 DEF Next, Program

-----------------------------------------------------------------------------
(* The resources.                                                          *)

Held ==
  /\ cd <=> pc \notin {"ps1history", "ps1load", "handover"}
  /\ pads <=> pc \notin {"ps1history", "ps1load", "handover"}
  /\ rpc <=> pc # "handover"
  /\ handed # Nobody => pc = "handover"

LEMMA HeldInv == Kinds /\ Held /\ [Next]_vars => Held'
<1> SUFFICES ASSUME Kinds, Held, [Next]_vars PROVE Held'
  OBVIOUS
<1>1. CASE User \/ Recognise \/ AlarmCallback \/ Stopped \/ UNCHANGED vars
  BY <1>1, OutsideSteps DEF Outside, Held, resVars
<1>2. CASE Player
  BY <1>2 DEF Player, DvdCheck, DVDPlayerInit, BeginCheck, ReadId, ReadVersion, CheckElf, CheckRom,
              Found, Passed, Returned, discSide, resVars, Held
<1>3. CASE Loop
  BY <1>3 DEF Loop, Diagnose, Poll, React, Arm, Sleep, Waited, resVars, Held, Kinds, Games
<1>4. CASE Ps1Boot
  BY <1>4 DEF Ps1Boot, ParseBootCNF, Ps1CleanUp, Ps1History, Ps1Load, Goes, Returns, HandTo,
              CleanUp, resVars, Held
<1>5. CASE Ps2Boot
  <2>1. CASE PS2GetBootFile \/ Ps2History \/ Ps2Load
    BY <2>1 DEF PS2GetBootFile, Ps2History, Ps2Load, Goes, Returns, HandTo, CleanUp, resVars, Held
  <2>2. CASE BootError /\ pc \in Ps2Pcs
    BY <2>2 DEF BootError, HandTo, CleanUp, Held
  <2>3. CASE (ReadSystemCnf \/ Ps2Scan \/ Ps2Check) /\ ~ BootError
    BY <2>3 DEF ReadSystemCnf, Ps2Scan, Ps2Check, Goes, resVars, Held
  <2> QED BY <1>5, <2>1, <2>2, <2>3 DEF Ps2Boot, ReadSystemCnf, Ps2Scan, Ps2Check, Ps2Pcs
<1>6. CASE DvdBoot
  BY <1>6 DEF DvdBoot, DvdHistory, BeginCheck, DVDPlayerBoot, Goes, Returns, HandTo, CleanUp,
              resVars, Held, Nobody
<1>7. CASE MainGoesOn
  BY <1>7 DEF MainGoesOn, resVars, Held
<1> QED BY <1>1, <1>2, <1>3, <1>4, <1>5, <1>6, <1>7 DEF Next, Program

-----------------------------------------------------------------------------
(* The alarm and the tray.                                                 *)

Awaited == alarms \in Nat /\ wakeups \in Nat /\ WakeupIsDue

LEMMA AwaitedInv == Kinds /\ Awaited /\ [Next]_vars => Awaited'
<1> SUFFICES ASSUME Kinds, Awaited, [Next]_vars PROVE Awaited'
  OBVIOUS
<1> USE DEF Awaited, WakeupIsDue
<1>1. CASE alarms > 0 /\ AlarmCallback
  BY <1>1 DEF AlarmCallback
<1>2. CASE Arm \/ Sleep
  BY <1>2 DEF Arm, Sleep, Games, Kinds
<1>3. CASE waitVars' = waitVars /\ (pc' = "sleep" <=> pc = "sleep")
  BY <1>3 DEF waitVars
<1>4. CASE User \/ Recognise \/ Stopped \/ UNCHANGED vars
  BY <1>4, <1>3, OutsideSteps DEF User, TakeOut, PutIn, Change, SwapCard, Recognise, Stopped, vars,
                                  discSide, Outside
<1>5. CASE Player
  BY <1>5, <1>3 DEF Player, DvdCheck, DVDPlayerInit, BeginCheck, ReadId, ReadVersion, CheckElf,
                    CheckRom, Found, Passed, Returned, discSide
<1>6. CASE Diagnose \/ Poll \/ React
  BY <1>6, <1>3 DEF Diagnose, Poll, React
<1>7. CASE Ps1Boot
  BY <1>7, <1>3 DEF Ps1Boot, ParseBootCNF, Ps1CleanUp, Ps1History, Ps1Load, Goes, Returns, HandTo,
                    inBoot
<1>8. CASE Ps2Boot
  BY <1>8, <1>3 DEF Ps2Boot, PS2GetBootFile, ReadSystemCnf, Ps2Scan, Ps2Check, Ps2History, Ps2Load,
                    BootError, Goes, Returns, HandTo, inBoot
<1>9. CASE DvdBoot \/ MainGoesOn
  BY <1>9, <1>3 DEF DvdBoot, DvdHistory, BeginCheck, DVDPlayerBoot, MainGoesOn, Goes, Returns,
                    HandTo, inBoot
<1> QED BY <1>1, <1>2, <1>4, <1>5, <1>6, <1>7, <1>8, <1>9
        DEF Next, Program, Loop, AlarmCallback

(* Once the tray was opened, the drive has been found empty before.        *)
TrayShut == traysOpened \in Nat /\ TrayOpensOnce /\ (first_run => traysOpened = 0)

LEMMA TrayInv == TrayShut /\ [Next]_vars => TrayShut'
<1> SUFFICES ASSUME TrayShut, [Next]_vars PROVE TrayShut'
  OBVIOUS
<1> USE DEF TrayShut, TrayOpensOnce
<1>1. CASE UNCHANGED <<first_run, traysOpened, trayEject>>
  BY <1>1
<1>2. CASE Diagnose
  BY <1>2 DEF Diagnose
<1>3. CASE React
  <2>1. first_run' => first_run /\ (DiscType = OldDiscType \/ DiscType # "none")
    BY <1>3 DEF React
  <2>2. /\ trayEject' = trayEject
        /\ \/ traysOpened' = traysOpened
           \/ first_run /\ trayEject /\ ~ first_run' /\ traysOpened' = traysOpened + 1
    BY <1>3 DEF React
  <2>3. traysOpened' # traysOpened => DiscType = "none" /\ DiscType # OldDiscType
    BY <1>3 DEF React
  <2> QED BY <2>1, <2>2, <2>3
<1>4. ~ (Diagnose \/ React) => UNCHANGED <<first_run, traysOpened, trayEject>>
  <2>1. User \/ Recognise \/ AlarmCallback \/ Stopped \/ UNCHANGED vars
          => UNCHANGED <<first_run, traysOpened, trayEject>>
    BY OutsideSteps DEF Outside, discVars
  <2>2. Player \/ Poll \/ Arm \/ Sleep => UNCHANGED <<first_run, traysOpened, trayEject>>
    BY DEF Player, Poll, Arm, Sleep, Waited, discSide, discVars
  <2>3. inBoot \/ MainGoesOn => UNCHANGED <<first_run, traysOpened, trayEject>>
    BY DEF inBoot, MainGoesOn, discVars
  <2>4. Ps1Boot \/ Ps2Boot \/ DvdBoot => inBoot
    BY DEF Ps1Boot, ParseBootCNF, Ps1CleanUp, Ps1History, Ps1Load, Ps2Boot, PS2GetBootFile,
           ReadSystemCnf, Ps2Scan, Ps2Check, Ps2History, Ps2Load, DvdBoot, DvdHistory,
           DVDPlayerBoot, BootError, Goes, Returns, HandTo
  <2> QED BY <2>1, <2>2, <2>3, <2>4 DEF Next, Program, Loop
<1> QED BY <1>1, <1>2, <1>3, <1>4

-----------------------------------------------------------------------------
(* The types.  Those of the player, of what the user and dischandler       *)
(* change, and of what the launchers change.                               *)

(* A version is well typed if its parts are.                               *)
LEMMA VersionTyped ==
  ASSUME NEW a \in Int, NEW b \in Int, NEW v \in Versions, NEW g \in {".", "nul", "none", "J"}
  PROVE  [major |-> a, minor |-> b, ver |-> v, region |-> g]
           \in [major : Int, minor : Int, ver : Versions, region : {".", "nul", "none", "J"}]
OBVIOUS

(* The player in the ROM, if there is one.                                 *)
LEMMA RomPlayerTyped == \A c \in Consoles : RomPlayer(c) \in RomPlayers
BY DvdAssumption DEF RomPlayer, HasLetter, ConsoleRecords

(* What DVDPlayerInit learns of it.                                        *)
LEMMA RomVersionTyped == DvdTypeOK /\ DVDPlayerInit =>
  ROMDVDPlayer' \in [major : Int, minor : Int, ver : Versions, region : {".", "nul", "none", "J"}]
<1> SUFFICES ASSUME DvdTypeOK, DVDPlayerInit
             PROVE  ROMDVDPlayer' \in [major : Int, minor : Int, ver : Versions,
                                       region : {".", "nul", "none", "J"}]
  OBVIOUS
<1> DEFINE r == RomPlayer(console)
<1>1. console \in Consoles /\ "" \in Versions
  BY DEF DvdTypeOK, Versions
<1>2. r \in RomPlayers
  BY <1>1, RomPlayerTyped
<1>3. CASE r = NoFile
  <2>1. ROMDVDPlayer' = [major |-> -1, minor |-> -1, ver |-> "",
                         region |-> IF console.early THEN "J" ELSE "none"]
    BY <1>3 DEF DVDPlayerInit
  <2>2. (IF console.early THEN "J" ELSE "none") \in {".", "nul", "none", "J"} /\ -1 \in Int
    OBVIOUS
  <2> QED BY <1>1, <2>1, <2>2, VersionTyped
<1>4. CASE r # NoFile /\ r.id.dot
  <2>1. ROMDVDPlayer' = [major |-> r.id.major, minor |-> r.id.minor, ver |-> r.text,
                         region |-> "."]
    BY <1>4 DEF DVDPlayerInit, RegionOf
  <2>2. r.id.major \in Int /\ r.id.minor \in Int
    BY <1>2, <1>4 DEF RomPlayers, Ids
  <2>3. r.text \in Versions
    BY <1>1, <1>4 DEF Versions
  <2> HIDE DEF r
  <2> QED BY <2>1, <2>2, <2>3, VersionTyped
<1>5. CASE r # NoFile /\ ~ r.id.dot
  <2>1. ROMDVDPlayer' = [major |-> 0, minor |-> 0, ver |-> "", region |-> "nul"]
    BY <1>5 DEF DVDPlayerInit
  <2>2. 0 \in Int /\ "nul" \in {".", "nul", "none", "J"}
    OBVIOUS
  <2> HIDE DEF r
  <2> QED BY <1>1, <2>1, <2>2, VersionTyped
<1> QED BY <1>3, <1>4, <1>5

(* The variables of DvdPlayer keep their types.                            *)
LEMMA DvdTyped == DvdTypeOK /\ [Next]_vars => DvdTypeOK'
<1> SUFFICES ASSUME DvdTypeOK, [Next]_vars PROVE DvdTypeOK'
  OBVIOUS
<1> USE DvdAssumption DEF DvdTypeOK, Ports
<1>1. CASE UNCHANGED dvdVars
  BY <1>1 DEF dvdVars
<1>2. ASSUME NEW p \in Ports, NEW c \in DvdCards, Swap(p, c) PROVE DvdTypeOK'
  <2>1. cards' \in [Ports -> DvdCards]
    BY <1>2 DEF Swap
  <2>2. upsets' \in 0 .. MaxUpsets
    BY <1>2 DEF Swap, Upset
  <2> QED BY <1>2, <2>1, <2>2 DEF Swap
<1>3. CASE DVDPlayerInit
  <2>1. ROMDVDPlayer' \in [major : Int, minor : Int, ver : Versions,
                            region : {".", "nul", "none", "J"}]
    BY <1>3, RomVersionTyped
  <2>2. caller' \in {"nobody", "banner", "boot"} /\ port' \in Ports /\ dvdId' \in Ids \cup {NoFile}
        /\ steady' \in BOOLEAN
    BY <1>3 DEF DVDPlayerInit, BeginCheck
  <2> QED BY <1>3, <2>1, <2>2 DEF DVDPlayerInit
<1>4. CASE ReadId \/ ReadVersion
  <2>1. cards[port] \in CardRecords
    OBVIOUS
  <2>2. dvdId' \in Ids \cup {NoFile}
    BY <1>4, <2>1 DEF ReadId, ReadVersion, CardRecords
  <2>3. upsets' \in 0 .. MaxUpsets
    BY <1>4 DEF ReadId, ReadVersion, Upset
  <2>4. port' \in Ports
    BY <1>4 DEF ReadId, ReadVersion, Passed, Found
  <2>5. shown' \in Versions \cup {"nothing"}
    <3>1. ROMDVDPlayer.ver \in Versions
      OBVIOUS
    <3>2. cards[port].text # NoFile => cards[port].text \in Versions
      BY DEF Versions
    <3> QED BY <1>4, <3>1, <3>2 DEF ReadId, ReadVersion, Passed, Found
  <2> QED BY <1>4, <2>2, <2>3, <2>4, <2>5 DEF ReadId, ReadVersion
<1>5. CASE CheckElf \/ CheckRom
  BY <1>5 DEF CheckElf, CheckRom, Returned, Upset
<1>6. CASE DvdHistory
  BY <1>6 DEF DvdHistory, BeginCheck
<1>7. UNCHANGED dvdVars \/ (\E p \in Ports, c \in DvdCards : Swap(p, c))
        \/ DvdCheck \/ DvdHistory
  <2>1. User => UNCHANGED dvdVars \/ \E p \in Ports, c \in DvdCards : Swap(p, c)
    BY DEF User, TakeOut, PutIn, Change, SwapCard
  <2>2. Recognise \/ AlarmCallback \/ Stopped \/ MainGoesOn \/ UNCHANGED vars \/ Loop
          => UNCHANGED dvdVars
    BY DEF Recognise, AlarmCallback, Waited, Stopped, MainGoesOn, vars, Loop, Diagnose, Poll, React,
           Arm, Sleep
  <2>3. Ps1Boot \/ Ps2Boot \/ DVDPlayerBoot => UNCHANGED dvdVars
    BY DEF Ps1Boot, ParseBootCNF, Ps1CleanUp, Ps1History, Ps1Load, Ps2Boot, PS2GetBootFile,
           ReadSystemCnf, Ps2Scan, Ps2Check, Ps2History, Ps2Load, DVDPlayerBoot, BootError, Goes,
           Returns, HandTo
  <2> QED BY <2>1, <2>2, <2>3 DEF Next, Program, Player, DvdBoot
<1> QED BY <1>1, <1>2, <1>3, <1>4, <1>5, <1>6, <1>7 DEF DvdCheck

(* The history has one launch for each call that has come as far as that.  *)
Names    == {d.id : d \in Discs} \cup {"none", "undefined", "DVDVIDEO"}
Launches == [name : Names, stamped : BOOLEAN]

Recorded ==
  \/ pc \in {"ps1load", "ps2load", "handover", "returned", "main", "checkelf", "checkrom", "dvdboot"}
  \/ pc \in {"readid", "readver"} /\ caller # "banner"

Listed ==
  /\ drive \in Discs \cup {NoDisc} /\ cnf \in Discs \cup {NoDisc}
  /\ id \in Names /\ played \in Seq(Launches) /\ cd \in BOOLEAN
  /\ calls \in 1 .. MaxCalls
  /\ Len(played) <= IF Recorded THEN calls ELSE calls - 1

(* A launch is appended to the history.                                    *)
LEMMA HistoryGrows ==
  ASSUME NEW name \in Names, Listed, UpdatePlayHistory(name)
  PROVE  /\ played' \in Seq(Launches) /\ Len(played') = Len(played) + 1
         /\ played'[Len(played')].name = name
         /\ \A i \in 1 .. Len(played) : played'[i] = played[i]
<1>1. [name |-> name, stamped |-> cd] \in Launches
  BY DEF Listed, Launches
<1>2. played \in Seq(Launches) /\ played' = Append(played, [name |-> name, stamped |-> cd])
  BY DEF Listed, UpdatePlayHistory
<1> QED BY <1>1, <1>2

LEMMA ListedInv == Kinds /\ Listed /\ [Next]_vars => Listed'
<1> SUFFICES ASSUME Kinds, Listed, [Next]_vars PROVE Listed'
  OBVIOUS
<1> USE DiscAssumption
<1>1. Len(played) \in Nat
  BY DEF Listed
<1>2. CASE User \/ Recognise \/ AlarmCallback \/ Stopped \/ UNCHANGED vars
  <2>1. drive' \in Discs \cup {NoDisc}
    BY <1>2 DEF Listed, User, TakeOut, PutIn, SwapCard, Recognise, AlarmCallback, Waited, Stopped,
                vars, discSide, envVars
  <2> QED BY <1>2, <2>1, OutsideSteps DEF Outside, Listed, Recorded, bootVars, resVars
<1>3. CASE Player
  BY <1>1, <1>3 DEF Player, DvdCheck, DVDPlayerInit, BeginCheck, ReadId, ReadVersion, CheckElf,
                    CheckRom, Found, Passed, Returned, discSide, envVars, bootVars, resVars, Listed,
                    Recorded
<1>4. CASE Loop
  BY <1>1, <1>4 DEF Loop, Diagnose, Poll, React, Arm, Sleep, Waited, dvdVars, envVars, bootVars,
                    resVars, Listed, Recorded, Games, Kinds
<1>5. CASE Ps1History \/ Ps2History \/ DvdHistory
  <2>1. UNCHANGED <<drive, cnf, id, cd, calls>> /\ Recorded' /\ ~ Recorded
    BY <1>5 DEF Ps1History, Ps2History, DvdHistory, BeginCheck, Goes, inBoot, envVars, bootVars,
                resVars, Recorded
  <2>2. \E name \in Names : UpdatePlayHistory(name)
    BY <1>5 DEF Ps1History, Ps2History, DvdHistory, Listed, Names
  <2>3. PICK name \in Names : UpdatePlayHistory(name)
    BY <2>2
  <2> QED BY <1>1, <2>1, <2>3, HistoryGrows DEF Listed
<1>6. CASE ParseBootCNF \/ Ps1CleanUp \/ Ps1Load \/ PS2GetBootFile \/ Ps2Load
  <2>1. id' \in Names /\ cd' \in BOOLEAN /\ UNCHANGED <<drive, cnf, played, calls>>
    BY <1>6 DEF ParseBootCNF, Ps1CleanUp, Ps1Load, PS2GetBootFile, Ps2Load, Holds, CleanUp, Goes,
                Returns, HandTo, inBoot, envVars, bootVars, resVars, Listed, Names
  <2>2. Recorded => Recorded'
    BY <1>6 DEF ParseBootCNF, Ps1CleanUp, Ps1Load, PS2GetBootFile, Ps2Load, Goes, Returns, HandTo,
                Recorded
  <2> QED BY <1>1, <2>1, <2>2 DEF Listed
<1>7. CASE ReadSystemCnf \/ Ps2Scan \/ Ps2Check \/ DVDPlayerBoot
  <2>1. cnf' \in Discs \cup {NoDisc} /\ cd' \in BOOLEAN /\ UNCHANGED <<drive, id, played, calls>>
    BY <1>7 DEF ReadSystemCnf, Ps2Scan, Ps2Check, DVDPlayerBoot, BootError, CNFAdvanceLine, CleanUp,
                Goes, Returns, HandTo, inBoot, envVars, bootVars, resVars, Listed
  <2>2. Recorded => Recorded'
    BY <1>7 DEF ReadSystemCnf, Ps2Scan, Ps2Check, DVDPlayerBoot, BootError, Goes, Returns, HandTo,
                Recorded
  <2> QED BY <1>1, <2>1, <2>2 DEF Listed
<1>8. CASE MainGoesOn
  BY <1>1, <1>8 DEF MainGoesOn, dvdVars, envVars, bootVars, resVars, Listed, Recorded
<1> QED BY <1>2, <1>3, <1>4, <1>5, <1>6, <1>7, <1>8
        DEF Next, Program, Ps1Boot, Ps2Boot, DvdBoot

(* The last launch is the one the console is handed to; those before it    *)
(* were DVDs, whose launcher may come back.                                *)
OnlyDvds == \A i \in DOMAIN played : played[i].name = "DVDVIDEO"

Tells(name) == played # << >> /\ played[Len(played)].name = name
TellsOf(kind, name) == played # << >> /\ IsRecorded(kind, played[Len(played)].name, name)

(* What is appended to launches of DVDs.                                   *)
LEMMA HistoryFollows ==
  ASSUME NEW name \in Names, Listed, OnlyDvds, UpdatePlayHistory(name)
  PROVE  /\ \A i \in DOMAIN played' : played'[i].name # "DVDVIDEO" => i = Len(played')
         /\ played' # << >> /\ played'[Len(played')].name = name
         /\ name = "DVDVIDEO" => \A i \in DOMAIN played' : played'[i].name = "DVDVIDEO"
<1> DEFINE n == Len(played)
<1>1. /\ n \in Nat /\ DOMAIN played = 1 .. n /\ DOMAIN played' = 1 .. n + 1
      /\ Len(played') = n + 1 /\ played'[n + 1].name = name
      /\ \A i \in 1 .. n : played'[i] = played[i]
  BY HistoryGrows DEF Listed
<1>2. \A i \in 1 .. n : played'[i].name = "DVDVIDEO"
  BY <1>1 DEF OnlyDvds
<1>3. played' # << >>
  BY <1>1
<1> HIDE DEF n
<1>4. \A i \in 1 .. n + 1 : i \in 1 .. n \/ i = n + 1
  BY <1>1
<1> QED BY <1>1, <1>2, <1>3, <1>4

Matching ==
  /\ \A i \in DOMAIN played : played[i].name # "DVDVIDEO" => i = Len(played)
  /\ pc \notin {"ps1load", "ps2load", "handover"} => OnlyDvds
  /\ pc \in {"ps1load", "ps2load"} => Tells(id)
  /\ pc \in {"ps2history", "ps2load"} => CNFCheckBootFile(id, cnf.boot2)
  /\ \/ pc \in {"checkelf", "checkrom", "dvdboot"}
     \/ pc \in {"readid", "readver"} /\ caller # "banner"
     => Tells("DVDVIDEO")
  /\ pc = "handover" =>
       \/ handed = [what |-> "browser", id |-> "none"] /\ OnlyDvds
       \/ handed.what = DiscType /\ TellsOf(DiscType, handed.id)

LEMMA MatchingInv == Kinds /\ Listed /\ Matching /\ [Next]_vars => Matching'
<1> SUFFICES ASSUME Kinds, Listed, Matching, [Next]_vars PROVE Matching'
  OBVIOUS
<1> USE DEF Ps1Pcs, Ps2Pcs, DvdPcs
<1>1. CASE User \/ Recognise \/ AlarmCallback \/ Stopped \/ UNCHANGED vars
  BY <1>1, OutsideSteps DEF Outside, Matching, OnlyDvds, Tells, TellsOf, IsRecorded,
                            CNFCheckBootFile, bootVars, discVars
<1>2. CASE Player
  BY <1>2 DEF Player, DvdCheck, DVDPlayerInit, BeginCheck, ReadId, ReadVersion, CheckElf, CheckRom,
              Found, Passed, Returned, discSide, Matching, OnlyDvds, Tells, TellsOf
<1>3. CASE Loop
  <2>1. UNCHANGED <<played, caller>> /\ pc \in LoopPcs
        /\ pc' \in LoopPcs \cup {"ps1parse", "ps2key", "dvdhistory"}
    BY <1>3 DEF Loop, Diagnose, Poll, React, Arm, Sleep, Waited, dvdVars, Games, Kinds, LoopPcs
  <2> QED BY <2>1 DEF Matching, OnlyDvds, LoopPcs
<1>4. CASE ParseBootCNF \/ Ps1CleanUp \/ PS2GetBootFile
  BY <1>4 DEF ParseBootCNF, Ps1CleanUp, PS2GetBootFile, Goes, Returns, inBoot, Matching, OnlyDvds,
              Tells
<1>5. CASE Ps1History \/ Ps2History
  <2>1. id \in Names /\ UpdatePlayHistory(id)
        /\ pc \in {"ps1history", "ps2history"} /\ pc' \in {"ps1load", "ps2load"}
        /\ (pc' = "ps2load" => pc = "ps2history") /\ UNCHANGED <<id, cnf>>
    BY <1>5 DEF Ps1History, Ps2History, Goes, bootVars, Listed
  <2>2. OnlyDvds
    BY <2>1 DEF Matching
  <2>3. Tells(id)' /\ \A i \in DOMAIN played' : played'[i].name # "DVDVIDEO" => i = Len(played')
    BY <2>1, <2>2, HistoryFollows DEF Tells
  <2>4. pc' = "ps2load" => CNFCheckBootFile(id', cnf'.boot2)
    BY <2>1 DEF Matching
  <2> QED BY <2>1, <2>3, <2>4 DEF Matching, CNFCheckBootFile
<1>6. CASE DvdHistory
  <2>1. "DVDVIDEO" \in Names /\ UpdatePlayHistory("DVDVIDEO") /\ pc = "dvdhistory"
        /\ pc' = "readid"
    BY <1>6 DEF DvdHistory, BeginCheck, Names
  <2>2. OnlyDvds
    BY <2>1 DEF Matching
  <2>3. Tells("DVDVIDEO")' /\ OnlyDvds'
    BY <2>1, <2>2, HistoryFollows DEF Tells, OnlyDvds
  <2> QED BY <2>1, <2>3 DEF Matching, OnlyDvds
<1>7. CASE Ps1Load \/ Ps2Load \/ (DVDPlayerBoot /\ pc' = "handover")
  <2>1. UNCHANGED <<played, DiscType>> /\ pc \in {"ps1load", "ps2load", "dvdboot"}
        /\ pc' = "handover" /\ handed' = [what |-> handed'.what, id |-> handed'.id]
    BY <1>7 DEF Ps1Load, Ps2Load, DVDPlayerBoot, Goes, HandTo, inBoot, discVars, Returns
  <2>2. handed'.what = DiscType /\ TellsOf(DiscType, handed'.id)
    <3>1. CASE Ps1Load \/ (DVDPlayerBoot /\ pc' = "handover")
      BY <3>1 DEF Ps1Load, DVDPlayerBoot, Goes, HandTo, Returns, Kinds, Matching, Tells, TellsOf,
                  IsRecorded
    <3>2. CASE Ps2Load
      <4>1. handed'.what = DiscType /\ DiscType = "ps2" /\ handed'.id = cnf.boot2
        BY <3>2 DEF Ps2Load, HandTo, Kinds
      <4>2. Tells(id) /\ Stem[id] = Stem[cnf.boot2]
        BY <3>2 DEF Ps2Load, Matching, CNFCheckBootFile
      <4> QED BY <4>1, <4>2 DEF Tells, TellsOf, IsRecorded
    <3> QED BY <1>7, <3>1, <3>2
  <2> QED BY <2>1, <2>2 DEF Matching, TellsOf
<1>8. CASE ReadSystemCnf \/ Ps2Scan \/ Ps2Check \/ (DVDPlayerBoot /\ pc' # "handover")
  <2>1. UNCHANGED played /\ pc \notin {"ps1load", "ps2load", "handover"}
    BY <1>8 DEF ReadSystemCnf, Ps2Scan, Ps2Check, DVDPlayerBoot, BootError, HandTo
  <2>2. \/ pc' = "handover" /\ handed' = [what |-> "browser", id |-> "none"]
        \/ pc' \in {"ps2scan", "ps2check", "returned"}
        \/ pc' = "ps2history" /\ CNFCheckBootFile(id', cnf'.boot2)
    BY <1>8 DEF ReadSystemCnf, Ps2Scan, Ps2Check, DVDPlayerBoot, BootError, HandTo, Goes, Returns,
                CNFCheckBootFile, bootVars
  <2> QED BY <2>1, <2>2 DEF Matching, OnlyDvds
<1>9. CASE MainGoesOn
  BY <1>9 DEF MainGoesOn, Matching, OnlyDvds
<1> QED BY <1>1, <1>2, <1>3, <1>4, <1>5, <1>6, <1>7, <1>8, <1>9
        DEF Next, Program, Ps1Boot, Ps2Boot, DvdBoot

-----------------------------------------------------------------------------
(* The player of a DVD: what is known of the one in the ROM, and of the    *)
(* update that is looked at, as long as nobody changes a card.             *)

NewerThanRom(i) ==
  /\ i \in Ids /\ RomPlayer(console) # NoFile
  /\ i.major > RomPlayer(console).id.major
     \/ (i.major = RomPlayer(console).id.major /\ i.minor > RomPlayer(console).id.minor)

Starting == pc = "dvdboot" \/ handed.what = "dvd"

Choosing ==
  /\ pc # "dvdinit" /\ ROMDVDPlayer.region = "." =>
       /\ RomPlayer(console) # NoFile
       /\ ROMDVDPlayer.major = RomPlayer(console).id.major
       /\ ROMDVDPlayer.minor = RomPlayer(console).id.minor
  /\ pc \in {"readver", "checkelf"} => dvdId # NoFile /\ (steady => dvdId = cards[port].id)
  /\ pc = "checkelf" => NewerThanRom(dvdId)
  /\ Starting /\ player \in Ports /\ steady => cards[player].elf /\ NewerThanRom(cards[player].id)
  /\ Starting /\ player = 2 => RomPlayer(console) # NoFile
  /\ handed.what = "dvd" => player \in Ports \cup {2}
  /\ pc = "dvdboot" /\ player < 0 => RomPlayer(console) = NoFile
  /\ pc = "returned" /\ DiscType = "dvd" => RomPlayer(console) = NoFile

LEMMA ChoosingInv ==
  Kinds /\ Held /\ DvdTypeOK /\ Choosing /\ [Next]_vars => Choosing'
<1> SUFFICES ASSUME Kinds, Held, DvdTypeOK, Choosing, [Next]_vars PROVE Choosing'
  OBVIOUS
<1> USE DEF Ports, Starting
<1>1. CASE UNCHANGED <<pc, dvdVars, DiscType, handed>>
  BY <1>1 DEF dvdVars, Choosing, NewerThanRom
<1>2. ASSUME NEW p \in Ports, NEW c \in DvdCards, SwapCard(p, c) PROVE Choosing'
  <2>1. ~ steady' /\ UNCHANGED <<pc, console, ROMDVDPlayer, port, dvdId, player, DiscType, handed>>
    BY <1>2 DEF SwapCard, Swap, discSide, discVars
  <2> QED BY <2>1 DEF Choosing, NewerThanRom
<1>3. CASE DVDPlayerInit /\ UNCHANGED <<DiscType, handed>>
  <2>1. ROMDVDPlayer'.region = "." =>
          /\ RomPlayer(console) # NoFile
          /\ ROMDVDPlayer'.major = RomPlayer(console).id.major
          /\ ROMDVDPlayer'.minor = RomPlayer(console).id.minor
    BY <1>3 DEF DVDPlayerInit, RegionOf
  <2>2. pc = "dvdinit" /\ pc' \in {"readid", "diagnose"} /\ console' = console
    BY <1>3 DEF DVDPlayerInit, BeginCheck
  <2>3. handed.what # "dvd"
    BY <2>2 DEF Held, Nobody
  <2> QED BY <1>3, <2>1, <2>2, <2>3 DEF Choosing
<1>4. CASE (ReadId \/ ReadVersion) /\ UNCHANGED <<DiscType, handed>>
  <2>1. pc \in {"readid", "readver"} /\ handed.what # "dvd"
        /\ UNCHANGED <<console, cards, ROMDVDPlayer, player, steady>>
    BY <1>4 DEF ReadId, ReadVersion, Held, Nobody
  <2>2. \/ pc' \in {"readid", "diagnose", "checkrom"}
        \/ pc' = "readver" /\ port' = port /\ dvdId' = cards[port].id /\ dvdId' # NoFile
        \/ pc' = "checkelf" /\ pc = "readver" /\ Accepted(dvdId) /\ UNCHANGED <<port, dvdId>>
    BY <1>4 DEF ReadId, ReadVersion, Found, Passed
  <2>3. CASE pc' = "checkelf"
    <3>1. pc = "readver" /\ Accepted(dvdId) /\ UNCHANGED <<port, dvdId>>
      BY <2>2, <2>3
    <3>2. dvdId \in Ids /\ (steady => dvdId = cards[port].id)
      BY <3>1 DEF Choosing, DvdTypeOK
    <3>3. ROMDVDPlayer.region = "." /\ Newer(dvdId)
      BY <3>1 DEF Accepted, RegionOf
    <3>4. NewerThanRom(dvdId)
      BY <3>1, <3>2, <3>3 DEF Newer, NewerThanRom, Choosing
    <3> QED BY <1>4, <2>1, <2>3, <3>1, <3>2, <3>4 DEF Choosing, NewerThanRom
  <2> QED BY <1>4, <2>1, <2>2, <2>3 DEF Choosing, NewerThanRom
<1>5. CASE CheckElf /\ UNCHANGED <<DiscType, handed>>
  <2>1. pc = "checkelf" /\ pc' \in {"dvdboot", "checkrom"} /\ handed.what # "dvd"
        /\ UNCHANGED <<console, cards, ROMDVDPlayer, port, dvdId, steady>>
    BY <1>5 DEF CheckElf, Returned, Held, Nobody
  <2>2. pc' = "dvdboot" => player' = port /\ cards[port].elf
    BY <1>5 DEF CheckElf, Returned
  <2> QED BY <1>5, <2>1, <2>2 DEF Choosing, NewerThanRom, DvdTypeOK
<1>6. CASE CheckRom /\ UNCHANGED <<DiscType, handed>>
  <2>1. pc = "checkrom" /\ pc' = "dvdboot" /\ handed.what # "dvd"
        /\ UNCHANGED <<console, ROMDVDPlayer>>
        /\ player' = IF RomPlayer(console) = NoFile THEN -1 ELSE 2
    BY <1>6 DEF CheckRom, Returned, Held, Nobody
  <2> QED BY <1>6, <2>1 DEF Choosing
<1>7. CASE DvdHistory
  <2>1. pc = "dvdhistory" /\ pc' = "readid" /\ handed' = handed /\ handed.what # "dvd"
        /\ UNCHANGED <<console, ROMDVDPlayer, player>>
    BY <1>7 DEF DvdHistory, BeginCheck, Held, Nobody
  <2> QED BY <2>1 DEF Choosing
<1>8. CASE DVDPlayerBoot
  <2>1. pc = "dvdboot" /\ UNCHANGED <<dvdVars, DiscType>>
        /\ \/ player >= 0 /\ pc' = "handover"
           \/ player < 0 /\ pc' = "returned" /\ handed' = handed
    BY <1>8 DEF DVDPlayerBoot, HandTo, Goes, Returns, inBoot, discVars
  <2>2. handed.what # "dvd"
    BY <2>1 DEF Held, Nobody
  <2>3. UNCHANGED <<console, cards, ROMDVDPlayer, player, steady>>
    BY <2>1 DEF dvdVars
  <2> QED BY <2>1, <2>2, <2>3 DEF Choosing, NewerThanRom, DvdTypeOK
<1>9. CASE Ps1Boot \/ Ps2Boot
  <2>1. UNCHANGED <<dvdVars, DiscType>> /\ pc' \notin {"readver", "checkelf", "dvdboot"}
        /\ (handed' = handed \/ handed'.what \in {"ps1", "ps2", "browser"})
        /\ pc \in Ps1Pcs \cup Ps2Pcs
    BY <1>9 DEF Ps1Boot, ParseBootCNF, Ps1CleanUp, Ps1History, Ps1Load, Ps2Boot, PS2GetBootFile,
                ReadSystemCnf, Ps2Scan, Ps2Check, Ps2History, Ps2Load, BootError, Goes, Returns,
                HandTo, inBoot, discVars, Ps1Pcs, Ps2Pcs
  <2>2. handed.what # "dvd" /\ DiscType # "dvd" /\ pc # "dvdinit"
    BY <2>1 DEF Held, Nobody, Kinds, Ps1Pcs, Ps2Pcs
  <2> QED BY <2>1, <2>2 DEF Choosing, dvdVars
<1>10. CASE Loop \/ MainGoesOn
  <2>1. UNCHANGED <<dvdVars, handed>> /\ pc # "dvdinit"
        /\ pc \notin {"handover"} /\ pc' \notin {"readver", "checkelf", "dvdboot", "returned"}
    BY <1>10 DEF Loop, Diagnose, Poll, React, Arm, Sleep, Waited, MainGoesOn, Kinds, Games
  <2>2. handed.what # "dvd"
    BY <2>1 DEF Held, Nobody
  <2> QED BY <2>1, <2>2 DEF Choosing, dvdVars
<1>11. Player => UNCHANGED <<DiscType, handed>>
  BY DEF Player, discSide, discVars
<1>12. User \/ Recognise \/ AlarmCallback \/ Stopped \/ UNCHANGED vars =>
         UNCHANGED <<pc, dvdVars, DiscType, handed>> \/ \E p \in Ports, c \in DvdCards : SwapCard(p, c)
  BY DEF User, TakeOut, PutIn, Change, Recognise, AlarmCallback, Waited, Stopped, vars, discSide,
         discVars
<1> QED BY <1>1, <1>2, <1>3, <1>4, <1>5, <1>6, <1>7, <1>8, <1>9, <1>10, <1>11, <1>12
        DEF Next, Program, Player, DvdCheck, DvdBoot

-----------------------------------------------------------------------------

(* The types that the other parts do not give.                             *)
Kept ==
  /\ changes \in 0 .. MaxChanges /\ ready \in BOOLEAN
  /\ {first_run, valid, trayEject} \subseteq BOOLEAN
  /\ {DiscType, OldDiscType} \subseteq {"unknown", "none", "detecting", "cdda"} \cup Games
  /\ pads \in BOOLEAN /\ rpc \in BOOLEAN /\ pos \in Nat
  /\ handed.what \in {"nobody", "browser"} \cup Games

LEMMA KeptInv == Listed /\ Kept /\ [Next]_vars => Kept'
<1> SUFFICES ASSUME Listed, Kept, [Next]_vars PROVE Kept'
  OBVIOUS
<1> USE DiscAssumption
<1>1. Kept /\ drive \in Discs \cup {NoDisc}
  BY DEF Listed
<1>2. CASE Recognise \/ AlarmCallback \/ Stopped \/ UNCHANGED vars
  <2>1. changes' = changes /\ ready' \in BOOLEAN
    BY <1>1, <1>2 DEF Kept, Recognise, AlarmCallback, Waited, Stopped, vars, discSide, envVars
  <2> QED BY <1>1, <1>2, <2>1, OutsideSteps DEF Kept, Outside, discVars, bootVars, resVars
<1>3. CASE User
  <2>1. CASE TakeOut \/ \E d \in Discs : PutIn(d)
    <3>1. changes < MaxChanges /\ changes' = changes + 1 /\ ready' = FALSE
      BY <2>1 DEF TakeOut, PutIn, Change
    <3>2. changes \in 0 .. MaxChanges /\ MaxChanges \in Nat
      BY DiscAssumption DEF Kept
    <3>3. changes' \in 0 .. MaxChanges
      BY <3>1, <3>2
    <3> QED BY <1>1, <1>3, <3>1, <3>3, OutsideSteps DEF Kept, Outside, discVars, bootVars, resVars
  <2>2. CASE \E p \in Ports, c \in DvdCards : SwapCard(p, c)
    <3>1. UNCHANGED <<changes, ready>>
      BY <2>2 DEF SwapCard, discSide, envVars
    <3> QED BY <1>1, <1>3, <3>1, OutsideSteps DEF Kept, Outside, discVars, bootVars, resVars
  <2> QED BY <1>3, <2>1, <2>2 DEF User
<1>4. CASE Player
  BY <1>1, <1>4 DEF Kept, Player, discSide, envVars, discVars, bootVars, resVars
<1>5. CASE Loop
  <2>1. UNCHANGED <<changes, ready, trayEject, pads, rpc, pos, handed>>
    BY <1>5 DEF Loop, Diagnose, Poll, React, Arm, Sleep, Waited, envVars, bootVars, resVars
  <2>2. TypeNow \in {"unknown", "none", "detecting", "cdda"} \cup Games
    BY <1>1 DEF Kept, TypeNow
  <2>3. {DiscType', OldDiscType'} \subseteq {"unknown", "none", "detecting", "cdda"} \cup Games
    BY <1>1, <1>5, <2>2 DEF Kept, Loop, Diagnose, Poll, React, Arm, Sleep, Waited, discVars
  <2>4. first_run' \in BOOLEAN /\ valid' \in BOOLEAN
    <3>1. CASE React
      <4>1. (DiscType \in Games) \in BOOLEAN /\ (first_run /\ DiscType # "none") \in BOOLEAN
        OBVIOUS
      <4>2. first_run \in BOOLEAN /\ valid \in BOOLEAN
        BY <1>1 DEF Kept
      <4> QED BY <3>1, <4>1, <4>2, Zenon DEF React
    <3>2. CASE Diagnose \/ Poll \/ Arm \/ Sleep
      BY <1>1, <3>2 DEF Kept, Diagnose, Poll, Arm, Sleep, Waited, discVars
    <3> QED BY <1>5, <3>1, <3>2 DEF Loop
  <2> QED BY <1>1, <2>1, <2>3, <2>4 DEF Kept
<1>6. CASE Ps1Boot \/ Ps2Boot \/ DvdBoot
  <2>1. UNCHANGED <<changes, ready, trayEject, first_run, valid, DiscType, OldDiscType>>
    BY <1>6 DEF Ps1Boot, ParseBootCNF, Ps1CleanUp, Ps1History, Ps1Load, Ps2Boot, PS2GetBootFile,
                ReadSystemCnf, Ps2Scan, Ps2Check, Ps2History, Ps2Load, DvdBoot, DvdHistory,
                DVDPlayerBoot, BootError, Goes, Returns, HandTo, inBoot, envVars, discVars
  <2>2. pads' \in BOOLEAN /\ rpc' \in BOOLEAN
    BY <1>1, <1>6 DEF Kept, Ps1Boot, ParseBootCNF, Ps1CleanUp, Ps1History, Ps1Load, Ps2Boot,
                PS2GetBootFile, ReadSystemCnf, Ps2Scan, Ps2Check, Ps2History, Ps2Load, DvdBoot,
                DvdHistory, DVDPlayerBoot, BootError, HandTo, CleanUp, resVars
  <2>3. pos' \in Nat
    BY <1>1, <1>6 DEF Kept, Ps1Boot, ParseBootCNF, Ps1CleanUp, Ps1History, Ps1Load, Ps2Boot,
                PS2GetBootFile, ReadSystemCnf, Ps2Scan, Ps2Check, Ps2History, Ps2Load, DvdBoot,
                DvdHistory, DVDPlayerBoot, BootError, CNFAdvanceLine, bootVars
  <2>4. handed'.what \in {"nobody", "browser"} \cup Games
    BY <1>1, <1>6 DEF Kept, Ps1Boot, ParseBootCNF, Ps1CleanUp, Ps1History, Ps1Load, Ps2Boot,
                PS2GetBootFile, ReadSystemCnf, Ps2Scan, Ps2Check, Ps2History, Ps2Load, DvdBoot,
                DvdHistory, DVDPlayerBoot, BootError, Goes, Returns, HandTo, Games
  <2> QED BY <1>1, <2>1, <2>2, <2>3, <2>4 DEF Kept
<1>7. CASE MainGoesOn
  BY <1>1, <1>7 DEF Kept, MainGoesOn, envVars, discVars, bootVars, resVars
<1> QED BY <1>2, <1>3, <1>4, <1>5, <1>6, <1>7 DEF Next, Program

(* All the types.                                                          *)
LEMMA TypeInv ==
  ASSUME Kept, DvdTypeOK, Awaited, TrayShut, Listed
  PROVE  TypeOK
<1>1. alarms \in 0 .. 1 /\ wakeups \in 0 .. 1
  BY DEF Awaited, WakeupIsDue
<1>2. Len(played) <= MaxCalls
  BY DiscAssumption DEF Listed
<1>3. {ready, first_run, valid, trayEject, cd, pads, rpc} \subseteq BOOLEAN
  BY DEF Kept, Listed
<1> QED BY <1>1, <1>2, <1>3 DEF TypeOK, TrayShut, Kept, Listed

IInv == /\ DvdTypeOK /\ Kept /\ Kinds /\ Held /\ Awaited /\ TrayShut
        /\ Listed /\ Matching /\ Choosing

(* The initial states satisfy the invariant.                               *)
LEMMA InitInv == Init => IInv
<1> SUFFICES ASSUME Init PROVE IInv
  OBVIOUS
<1>1. DvdTypeOK
  <2>1. "" \in Versions
    BY DEF Versions
  <2>2. 0 \in Int /\ "nul" \in {".", "nul", "none", "J"}
    OBVIOUS
  <2>3. ROMDVDPlayer = [major |-> 0, minor |-> 0, ver |-> "", region |-> "nul"]
    BY Zenon DEF Init, DvdInit
  <2>4. ROMDVDPlayer \in [major : Int, minor : Int, ver : Versions,
                          region : {".", "nul", "none", "J"}]
    BY <2>1, <2>2, <2>3, VersionTyped
  <2>5. /\ console \in Consoles /\ cards \in [Ports -> DvdCards] /\ caller = "nobody" /\ port = 0
        /\ dvdId = NoFile /\ shown = "nothing" /\ player = -1 /\ upsets = 0 /\ steady = TRUE
    BY Zenon DEF Init, DvdInit
  <2> QED BY <2>4, <2>5, DvdAssumption DEF DvdTypeOK, Ports
<1>2. Kinds
  BY DEF Init, Kinds, Pcs, LoopPcs, Ps1Pcs, Ps2Pcs, DvdPcs
<1>3. Held
  BY DEF Init, Held
<1>4. Awaited
  <2>1. alarms = 0 /\ wakeups = 0 /\ pc = "dvdinit"
    BY Zenon DEF Init
  <2> QED BY <2>1 DEF Awaited, WakeupIsDue
<1>5. TrayShut
  <2>1. traysOpened = 0
    BY Zenon DEF Init
  <2> QED BY <2>1 DEF TrayShut, TrayOpensOnce
<1>6. played = << >> /\ pc = "dvdinit" /\ handed = Nobody
  BY Zenon DEF Init
<1>7. Listed
  <2>1. drive \in Discs \cup {NoDisc} /\ cnf = NoDisc /\ id = "none" /\ calls = 1 /\ cd = TRUE
    BY Zenon DEF Init
  <2> QED BY <1>6, <2>1, DiscAssumption DEF Listed, Names, Recorded
<1>8. Matching
  BY <1>6 DEF Matching, OnlyDvds
<1>9. Choosing
  BY <1>6 DEF Choosing, Starting, Nobody
<1>10. Kept
  <2>1. /\ changes = 0 /\ ready = FALSE /\ first_run = TRUE /\ valid = FALSE
        /\ trayEject \in BOOLEAN /\ DiscType = "unknown" /\ OldDiscType = "unknown"
        /\ pads = TRUE /\ rpc = TRUE /\ pos = 0
    BY Zenon DEF Init
  <2>2. MaxChanges \in Nat /\ handed.what = "nobody"
    BY <1>6, DiscAssumption DEF Nobody
  <2>3. changes \in 0 .. MaxChanges
    BY <2>1, <2>2
  <2> QED BY <2>1, <2>2, <2>3 DEF Kept
<1> QED BY <1>1, <1>2, <1>3, <1>4, <1>5, <1>7, <1>8, <1>9, <1>10 DEF IInv

(* The invariant holds in every reachable state.                           *)
LEMMA Invariance == Spec => []IInv
<1>1. IInv /\ [Next]_vars => IInv'
  <2> SUFFICES ASSUME IInv, [Next]_vars PROVE IInv'
    OBVIOUS
  <2>1. Kinds' /\ Held' /\ Awaited' /\ TrayShut' /\ Listed' /\ Matching'
    BY KindsInv, HeldInv, AwaitedInv, TrayInv, ListedInv, MatchingInv DEF IInv
  <2>2. DvdTypeOK' /\ Choosing' /\ Kept'
    BY DvdTyped, ChoosingInv, KeptInv DEF IInv
  <2> QED BY <2>1, <2>2 DEF IInv
<1> QED BY <1>1, InitInv, PTL DEF Spec

(* The variables keep their types and bounds.                              *)
THEOREM TypeCorrect == Spec => []TypeOK
<1>1. IInv => TypeOK
  BY TypeInv DEF IInv
<1> QED BY <1>1, Invariance, PTL

(* SleepThread always has its one wakeup, and leaves none for the next.    *)
THEOREM WakeupsAreDue == Spec => []WakeupIsDue
<1>1. IInv => WakeupIsDue
  BY DEF IInv, Awaited
<1> QED BY <1>1, Invariance, PTL

(* A launcher that comes back has left pads and libcdvd alone; one that    *)
(* does not has called CleanUp and left RPC.                               *)
THEOREM SessionsAreClean == Spec => []SessionIsClean
<1>1. IInv => SessionIsClean
  BY DEF IInv, Held, SessionIsClean
<1> QED BY <1>1, Invariance, PTL

(* dischandler opens the tray at most once, and only if it may.            *)
THEOREM TrayIsOpenedOnce == Spec => []TrayOpensOnce
<1>1. IInv => TrayOpensOnce
  BY DEF IInv, TrayShut
<1> QED BY <1>1, Invariance, PTL

(* The game that is started is the one that UpdatePlayHistory was given,   *)
(* of a PlayStation 2 disc up to the last character of its ID.             *)
THEOREM PlayedGamesStart == Spec => []PlayedIsStarted
<1>1. IInv => PlayedIsStarted
  <2> SUFFICES ASSUME Kinds, Held, Matching PROVE PlayedIsStarted
    BY DEF IInv
  <2>1. handed.what \in Games => pc = "handover"
    BY DEF Held, Nobody, Games
  <2>2. handed.what \in Games => TellsOf(handed.what, handed.id)
    BY <2>1 DEF Matching, Games
  <2>3. ASSUME NEW i \in DOMAIN played, played[i].name # "DVDVIDEO"
        PROVE  /\ i = Len(played)
               /\ Done => handed.what = DiscType /\ IsRecorded(DiscType, played[i].name, handed.id)
    <3>1. i = Len(played) /\ ~ OnlyDvds
      BY <2>3 DEF Matching, OnlyDvds
    <3>2. Done => pc = "handover"
      BY <3>1 DEF Done, Matching
    <3>3. pc = "handover" => handed.what = DiscType /\ TellsOf(DiscType, handed.id)
      BY <3>1 DEF Matching
    <3> QED BY <3>1, <3>2, <3>3 DEF TellsOf
  <2> QED BY <2>2, <2>3 DEF PlayedIsStarted, TellsOf, Last
<1> QED BY <1>1, Invariance, PTL

(* A DVD is only turned down by a console without a player in the ROM.     *)
THEOREM RomPlaysEveryDvd == Spec => []RomPlaysDvd
<1>1. IInv => RomPlaysDvd
  BY DEF IInv, Choosing, RomPlaysDvd
<1> QED BY <1>1, Invariance, PTL

(* The player started for a DVD is there, and newer than the ROM's or it.  *)
THEOREM NewestPlayersRun == Spec => []NewestPlayerRuns
<1>1. IInv => NewestPlayerRuns
  <2> SUFFICES ASSUME DvdTypeOK, Choosing, handed.what = "dvd" PROVE NewestPlayerRuns
    BY DEF IInv, NewestPlayerRuns
  <2>1. player \in Ports \cup {2}
    BY DEF Choosing
  <2>2. CASE player = 2
    <3>1. RomPlayer(console) # NoFile /\ console \in Consoles
      BY <2>2 DEF Choosing, Starting, DvdTypeOK
    <3>2. Started(console) # NoFile
      BY <3>1, LetterAssumption DEF RomPlayer, Started
    <3> QED BY <2>2, <3>2 DEF NewestPlayerRuns
  <2>3. CASE player # 2
    <3> SUFFICES ASSUME steady
                 PROVE  LET i == cards[player].id
                            r == RomPlayer(console).id
                        IN  /\ cards[player].elf
                            /\ <<i.major, i.minor>> # <<r.major, r.minor>>
                            /\ i.major >= r.major /\ (i.major = r.major => i.minor >= r.minor)
      BY <2>3 DEF NewestPlayerRuns
    <3> DEFINE i == cards[player].id
               r == RomPlayer(console).id
    <3>1. cards[player].elf /\ NewerThanRom(i)
      BY <2>1, <2>3 DEF Choosing, Starting
    <3>2. /\ i.major \in Nat /\ i.minor \in Nat
          /\ i.major > r.major \/ (i.major = r.major /\ i.minor > r.minor)
      BY <3>1 DEF NewerThanRom, Ids
    <3>3. r.major \in Nat /\ r.minor \in Nat
      <4>1. RomPlayer(console) \in RomPlayers /\ RomPlayer(console) # NoFile
        BY <3>1, RomPlayerTyped DEF DvdTypeOK, NewerThanRom
      <4>2. r \in Ids
        BY <4>1 DEF RomPlayers
      <4> HIDE DEF r
      <4> QED BY <4>2 DEF Ids
    <3>4. i.major >= r.major /\ (i.major = r.major => i.minor > r.minor)
      BY <3>2, <3>3
    <3>5. <<i.major, i.minor>> # <<r.major, r.minor>> /\ (i.major = r.major => i.minor >= r.minor)
      BY <3>2, <3>3, <3>4
    <3> QED BY <3>1, <3>4, <3>5
  <2> QED BY <2>2, <2>3
<1> QED BY <1>1, Invariance, PTL

-----------------------------------------------------------------------------
(* The banner and the player, on cards that stay as they are.              *)

(* The cards whose update a player in the ROM accepts, the first of them,  *)
(* and none.                                                               *)
Accepts(r, i)    == i.dot /\ r.region = RegionOf(i)
                    /\ (i.major > r.major \/ (i.major = r.major /\ i.minor > r.minor))
Offers(c, r, p)  == c[p].id # NoFile /\ c[p].text # NoFile /\ Accepts(r, c[p].id)
First(c, r, p)   == Offers(c, r, p) /\ (p = 1 => ~ Offers(c, r, 0))
NoOffer(c, r)    == ~ Offers(c, r, 0) /\ ~ Offers(c, r, 1)

(* The ROM's player is the one to start. *)
RomIsLeft(c, r)  == NoOffer(c, r) \/ \E p \in Ports : First(c, r, p) /\ ~ c[p].elf

RomVersion(c) == IF RomPlayer(c).id.dot THEN RomPlayer(c).text ELSE ""

Showing ==
  /\ pc # "dvdinit" /\ RomPlayer(console) # NoFile => ROMDVDPlayer.ver = RomVersion(console)
  /\ pc = "dvdinit" => shown = "nothing"
  /\ upsets = 0 =>
       /\ pc \in {"readid", "readver"} /\ port = 1 => ~ Offers(cards, ROMDVDPlayer, 0)
       /\ pc = "readver" => dvdId = cards[port].id /\ dvdId # NoFile
       /\ pc = "checkelf" => First(cards, ROMDVDPlayer, port)
       /\ pc = "checkrom" => RomIsLeft(cards, ROMDVDPlayer)
       /\ Starting /\ player \in Ports => First(cards, ROMDVDPlayer, player)
       /\ Starting /\ player = 2 => RomIsLeft(cards, ROMDVDPlayer)
       /\ shown # "nothing" =>
            \/ \E p \in Ports : First(cards, ROMDVDPlayer, p) /\ shown = cards[p].text
            \/ NoOffer(cards, ROMDVDPlayer) /\ shown = ROMDVDPlayer.ver

LEMMA AcceptedThere == \A i : Accepted(i) <=> Accepts(ROMDVDPlayer, i)
BY DEF Accepted, Newer, Accepts

LEMMA ShowingInv ==
  Kinds /\ Held /\ DvdTypeOK /\ Showing /\ [Next]_vars => Showing'
<1> SUFFICES ASSUME Kinds, Held, DvdTypeOK, Showing, [Next]_vars PROVE Showing'
  OBVIOUS
<1>0. upsets \in Nat /\ port \in Ports /\ Ports = {0, 1}
  BY DvdAssumption DEF DvdTypeOK, Ports
<1>1. CASE UNCHANGED <<pc, dvdVars, handed>>
  BY <1>1 DEF dvdVars, Showing, Starting
<1>2. ASSUME NEW p \in Ports, NEW c \in DvdCards, SwapCard(p, c) PROVE Showing'
  <2>1. upsets' # 0 /\ UNCHANGED <<pc, console, ROMDVDPlayer, shown>>
    BY <1>0, <1>2 DEF SwapCard, Swap, Upset
  <2> QED BY <2>1 DEF Showing
<1>3. CASE DVDPlayerInit /\ UNCHANGED handed
  <2>1. /\ pc = "dvdinit" /\ pc' \in {"readid", "diagnose"} /\ shown' = shown /\ console' = console
        /\ pc' = "readid" => port' = 0
    BY <1>3 DEF DVDPlayerInit, BeginCheck
  <2>2. RomPlayer(console) # NoFile => ROMDVDPlayer'.ver = RomVersion(console)
    BY <1>3 DEF DVDPlayerInit, RomVersion
  <2>3. handed.what # "dvd"
    BY <2>1 DEF Held, Nobody
  <2> QED BY <1>3, <2>1, <2>2, <2>3 DEF Showing, Starting
<1>4. CASE (ReadId \/ ReadVersion) /\ UNCHANGED handed
  <2>1. pc \in {"readid", "readver"} /\ handed.what # "dvd"
        /\ UNCHANGED <<console, cards, ROMDVDPlayer, player>> /\ (upsets' = 0 => upsets = 0)
    BY <1>0, <1>4 DEF ReadId, ReadVersion, Upset, Held, Nobody
  <2>2. CASE ReadId /\ pc' = "readver" /\ UNCHANGED <<port, shown>>
             /\ dvdId' = cards[port].id /\ dvdId' # NoFile
    BY <1>4, <2>1, <2>2 DEF Showing, Starting
  <2>3. CASE ReadVersion /\ Found(cards[port].text) /\ cards[port].text # NoFile /\ Accepted(dvdId)
    <3>1. upsets = 0 => First(cards, ROMDVDPlayer, port)
      BY <1>0, <2>1, <2>3, AcceptedThere DEF ReadVersion, Showing, Offers, First
    <3> QED BY <1>0, <1>4, <2>1, <2>3, <3>1 DEF Found, Showing, Starting
  <2>4. CASE Passed /\ (ReadId \/ upsets' # 0 \/ cards[port].text = NoFile \/ ~ Accepted(dvdId))
    <3>1. upsets' = 0 => ~ Offers(cards, ROMDVDPlayer, port)
      <4>1. CASE ReadId /\ upsets' = 0
        <5>1. cards[port].id = NoFile
          BY <1>0, <2>1, <2>4, <4>1 DEF ReadId, Upset, Passed
        <5> QED BY <5>1 DEF Offers
      <4>2. CASE ReadVersion /\ upsets' = 0
        <5>1. cards[port].text = NoFile \/ ~ Accepted(cards[port].id)
          BY <2>1, <2>4, <4>2 DEF ReadId, ReadVersion, Showing
        <5> QED BY <5>1, AcceptedThere DEF Offers
      <4> QED BY <1>4, <4>1, <4>2
    <3>2. port = 0 \/ port = 1
      BY <1>0
    <3>3. CASE port = 0
      BY <1>4, <2>1, <2>4, <3>1, <3>3 DEF Passed, Showing, Starting
    <3>4. CASE port = 1
      <4>1. upsets' = 0 => NoOffer(cards, ROMDVDPlayer)
        BY <2>1, <3>1, <3>4 DEF Showing, NoOffer
      <4> QED BY <1>4, <2>1, <2>4, <3>4, <4>1 DEF Passed, Showing, Starting, RomIsLeft
    <3> QED BY <3>2, <3>3, <3>4
  <2> QED BY <1>0, <1>4, <2>2, <2>3, <2>4 DEF ReadId, ReadVersion, Upset
<1>5. CASE CheckElf /\ UNCHANGED handed
  <2>1. pc = "checkelf" /\ pc' \in {"dvdboot", "checkrom"} /\ handed.what # "dvd"
        /\ UNCHANGED <<console, cards, ROMDVDPlayer, shown>> /\ (upsets' = 0 => upsets = 0)
    BY <1>0, <1>5 DEF CheckElf, Returned, Upset, Held, Nobody
  <2>2. /\ pc' = "dvdboot" => player' = port
        /\ pc' = "checkrom" /\ upsets' = 0 => ~ cards[port].elf
    BY <1>0, <1>5 DEF CheckElf, Returned, Upset
  <2>3. upsets' = 0 => First(cards, ROMDVDPlayer, port)
    BY <2>1 DEF Showing
  <2>4. pc' = "checkrom" /\ upsets' = 0 => RomIsLeft(cards, ROMDVDPlayer)
    BY <1>0, <2>2, <2>3 DEF RomIsLeft
  <2> QED BY <1>0, <1>5, <2>1, <2>2, <2>3, <2>4 DEF Showing, Starting
<1>6. CASE CheckRom /\ UNCHANGED handed
  <2>1. pc = "checkrom" /\ pc' = "dvdboot" /\ handed.what # "dvd"
        /\ UNCHANGED <<console, cards, ROMDVDPlayer, shown, upsets>>
        /\ player' \in {-1, 2}
    BY <1>6 DEF CheckRom, Returned, Held, Nobody
  <2>2. player' \notin Ports
    BY <1>0, <2>1
  <2> QED BY <2>1, <2>2 DEF Showing
<1>7. CASE DvdHistory
  <2>1. pc = "dvdhistory" /\ pc' = "readid" /\ port' = 0 /\ handed' = handed /\ handed.what # "dvd"
        /\ UNCHANGED <<console, cards, ROMDVDPlayer, shown, upsets>>
    BY <1>7 DEF DvdHistory, BeginCheck, Held, Nobody
  <2> QED BY <2>1 DEF Showing, Starting
<1>8. CASE DVDPlayerBoot
  <2>1. pc = "dvdboot" /\ UNCHANGED dvdVars
        /\ \/ player >= 0 /\ pc' = "handover"
           \/ player < 0 /\ pc' = "returned" /\ handed' = handed
    BY <1>8 DEF DVDPlayerBoot, HandTo, Goes, Returns, inBoot
  <2>2. handed.what # "dvd"
    BY <2>1 DEF Held, Nobody
  <2>3. UNCHANGED <<console, cards, ROMDVDPlayer, player, shown, upsets>>
    BY <2>1 DEF dvdVars
  <2> QED BY <2>1, <2>2, <2>3 DEF Showing, Starting
<1>9. CASE Ps1Boot \/ Ps2Boot \/ Loop \/ MainGoesOn
  <2> DEFINE Away == /\ UNCHANGED dvdVars /\ pc \notin {"dvdinit", "handover"}
                     /\ pc' \notin {"dvdinit", "readid", "readver", "checkelf", "checkrom", "dvdboot"}
                     /\ handed' = handed \/ handed'.what \in {"ps1", "ps2", "browser"}
  <2>1. ASSUME Ps1Boot PROVE Away
    BY <2>1 DEF Ps1Boot, ParseBootCNF, Ps1CleanUp, Ps1History, Ps1Load, Goes, Returns, HandTo
  <2>2. ASSUME Ps2Boot PROVE Away
    BY <2>2 DEF Ps2Boot, PS2GetBootFile, ReadSystemCnf, Ps2Scan, Ps2Check, Ps2History, Ps2Load,
                BootError, Goes, Returns, HandTo
  <2>3. ASSUME Loop \/ MainGoesOn PROVE Away
    BY <2>3 DEF Loop, Diagnose, Poll, React, Arm, Sleep, Waited, MainGoesOn, Kinds, Games
  <2>4. Away
    BY <1>9, <2>1, <2>2, <2>3
  <2>5. handed.what # "dvd"
    BY <2>4 DEF Held, Nobody
  <2>6. UNCHANGED <<console, cards, ROMDVDPlayer, player, shown, upsets, port, dvdId>>
    BY <2>4 DEF dvdVars
  <2> QED BY <2>4, <2>5, <2>6 DEF Showing, Starting
<1>10. Player => UNCHANGED handed
  BY DEF Player, discSide
<1>11. User \/ Recognise \/ AlarmCallback \/ Stopped \/ UNCHANGED vars =>
         UNCHANGED <<pc, dvdVars, handed>> \/ \E p \in Ports, c \in DvdCards : SwapCard(p, c)
  BY DEF User, TakeOut, PutIn, Change, Recognise, AlarmCallback, Waited, Stopped, vars, discSide
<1> QED BY <1>1, <1>2, <1>3, <1>4, <1>5, <1>6, <1>7, <1>8, <1>9, <1>10, <1>11
        DEF Next, Program, Player, DvdCheck, DvdBoot

LEMMA ShownInvariance == Spec => []Showing
<1>1. Init => Showing
  <2> SUFFICES ASSUME Init PROVE Showing
    OBVIOUS
  <2>1. pc = "dvdinit" /\ shown = "nothing" /\ handed = Nobody
    BY Zenon DEF Init, DvdInit
  <2> QED BY <2>1 DEF Showing, Starting, Nobody
<1>2. IInv /\ Showing /\ [Next]_vars => Showing'
  BY ShowingInv DEF IInv
<1> QED BY <1>1, <1>2, Invariance, PTL DEF Spec

(* DVDPlayerGetVersion and DVDPlayerBoot: the version in the banner is the *)
(* one of the player that a DVD gets, unless an access fails, a card is    *)
(* changed or the update lacks its program.                                *)
THEOREM ShownPlayersRun == Spec => []ShownIsPlayed
<1>1. IInv /\ Showing => ShownIsPlayed
  <2> SUFFICES ASSUME IInv, Showing, handed.what = "dvd", upsets = 0, shown # "nothing"
               PROVE  IF player < 2 THEN shown = cards[player].text
                      ELSE \/ RomPlayer(console).id.dot /\ shown = RomPlayer(console).text
                           \/ ~RomPlayer(console).id.dot /\ shown = ""
                           \/ \E p \in Ports : shown = cards[p].text /\ ~cards[p].elf
    BY DEF ShownIsPlayed
  <2>1. player \in Ports \cup {2} /\ (player = 2 => RomPlayer(console) # NoFile) /\ pc # "dvdinit"
    BY DEF IInv, Choosing, Starting, Held, Nobody
  <2>2. \/ \E p \in Ports : First(cards, ROMDVDPlayer, p) /\ shown = cards[p].text
        \/ NoOffer(cards, ROMDVDPlayer) /\ shown = ROMDVDPlayer.ver
    BY DEF Showing
  <2>3. CASE player \in Ports
    <3>1. First(cards, ROMDVDPlayer, player) /\ player < 2
      BY <2>3 DEF Showing, Starting, Ports
    <3>2. \A p \in Ports : First(cards, ROMDVDPlayer, p) => p = player
      BY <2>3, <3>1 DEF First, Ports
    <3>3. ~ NoOffer(cards, ROMDVDPlayer)
      BY <2>3, <3>1 DEF First, NoOffer, Ports
    <3> QED BY <2>2, <3>1, <3>2, <3>3
  <2>4. CASE player = 2
    <3>1. RomIsLeft(cards, ROMDVDPlayer)
      BY <2>4 DEF Showing, Starting
    <3>2. \A p, q \in Ports : First(cards, ROMDVDPlayer, p) /\ First(cards, ROMDVDPlayer, q) => p = q
      BY DEF First, Ports
    <3>3. NoOffer(cards, ROMDVDPlayer) => \A p \in Ports : ~ First(cards, ROMDVDPlayer, p)
      BY DEF NoOffer, First, Ports
    <3>4. ROMDVDPlayer.ver = RomVersion(console)
      BY <2>1, <2>4 DEF Showing
    <3>5. \/ shown = RomVersion(console)
          \/ \E p \in Ports : shown = cards[p].text /\ ~ cards[p].elf
      BY <2>2, <3>1, <3>2, <3>3, <3>4 DEF RomIsLeft
    <3>6. ~ (player < 2)
      BY <2>4
    <3> QED BY <3>5, <3>6, Zenon DEF RomVersion
  <2> QED BY <2>1, <2>3, <2>4
<1> QED BY <1>1, ShownInvariance, Invariance, PTL

-----------------------------------------------------------------------------
(* The player from the files: what DVDPlayerInit has learnt of the ROM's   *)
(* ID, and that without a failure no card was changed.                     *)

Undisturbed ==
  /\ pc # "dvdinit" =>
       (ROMDVDPlayer.region = "." <=> RomPlayer(console) # NoFile /\ RomPlayer(console).id.dot)
  /\ upsets = 0 => steady

LEMMA UndisturbedInv == Kinds /\ DvdTypeOK /\ Undisturbed /\ [Next]_vars => Undisturbed'
<1> SUFFICES ASSUME Kinds, DvdTypeOK, Undisturbed, [Next]_vars PROVE Undisturbed'
  OBVIOUS
<1>0. upsets \in Nat
  BY DvdAssumption DEF DvdTypeOK
<1>1. CASE UNCHANGED <<console, ROMDVDPlayer>> /\ (upsets' = 0 => upsets = 0 /\ (steady => steady'))
           /\ pc # "dvdinit"
  BY <1>1 DEF Undisturbed
<1>2. CASE DVDPlayerInit
  <2> DEFINE r == RomPlayer(console)
  <2>0. /\ UNCHANGED <<console, cards, shown, player, upsets>>
        /\ BeginCheck("banner") \/ UNCHANGED <<caller, port, dvdId, steady>>
    BY <1>2, Zenon DEF DVDPlayerInit
  <2>1. console' = console /\ upsets' = upsets /\ (steady => steady')
    BY <2>0 DEF BeginCheck
  <2>2. CASE r = NoFile
    <3>1. ROMDVDPlayer' = [major |-> -1, minor |-> -1, ver |-> "",
                           region |-> IF console.early THEN "J" ELSE "none"]
      BY <1>2, <2>2 DEF DVDPlayerInit
    <3>2. ROMDVDPlayer'.region = IF console.early THEN "J" ELSE "none"
      BY <3>1, Zenon
    <3> QED BY <2>1, <2>2, <3>2 DEF Undisturbed
  <2>3. CASE r # NoFile /\ r.id.dot
    <3>1. ROMDVDPlayer'.region = "."
      BY <1>2, <2>3, Zenon DEF DVDPlayerInit, RegionOf
    <3> QED BY <2>1, <2>3, <3>1 DEF Undisturbed
  <2>4. CASE r # NoFile /\ ~ r.id.dot
    <3>1. ROMDVDPlayer'.region = "nul"
      BY <1>2, <2>4, Zenon DEF DVDPlayerInit
    <3> QED BY <2>1, <2>4, <3>1 DEF Undisturbed
  <2> QED BY <2>2, <2>3, <2>4
<1>3. CASE UNCHANGED <<pc, console, ROMDVDPlayer>> /\ (upsets' = 0 => upsets = 0 /\ (steady => steady'))
  BY <1>3 DEF Undisturbed
<1>4. CASE User \/ Recognise \/ AlarmCallback \/ Stopped \/ UNCHANGED vars
  <2>1. upsets' = 0 => upsets = 0 /\ (steady => steady')
    BY <1>0, <1>4 DEF User, TakeOut, PutIn, Change, SwapCard, Swap, Upset, Recognise, AlarmCallback,
                      Waited, Stopped, vars, dvdVars
  <2> QED BY <1>3, <1>4, <2>1, OutsideSteps DEF Outside
<1>5. CASE ReadId \/ ReadVersion \/ CheckElf \/ CheckRom
  BY <1>0, <1>1, <1>5 DEF ReadId, ReadVersion, CheckElf, CheckRom, Upset
<1>6. CASE DvdHistory
  BY <1>1, <1>6 DEF DvdHistory, BeginCheck
<1>7. CASE UNCHANGED dvdVars /\ pc # "dvdinit"
  BY <1>1, <1>7 DEF dvdVars
<1>8. CASE Loop \/ MainGoesOn
  BY <1>7, <1>8 DEF Loop, Diagnose, Poll, React, Arm, Sleep, Waited, MainGoesOn
<1>9. CASE Ps1Boot \/ Ps2Boot \/ DVDPlayerBoot
  BY <1>7, <1>9 DEF Ps1Boot, ParseBootCNF, Ps1CleanUp, Ps1History, Ps1Load, Ps2Boot, PS2GetBootFile,
                ReadSystemCnf, Ps2Scan, Ps2Check, Ps2History, Ps2Load, DVDPlayerBoot, BootError,
                Goes, Returns, HandTo
<1> QED BY <1>2, <1>4, <1>5, <1>6, <1>8, <1>9 DEF Next, Program, Player, DvdCheck, DvdBoot

(* DVDPlayerUpdateCheck accepts exactly the updates.                       *)
LEMMA OffersAreUpdates ==
  ASSUME Choosing, Undisturbed, pc # "dvdinit", NEW p \in Ports
  PROVE  Offers(cards, ROMDVDPlayer, p) <=> Updates(cards, console, p)
BY DEF Choosing, Undisturbed, Offers, Accepts, Updates, RegionOf

(* CheckDVDPlayerUpdate: the player of a DVD is the choice among the files *)
(* of the two cards and the ROM, unless an access fails or a card is       *)
(* changed.                                                                *)
THEOREM PlayersAreChosen == Spec => []PlayerIsChosen
<1>1. IInv /\ Showing /\ Undisturbed => PlayerIsChosen
  <2> SUFFICES ASSUME IInv, Showing, Undisturbed, pc = "dvdboot" \/ handed.what = "dvd", upsets = 0
               PROVE  player = Choice(cards, console)
    BY DEF PlayerIsChosen, IInv, Choosing, RomPlaysDvd
  <2>1. Starting /\ pc # "dvdinit" /\ steady /\ player \in -1 .. 2 /\ Ports = {0, 1}
    BY DEF Starting, IInv, Held, Nobody, Undisturbed, DvdTypeOK, Ports
  <2>2. \A p \in Ports : Offers(cards, ROMDVDPlayer, p) <=> Updates(cards, console, p)
    BY <2>1, OffersAreUpdates DEF IInv
  <2>3. CASE player \in Ports
    <3>1. First(cards, ROMDVDPlayer, player) /\ cards[player].elf
      BY <2>1, <2>3 DEF Showing, IInv, Choosing
    <3> QED BY <2>1, <2>2, <2>3, <3>1 DEF First, Choice
  <2>4. CASE player = 2
    <3>1. RomIsLeft(cards, ROMDVDPlayer) /\ RomPlayer(console) # NoFile
      BY <2>1, <2>4 DEF Showing, IInv, Choosing
    <3> QED BY <2>1, <2>2, <2>4, <3>1 DEF RomIsLeft, NoOffer, First, Choice
  <2>5. CASE player = -1
    <3>1. RomPlayer(console) = NoFile
      BY <2>1, <2>5 DEF IInv, Choosing
    <3>2. \A p \in Ports : ~ Updates(cards, console, p)
      BY <3>1 DEF Updates
    <3> QED BY <2>1, <2>5, <3>1, <3>2 DEF Choice
  <2> QED BY <2>1, <2>3, <2>4, <2>5
<1>2. Init => Undisturbed
  BY Zenon DEF Init, DvdInit, Undisturbed
<1>3. IInv /\ Undisturbed /\ [Next]_vars => Undisturbed'
  BY UndisturbedInv DEF IInv
<1> QED BY <1>1, <1>2, <1>3, Invariance, ShownInvariance, PTL DEF Spec

-----------------------------------------------------------------------------
(* What the loop has seen, and how far it is from a launcher.              *)

Seen == valid <=> OldDiscType \in Games

LEMMA SeenInv == Seen /\ [Next]_vars => Seen'
<1> SUFFICES ASSUME Seen, [Next]_vars PROVE Seen'
  OBVIOUS
<1>1. CASE UNCHANGED <<valid, OldDiscType>>
  BY <1>1 DEF Seen
<1>2. CASE Diagnose
  BY <1>2 DEF Diagnose, Seen, Games
<1>3. CASE React
  BY <1>3 DEF React, Seen
<1>4. ~ (Diagnose \/ React) => UNCHANGED <<valid, OldDiscType>>
  <2>1. User \/ Recognise \/ AlarmCallback \/ Stopped \/ UNCHANGED vars
          => UNCHANGED <<valid, OldDiscType>>
    BY OutsideSteps DEF Outside, discVars
  <2>2. Player \/ Poll \/ Arm \/ Sleep => UNCHANGED <<valid, OldDiscType>>
    BY DEF Player, Poll, Arm, Sleep, Waited, discSide, discVars
  <2>3. inBoot \/ MainGoesOn => UNCHANGED <<valid, OldDiscType>>
    BY DEF inBoot, MainGoesOn, discVars
  <2>4. Ps1Boot \/ Ps2Boot \/ DvdBoot => inBoot
    BY DEF Ps1Boot, ParseBootCNF, Ps1CleanUp, Ps1History, Ps1Load, Ps2Boot, PS2GetBootFile,
           ReadSystemCnf, Ps2Scan, Ps2Check, Ps2History, Ps2Load, DvdBoot, DvdHistory,
           DVDPlayerBoot, BootError, Goes, Returns, HandTo
  <2> QED BY <2>1, <2>2, <2>3, <2>4 DEF Next, Program, Loop
<1> QED BY <1>1, <1>2, <1>3, <1>4

(* With a disc of a known kind in the drive dischandler comes closer to a  *)
(* launcher with every step of its loop: the part of DiscIsServed that is  *)
(* no matter of fairness.                                                  *)
THEOREM LoopsAdvance == Spec => LoopAdvances
<1>1. IInv /\ Seen /\ [Next]_vars => [Loop /\ GameIsIn => StepsToLauncher' < StepsToLauncher]_vars
  <2> SUFFICES ASSUME Kinds, Seen, Loop, GameIsIn
               PROVE  StepsToLauncher' < StepsToLauncher
    BY DEF IInv
  <2>1. CASE Diagnose
    BY <2>1 DEF Diagnose, StepsToLauncher
  <2>2. CASE Poll
    <3>1. DiscType' \in Games /\ pc = "poll" /\ pc' = "react"
      BY <2>2 DEF Poll, TypeNow, GameIsIn
    <3> QED BY <3>1 DEF StepsToLauncher
  <2>3. CASE React
    <3>1. pc = "react" /\ pc' = "arm" /\ (DiscType \in Games => valid')
      BY <2>3 DEF React, Seen
    <3> QED BY <3>1 DEF StepsToLauncher
  <2>4. CASE Arm
    <3>1. pc = "arm" /\ pc' = "sleep" /\ valid' = valid
      BY <2>4 DEF Arm, Waited, discVars
    <3> QED BY <3>1 DEF StepsToLauncher
  <2>5. CASE Sleep
    <3>1. pc = "sleep" /\ (~ valid => pc' = "poll")
      BY <2>5 DEF Sleep
    <3>2. valid => DiscType \in {"ps1", "ps2", "dvd"}
      BY <3>1 DEF Kinds, Games
    <3>3. valid => pc' \in {"ps1parse", "ps2key", "dvdhistory"}
      BY <2>5, <3>2 DEF Sleep
    <3> QED BY <3>1, <3>3 DEF StepsToLauncher
  <2> QED BY <2>1, <2>2, <2>3, <2>4, <2>5 DEF Loop
<1>2. Init => Seen
  BY DEF Init, Seen, Games
<1> QED BY <1>1, <1>2, SeenInv, Invariance, PTL DEF Spec, LoopAdvances

-----------------------------------------------------------------------------
(* The date of a launch: of the launchers only the one for PlayStation     *)
(* games has left libcdvd when it records one.                             *)

Undated == pc = "ps1load" \/ handed.what = "ps1"

Dated ==
  /\ \A i \in DOMAIN played : played[i].stamped <=> ~ (i = Len(played) /\ Undated)
  /\ Undated => played # << >>

LEMMA HistoryDated ==
  ASSUME NEW name \in Names, Listed, UpdatePlayHistory(name)
  PROVE  /\ DOMAIN played = 1 .. Len(played) /\ DOMAIN played' = 1 .. Len(played')
         /\ Len(played) \in Nat /\ Len(played') = Len(played) + 1
         /\ played'[Len(played')].stamped = cd
         /\ \A i \in 1 .. Len(played) : played'[i] = played[i]
<1>1. [name |-> name, stamped |-> cd] \in Launches
  BY DEF Listed, Launches
<1>2. played \in Seq(Launches) /\ played' = Append(played, [name |-> name, stamped |-> cd])
  BY DEF Listed, UpdatePlayHistory
<1> QED BY <1>1, <1>2

LEMMA DatedInv == Kinds /\ Held /\ Listed /\ Dated /\ [Next]_vars => Dated'
<1> SUFFICES ASSUME Kinds, Held, Listed, Dated, [Next]_vars PROVE Dated'
  OBVIOUS
<1>1. CASE played' = played /\ (Undated' <=> Undated)
  BY <1>1 DEF Dated
<1>2. ASSUME NEW name \in Names, UpdatePlayHistory(name), ~ Undated, Undated' <=> ~ cd
      PROVE  Dated'
  <2> DEFINE n == Len(played)
  <2>1. /\ n \in Nat /\ DOMAIN played = 1 .. n /\ DOMAIN played' = 1 .. n + 1
        /\ Len(played') = n + 1 /\ played'[n + 1].stamped = cd
        /\ \A i \in 1 .. n : played'[i] = played[i]
    BY <1>2, HistoryDated
  <2>2. \A i \in 1 .. n : played'[i].stamped
    BY <1>2, <2>1 DEF Dated
  <2>3. played' # << >>
    BY <2>1
  <2> HIDE DEF n
  <2>4. \A i \in 1 .. n + 1 : (i \in 1 .. n /\ i # n + 1) \/ i = n + 1
    BY <2>1
  <2> QED BY <1>2, <2>1, <2>2, <2>3, <2>4 DEF Dated
<1>3. CASE User \/ Recognise \/ AlarmCallback \/ Stopped \/ UNCHANGED vars
  BY <1>1, <1>3, OutsideSteps DEF Outside, Undated
<1>4. CASE Player
  BY <1>1, <1>4 DEF Player, DvdCheck, DVDPlayerInit, BeginCheck, ReadId, ReadVersion, CheckElf,
                    CheckRom, Found, Passed, Returned, discSide, Undated
<1>5. CASE Loop \/ MainGoesOn
  BY <1>1, <1>5 DEF Loop, Diagnose, Poll, React, Arm, Sleep, Waited, MainGoesOn, Undated, Kinds, Games
<1>6. CASE Ps1History \/ Ps2History \/ DvdHistory
  <2>1. /\ handed' = handed /\ handed.what # "ps1"
        /\ \/ pc = "ps1history" /\ pc' = "ps1load" /\ ~ cd
           \/ pc \in {"ps2history", "dvdhistory"} /\ pc' \in {"ps2load", "readid"} /\ cd
    BY <1>6 DEF Ps1History, Ps2History, DvdHistory, BeginCheck, Goes, Held, Nobody
  <2>2. \E name \in Names : UpdatePlayHistory(name)
    BY <1>6 DEF Ps1History, Ps2History, DvdHistory, Listed, Names
  <2> QED BY <1>2, <2>1, <2>2 DEF Undated
<1>7. CASE ParseBootCNF \/ Ps1CleanUp \/ Ps1Load
  BY <1>1, <1>7 DEF ParseBootCNF, Ps1CleanUp, Ps1Load, Goes, Returns, HandTo, Undated
<1>8. CASE PS2GetBootFile \/ ReadSystemCnf \/ Ps2Scan \/ Ps2Check \/ Ps2Load \/ DVDPlayerBoot
  <2>1. /\ played' = played /\ pc \notin {"ps1load", "handover"} /\ pc' # "ps1load"
        /\ handed' = handed \/ handed'.what \in {"browser", "ps2", "dvd"}
    BY <1>8 DEF PS2GetBootFile, ReadSystemCnf, Ps2Scan, Ps2Check, Ps2Load, DVDPlayerBoot, BootError,
                Goes, Returns, HandTo
  <2> QED BY <1>1, <2>1 DEF Undated, Held, Nobody
<1> QED BY <1>3, <1>4, <1>5, <1>6, <1>7, <1>8 DEF Next, Program, Ps1Boot, Ps2Boot, DvdBoot

(* GetTimestamp has the clock for every launch but that of a PlayStation   *)
(* game: StampIsClock fails exactly when one was recorded, and is the last *)
(* that was.                                                               *)
THEOREM OnlyPs1IsUndated == Spec => [](StampIsClock <=> pc # "ps1load" /\ handed.what # "ps1")
<1>1. Listed /\ Dated => (StampIsClock <=> pc # "ps1load" /\ handed.what # "ps1")
  <2> SUFFICES ASSUME Listed, Dated PROVE StampIsClock <=> ~ Undated
    BY DEF Undated
  <2>1. played # << >> => Len(played) \in DOMAIN played
    BY DEF Listed
  <2> QED BY <2>1 DEF Dated, StampIsClock
<1>2. Init => Dated
  <2> SUFFICES ASSUME Init PROVE Dated
    OBVIOUS
  <2>1. played = << >> /\ handed.what = "nobody" /\ pc = "dvdinit"
    BY Zenon DEF Init, Nobody
  <2>2. DOMAIN played = {}
    BY <2>1
  <2> QED BY <2>1, <2>2 DEF Dated, Undated
<1>3. IInv /\ Dated /\ [Next]_vars => Dated'
  BY DatedInv DEF IInv
<1>4. IInv => Listed
  BY DEF IInv
<1> QED BY <1>1, <1>2, <1>3, <1>4, Invariance, PTL DEF Spec

-----------------------------------------------------------------------------
(* The search for BOOT2 in SYSTEM.CNF.                                     *)

InFirstLines == cnf.lines[1] = "BOOT2" \/ cnf.lines[2] = "BOOT2"

Searched ==
  /\ pc = "ps2scan" => pos \in {0, 1}
  /\ pc \in {"ps2check", "ps2history", "ps2load"} \/ handed.what = "ps2" => InFirstLines

LEMMA SearchedInv == Kinds /\ Held /\ Searched /\ [Next]_vars => Searched'
<1> SUFFICES ASSUME Kinds, Held, Searched, [Next]_vars PROVE Searched'
  OBVIOUS
<1> DEFINE Later == {"ps2check", "ps2history", "ps2load"}
<1>1. CASE UNCHANGED <<cnf, pos>> /\ (pc' \in Later \/ handed'.what = "ps2" => pc \in Later \/ handed.what = "ps2")
           /\ (pc' = "ps2scan" => pc = "ps2scan")
  BY <1>1 DEF Searched, InFirstLines
<1>2. CASE User \/ Recognise \/ AlarmCallback \/ Stopped \/ UNCHANGED vars
  BY <1>1, <1>2, OutsideSteps DEF Outside, bootVars
<1>3. CASE Player
  BY <1>1, <1>3 DEF Player, DvdCheck, DVDPlayerInit, BeginCheck, ReadId, ReadVersion, CheckElf,
                    CheckRom, Found, Passed, Returned, discSide, bootVars
<1>4. CASE Loop \/ MainGoesOn
  BY <1>1, <1>4 DEF Loop, Diagnose, Poll, React, Arm, Sleep, Waited, MainGoesOn, bootVars, Kinds, Games
<1>5. CASE Ps1Boot \/ DvdBoot
  <2>1. /\ UNCHANGED <<cnf, pos>> /\ pc' \notin Later \cup {"ps2scan"}
        /\ handed' = handed \/ handed'.what \in {"ps1", "dvd"}
    BY <1>5 DEF Ps1Boot, ParseBootCNF, Ps1CleanUp, Ps1History, Ps1Load, DvdBoot, DvdHistory, BeginCheck,
                DVDPlayerBoot, Goes, Returns, HandTo, bootVars
  <2> QED BY <1>1, <2>1
<1>6. CASE PS2GetBootFile \/ ReadSystemCnf
  <2>1. /\ pc' \notin Later /\ (pc' = "ps2scan" => pos' = 0) /\ pc # "handover"
        /\ handed' = handed \/ handed'.what = "browser"
    BY <1>6 DEF PS2GetBootFile, ReadSystemCnf, BootError, Goes, Returns, HandTo
  <2> QED BY <2>1 DEF Searched, Held, Nobody
<1>7. CASE Ps2Scan
  <2>1. pc = "ps2scan" /\ handed.what # "ps2" /\ pos \in {0, 1}
    BY <1>7 DEF Ps2Scan, Held, Nobody, Searched
  <2>2. CASE Ahead = "BOOT2" /\ Goes("ps2check") /\ UNCHANGED <<bootVars, played, resVars>>
    <3>1. cnf.lines[pos + 1] = "BOOT2"
      BY <2>2 DEF Ahead
    <3>2. InFirstLines
      BY <2>1, <3>1 DEF InFirstLines
    <3> QED BY <2>1, <2>2, <3>2 DEF Goes, bootVars, Searched, InFirstLines
  <2>3. CASE CNFAdvanceLine /\ Goes("ps2scan")
    BY <2>1, <2>3 DEF CNFAdvanceLine, Goes, Searched
  <2>4. CASE BootError
    BY <2>1, <2>4 DEF BootError, HandTo, Searched
  <2> QED BY <1>7, <2>2, <2>3, <2>4 DEF Ps2Scan
<1>8. CASE Ps2Check \/ Ps2History \/ Ps2Load
  <2>1. /\ UNCHANGED <<cnf, pos>> /\ pc \in Later /\ pc' # "ps2scan"
    BY <1>8 DEF Ps2Check, Ps2History, Ps2Load, BootError, Goes, HandTo, bootVars
  <2> QED BY <1>1, <2>1
<1> QED BY <1>2, <1>3, <1>4, <1>5, <1>6, <1>7, <1>8 DEF Next, Program, Ps2Boot

(* CNFAdvanceLine does not get past the end of the first line: what        *)
(* ScanEnds shows of the third line is so of every later one.              *)
THEOREM OnlyFirstLinesCount == Spec => [](handed.what = "ps2" => InFirstLines)
<1>1. Searched => (handed.what = "ps2" => InFirstLines)
  BY DEF Searched
<1>2. Init => Searched
  <2> SUFFICES ASSUME Init PROVE Searched
    OBVIOUS
  <2>1. pc = "dvdinit" /\ handed.what = "nobody"
    BY Zenon DEF Init, Nobody
  <2> QED BY <2>1 DEF Searched
<1>3. IInv /\ Searched /\ [Next]_vars => Searched'
  BY SearchedInv DEF IInv
<1> QED BY <1>1, <1>2, <1>3, Invariance, PTL DEF Spec

=============================================================================
