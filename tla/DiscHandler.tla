---------------------------- MODULE DiscHandler ----------------------------
(***************************************************************************)
(* $CDVD: dischandler (main.c) waits for a disc and calls PS1DRVBoot       *)
(* (ps1.c), PS2DiscBoot (ps2.c) or DVDPlayerBoot (dvdplayer.c), while the  *)
(* user changes discs and the drive takes its time to recognise them.      *)
(* A call that comes back returns to main, which may make another one.     *)
(*                                                                         *)
(* A disc is a record: the drive's name for its kind; the game ID that the *)
(* drive (PlayStation 2) or SYSTEM.CNF (PlayStation) gives; the name in    *)
(* BOOT2; and the lines of SYSTEM.CNF that are not blank, "BOOT2" or       *)
(* "other".  The drive's ID has eleven characters, of which                *)
(* CNFCheckBootFile compares ten with BOOT2: Stem gives the first ten of a *)
(* name.  Every read of a disc may fail.  The history is the sequence      *)
(* of what UpdatePlayHistory was called with, and whether the clock could  *)
(* be read for the date stamp.  Short reads and keys without a '=' are     *)
(* left out.  What becomes of a tray that is opened is left to the user.   *)
(* The player of a DVD is chosen by DvdPlayer, whose banner comes first.   *)
(***************************************************************************)
EXTENDS DvdPlayer, Sequences, SequencesExt

CONSTANTS
  Discs,       \* the discs the user has
  NoDisc,      \* an empty drive
  Stem,        \* the first ten characters of each game ID
  MaxChanges,  \* insertions and removals in a behaviour
  MaxCalls     \* calls of dischandler in a behaviour

Games == {"ps1", "ps2", "dvd"}      \* the kinds that have a handler
Nobody == [what |-> "nobody", id |-> "none"]

ASSUME DiscAssumption ==
  /\ NoDisc \notin Discs /\ MaxChanges \in Nat /\ MaxCalls \in Nat \ {0}
  /\ \A d \in Discs : d.kind \in Games \cup {"cdda"} /\ {d.id, d.boot2} \subseteq DOMAIN Stem

VARIABLES
  drive, ready,       \* the disc in the drive and whether it is recognised
  changes, calls,     \* bounded counters
  DiscType, OldDiscType, first_run, valid,   \* locals of dischandler
  traysOpened,        \* history variable: sceCdTrayReq in this call
  alarms, wakeups,    \* alarms set and not fired, and wakeups not slept off
  trayEject,          \* GLOBCFG.TRAYEJECT
  id,                 \* ps1drv_boot or ps2disc_boot
  cnf, pos,           \* system_cnf, and cnf_start as a line's end in it
  played,             \* the calls of UpdatePlayHistory
  cd, pads, rpc,      \* libcdvd, pads and SIF RPC are initialised
  handed              \* what the console was handed to

envVars  == <<drive, ready, changes>>
discVars == <<DiscType, OldDiscType, first_run, valid, traysOpened>>
waitVars == <<alarms, wakeups>>
bootVars == <<id, cnf, pos>>
resVars  == <<cd, pads, rpc>>
discSide == <<envVars, calls, discVars, waitVars, trayEject, bootVars, played, resVars, handed>>
vars == <<pc, dvdVars, discSide>>

Done == pc \in {"handover", "main"}

-----------------------------------------------------------------------------
(* The user and the drive.                                                 *)

Change == changes < MaxChanges /\ changes' = changes + 1 /\ ~Done
          /\ UNCHANGED <<dvdVars, calls, pc, discVars, waitVars, trayEject, bootVars, played, resVars, handed>>

PutIn(d) == drive = NoDisc /\ drive' = d /\ ready' = FALSE /\ Change
TakeOut  == drive # NoDisc /\ drive' = NoDisc /\ ready' = FALSE /\ Change

Recognise ==
  /\ drive # NoDisc /\ ~ready /\ ready' = TRUE
  /\ UNCHANGED <<dvdVars, drive, changes, calls, pc, discVars, waitVars, trayEject, bootVars,
                 played, resVars, handed>>

Holds(kind) == drive # NoDisc /\ ready /\ drive.kind = kind

(* sceCdGetDiskType *)
TypeNow == IF drive = NoDisc THEN "none" ELSE IF ready THEN drive.kind ELSE "detecting"

-----------------------------------------------------------------------------
(* The loop of dischandler.                                                *)

(* once sceCdAutoAdjustCtrl has succeeded *)
Diagnose ==
  /\ pc = "diagnose" /\ pc' = "poll"
  /\ OldDiscType' = "unknown" /\ first_run' = TRUE /\ valid' = FALSE /\ traysOpened' = 0
  /\ UNCHANGED <<dvdVars, envVars, calls, DiscType, waitVars, trayEject, bootVars, played, resVars, handed>>

Poll ==
  /\ pc = "poll" /\ pc' = "react"
  /\ DiscType' = TypeNow
  /\ UNCHANGED <<dvdVars, envVars, calls, OldDiscType, first_run, valid, traysOpened, waitVars,
                 trayEject, bootVars, played, resVars, handed>>

(* Mutant: first_run is only cleared if the tray may be opened.            *)
ReactStaysFirst ==
  /\ pc = "react" /\ pc' = "arm"
  /\ OldDiscType' = DiscType
  /\ valid' = (DiscType \in Games)
  /\ first_run' = TRUE
  /\ traysOpened' = IF DiscType # OldDiscType /\ DiscType = "none" /\ trayEject
                    THEN traysOpened + 1 ELSE traysOpened
  /\ UNCHANGED <<dvdVars, envVars, calls, DiscType, waitVars, trayEject, bootVars, played, resVars, handed>>

(* Mutant: only a drive that was empty is looked at again.                 *)
ReactIfEmpty ==
  /\ pc = "react" /\ pc' = "arm"
  /\ OldDiscType' = DiscType
  /\ IF OldDiscType \notin {"unknown", "none"} THEN UNCHANGED <<first_run, valid, traysOpened>>
     ELSE /\ valid' = (DiscType \in Games)
          /\ first_run' = (first_run /\ DiscType # "none")
          /\ traysOpened' = IF DiscType = "none" /\ first_run /\ trayEject
                            THEN traysOpened + 1 ELSE traysOpened
  /\ UNCHANGED <<dvdVars, envVars, calls, DiscType, waitVars, trayEject, bootVars, played, resVars, handed>>

React ==
  /\ pc = "react" /\ pc' = "arm"
  /\ OldDiscType' = DiscType
  /\ IF DiscType = OldDiscType THEN UNCHANGED <<first_run, valid, traysOpened>>
     ELSE /\ valid' = (DiscType \in Games)
          /\ first_run' = (first_run /\ DiscType # "none")
          /\ traysOpened' = IF DiscType = "none" /\ first_run /\ trayEject
                            THEN traysOpened + 1 ELSE traysOpened
  /\ UNCHANGED <<dvdVars, envVars, calls, DiscType, waitVars, trayEject, bootVars, played, resVars, handed>>

Waited == UNCHANGED <<dvdVars, envVars, calls, discVars, trayEject, bootVars, played, resVars, handed>>

(* Mutant: the alarm is set only for a disc that was not valid.            *)
ArmIfInvalid == pc = "arm" /\ pc' = "sleep" /\ UNCHANGED wakeups /\ Waited
                /\ alarms' = IF valid THEN alarms ELSE alarms + 1

(* SetAlarm *)
Arm == pc = "arm" /\ pc' = "sleep" /\ alarms' = alarms + 1 /\ UNCHANGED wakeups /\ Waited

(* iWakeupThread is counted if the thread is not asleep yet *)
AlarmCallback == alarms > 0 /\ alarms' = alarms - 1 /\ wakeups' = wakeups + 1
                 /\ UNCHANGED pc /\ Waited

(* SleepThread returns, and with a valid disc the loop ends *)
Sleep == /\ pc = "sleep" /\ wakeups > 0 /\ wakeups' = wakeups - 1
         /\ pc' = IF ~valid THEN "poll"
                  ELSE CASE DiscType = "ps1" -> "ps1parse"
                         [] DiscType = "ps2" -> "ps2key"
                         [] DiscType = "dvd" -> "dvdhistory"
         /\ UNCHANGED alarms /\ Waited

-----------------------------------------------------------------------------
(* What the launchers share.                                               *)

inBoot == UNCHANGED <<envVars, calls, discVars, waitVars, trayEject>>

Goes(step) == pc' = step /\ inBoot /\ UNCHANGED <<dvdVars, handed>>

(* The launcher returns its error, which dischandler does not look at.     *)
Returns == Goes("returned")

CleanUp == cd' = FALSE /\ pads' = FALSE

(* UpdatePlayHistory reads the clock through libcdvd.                      *)
UpdatePlayHistory(name) == played' = Append(played, [name |-> name, stamped |-> cd])

(* SifExitCmd and LoadExecPS2 or ExecOSD *)
HandTo(what, name) ==
  /\ pc' = "handover" /\ rpc' = FALSE /\ handed' = [what |-> what, id |-> name]
  /\ inBoot /\ UNCHANGED dvdVars

BootError == CleanUp /\ HandTo("browser", "none") /\ UNCHANGED played

-----------------------------------------------------------------------------
(* PS1DRVBoot                                                              *)

(* A SYSTEM.CNF with BOOT2 is read from in front of the buffer's start.    *)
ParseBootCNF ==
  /\ pc = "ps1parse"
  /\ \/ Holds("ps1") /\ id' = drive.id /\ Goes("ps1clean")
     \/ Holds("ps2") /\ id' = "undefined" /\ Goes("ps1clean")
     \/ UNCHANGED id /\ Returns
  /\ UNCHANGED <<cnf, pos, played, resVars>>

Ps1CleanUp ==
  /\ pc = "ps1clean" /\ CleanUp /\ Goes("ps1history")
  /\ UNCHANGED <<bootVars, played, rpc>>

Ps1History ==
  /\ pc = "ps1history" /\ UpdatePlayHistory(id) /\ Goes("ps1load")
  /\ UNCHANGED <<bootVars, resVars>>

Ps1Load ==
  /\ pc = "ps1load" /\ HandTo("ps1", id)
  /\ UNCHANGED <<bootVars, played, cd, pads>>

-----------------------------------------------------------------------------
(* PS2DiscBoot                                                             *)

PS2GetBootFile ==
  /\ pc = "ps2key"
  /\ \/ Holds("ps2") /\ id' = drive.id /\ Goes("ps2cnf")
     \/ UNCHANGED id /\ Returns
  /\ UNCHANGED <<cnf, pos, played, resVars>>

ReadSystemCnf ==
  /\ pc = "ps2cnf"
  /\ \/ /\ Holds("ps1") \/ Holds("ps2")
        /\ cnf' = drive /\ pos' = 0 /\ Goes("ps2scan") /\ UNCHANGED <<id, played, resVars>>
     \/ BootError /\ UNCHANGED bootVars

(* The text from cnf_start, which is the start or the end of line pos: its *)
(* next line, or the end of the file.                                      *)
Ahead == IF pos < Len(cnf.lines) THEN cnf.lines[pos + 1] ELSE "eof"

(***************************************************************************)
(* CNFAdvanceLine returns the first end of a line it meets, which is where *)
(* it started if it started at one.                                        *)
(***************************************************************************)
CNFAdvanceLine == pos' = (IF pos = 0 THEN 1 ELSE pos)

Ps2Scan ==
  /\ pc = "ps2scan"
  /\ \/ Ahead = "BOOT2" /\ Goes("ps2check") /\ UNCHANGED <<bootVars, played, resVars>>
     \/ Ahead = "other" /\ CNFAdvanceLine /\ Goes("ps2scan") /\ UNCHANGED <<id, cnf, played, resVars>>
     \/ Ahead = "eof" /\ BootError /\ UNCHANGED bootVars

(* Mutant: what CNFCheckBootFile returns is not looked at.                 *)
Ps2Unchecked ==
  /\ pc = "ps2check" /\ Goes("ps2history")
  /\ UNCHANGED <<bootVars, played, resVars>>

CNFCheckBootFile(value, key) == Stem[value] = Stem[key]

Ps2Check ==
  /\ pc = "ps2check"
  /\ \/ CNFCheckBootFile(id, cnf.boot2) /\ Goes("ps2history") /\ UNCHANGED <<bootVars, played, resVars>>
     \/ ~CNFCheckBootFile(id, cnf.boot2) /\ BootError /\ UNCHANGED bootVars

Ps2History ==
  /\ pc = "ps2history" /\ UpdatePlayHistory(id) /\ Goes("ps2load")
  /\ UNCHANGED <<bootVars, resVars>>

Ps2Load ==
  /\ pc = "ps2load" /\ CleanUp /\ HandTo("ps2", cnf.boot2)
  /\ UNCHANGED <<bootVars, played>>

-----------------------------------------------------------------------------
(* DVDPlayerBoot                                                           *)

DvdHistory ==
  /\ pc = "dvdhistory" /\ UpdatePlayHistory("DVDVIDEO") /\ BeginCheck("boot")
  /\ inBoot /\ UNCHANGED <<console, cards, ROMDVDPlayer, shown, player, upsets>>
  /\ UNCHANGED <<bootVars, resVars, handed>>

(* Mutant: RPCs are deinitialised before the result is looked at.          *)
CleanThenLook ==
  /\ pc = "dvdboot" /\ CleanUp
  /\ \/ player >= 0 /\ HandTo("dvd", "DVDVIDEO")
     \/ player < 0 /\ Returns /\ UNCHANGED rpc
  /\ UNCHANGED <<bootVars, played>>

(* Mutant: a DVD that has no player is recorded once more.                 *)
DvdRecordsTwice ==
  /\ pc = "dvdboot"
  /\ \/ player >= 0 /\ CleanUp /\ HandTo("dvd", "DVDVIDEO") /\ UNCHANGED played
     \/ player < 0 /\ UpdatePlayHistory("DVDVIDEO") /\ Returns /\ UNCHANGED resVars
  /\ UNCHANGED bootVars

(* A player is on a card or in the ROM, or there is none: EIO.             *)
DVDPlayerBoot ==
  /\ pc = "dvdboot"
  /\ \/ player >= 0 /\ CleanUp /\ HandTo("dvd", "DVDVIDEO")
     \/ player < 0 /\ Returns /\ UNCHANGED resVars
  /\ UNCHANGED <<bootVars, played>>

-----------------------------------------------------------------------------

(* main tries the next entry, which may be $CDVD again, or goes on.        *)
MainGoesOn ==
  /\ pc = "returned"
  /\ \/ calls < MaxCalls /\ calls' = calls + 1 /\ pc' = "diagnose"
     \/ pc' = "main" /\ UNCHANGED calls
  /\ UNCHANGED <<dvdVars, envVars, discVars, waitVars, trayEject, bootVars, played, resVars,
                 handed>>

Init ==
  /\ drive \in Discs \cup {NoDisc} /\ ready = FALSE /\ changes = 0 /\ calls = 1
  /\ DvdInit /\ pc = "dvdinit"
  /\ DiscType = "unknown" /\ OldDiscType = "unknown"
  /\ first_run = TRUE /\ valid = FALSE /\ traysOpened = 0
  /\ alarms = 0 /\ wakeups = 0 /\ trayEject \in BOOLEAN
  /\ id = "none" /\ cnf = NoDisc /\ pos = 0 /\ played = << >>
  /\ cd = TRUE /\ pads = TRUE /\ rpc = TRUE /\ handed = Nobody

SwapCard(p, c) == ~Done /\ Swap(p, c) /\ UNCHANGED discSide

User ==
  \/ TakeOut \/ \E d \in Discs : PutIn(d)
  \/ \E p \in Ports, c \in DvdCards : SwapCard(p, c)

Loop    == Diagnose \/ Poll \/ React \/ Arm \/ Sleep
Ps1Boot == ParseBootCNF \/ Ps1CleanUp \/ Ps1History \/ Ps1Load
Ps2Boot == PS2GetBootFile \/ ReadSystemCnf \/ Ps2Scan \/ Ps2Check \/ Ps2History \/ Ps2Load
DvdBoot == DvdHistory \/ DVDPlayerBoot
Player  == DvdCheck /\ UNCHANGED discSide
Program == Player \/ Loop \/ Ps1Boot \/ Ps2Boot \/ DvdBoot

Stopped == Done /\ UNCHANGED vars

Next == User \/ Recognise \/ AlarmCallback \/ Program \/ MainGoesOn \/ Stopped

Spec == Init /\ [][Next]_vars

(* The program runs on and alarms go off; users and discs do as they like. *)
FairSpec == Spec /\ WF_vars(Program) /\ WF_vars(AlarmCallback)

-----------------------------------------------------------------------------

TypeOK ==
  /\ DvdTypeOK
  /\ drive \in Discs \cup {NoDisc} /\ cnf \in Discs \cup {NoDisc}
  /\ changes \in 0 .. MaxChanges /\ calls \in 1 .. MaxCalls
  /\ {ready, first_run, valid, trayEject, cd, pads, rpc} \subseteq BOOLEAN
  /\ {DiscType, OldDiscType} \subseteq {"unknown", "none", "detecting", "cdda"} \cup Games
  /\ alarms \in 0 .. 1 /\ wakeups \in 0 .. 1 /\ traysOpened \in Nat /\ pos \in Nat
  /\ Len(played) <= MaxCalls
  /\ handed.what \in {"nobody", "browser"} \cup Games

(***************************************************************************)
(* The thread never sleeps without one alarm on its way or already gone    *)
(* off, and never leaves one behind for the next sleep: also if the alarm  *)
(* goes off before SleepThread is called.                                  *)
(***************************************************************************)
WakeupIsDue == alarms + wakeups = IF pc = "sleep" THEN 1 ELSE 0

(***************************************************************************)
(* A launcher that comes back has left the console as main needs it, with  *)
(* the pads and libcdvd it goes on to use; one that does not has left      *)
(* libcdvd, the pads and RPC.                                              *)
(***************************************************************************)
SessionIsClean ==
  /\ pc \in {"returned", "main", "diagnose", "poll"} => cd /\ pads /\ rpc
  /\ handed # Nobody => ~cd /\ ~pads /\ ~rpc

(***************************************************************************)
(* The game that is started is the last one in the play history and the    *)
(* only game there, whatever disc was put in between the readings; a       *)
(* launch that ends in the browser records no game.  For a PlayStation 2   *)
(* disc that is so up to the last character of the ID: it is recorded by   *)
(* the ID that the drive gave, the program started is the one in BOOT2,    *)
(* and the two agree in the first ten characters, no more.                 *)
(***************************************************************************)
IsRecorded(kind, name, started) ==
  IF kind = "ps2" THEN Stem[name] = Stem[started] ELSE name = started

PlayedIsStarted ==
  /\ handed.what \in Games =>
       played # << >> /\ IsRecorded(handed.what, Last(played).name, handed.id)
  /\ \A i \in DOMAIN played :
       played[i].name # "DVDVIDEO" =>
         /\ i = Len(played)
         /\ Done => handed.what = DiscType /\ IsRecorded(DiscType, played[i].name, handed.id)

(* "if tray eject is allowed on empty tray": the tray is opened at most    *)
(* once in a call, however often the drive is found empty.                 *)
TrayOpensOnce == traysOpened <= (IF trayEject THEN 1 ELSE 0)

(***************************************************************************)
(* A disc of a known kind that stays in the drive is handed to a launcher. *)
(***************************************************************************)
GameIsIn == drive # NoDisc /\ ready /\ drive.kind \in Games

DiscIsServed == []<>~(pc \in {"diagnose", "poll", "react", "arm", "sleep"} /\ GameIsIn)

(***************************************************************************)
(* It is so within a number of steps that no disc seen before can change:  *)
(* every step of the loop brings it closer to a launcher, the sleep with   *)
(* what was found before it was in too.                                    *)
(***************************************************************************)
StepsToLauncher ==
  CASE pc = "react"    -> IF DiscType \in Games THEN 3 ELSE 7
    [] pc = "arm"      -> IF valid THEN 2 ELSE 6
    [] pc = "sleep"    -> IF valid THEN 1 ELSE 5
    [] pc = "poll"     -> 4
    [] pc = "diagnose" -> 5
    [] OTHER           -> 0

LoopAdvances == [][Loop /\ GameIsIn => StepsToLauncher' < StepsToLauncher]_vars

(***************************************************************************)
(* The program that is started for a DVD was there, and if it comes from a *)
(* card it is newer than the player of the ROM, whatever the accesses did: *)
(* unless a card was changed during the check, whose three files are read  *)
(* one after the other.                                                    *)
(***************************************************************************)
NewestPlayerRuns ==
  handed.what = "dvd" =>
    IF player = 2 THEN Started(console) # NoFile
    ELSE steady =>
      LET i == cards[player].id
          r == RomPlayer(console).id
      IN /\ cards[player].elf
         /\ <<i.major, i.minor>> # <<r.major, r.minor>>
         /\ i.major >= r.major /\ (i.major = r.major => i.minor >= r.minor)

(***************************************************************************)
(* A DVD is turned down only by a console without a player in the ROM:     *)
(* cards that are half written, fail or change do not stop a DVD.          *)
(***************************************************************************)
RomPlaysDvd ==
  pc = "returned" /\ DiscType = "dvd" => RomPlayer(console) = NoFile

(***************************************************************************)
(* "Use DVD ROM version": the version in the banner is that of the player  *)
(* that a DVD gets later, if no access fails, no card is changed and the   *)
(* update has its program.                                                 *)
(***************************************************************************)
ShownIsPlayed ==
  handed.what = "dvd" /\ upsets = 0 /\ shown # "nothing" =>
    IF player < 2 THEN shown = cards[player].text
    ELSE \/ RomPlayer(console).id.dot /\ shown = RomPlayer(console).text
         \/ ~RomPlayer(console).id.dot /\ shown = ""
         \/ \E p \in Ports : shown = cards[p].text /\ ~cards[p].elf

(***************************************************************************)
(* The player that a DVD gets, told from the files alone: the update on    *)
(* the first card with one newer than the player in the ROM, if both IDs   *)
(* have a dot and its program is there, otherwise the ROM's.  If that      *)
(* program is missing, an update on the second card does not count; where  *)
(* the ROM's ID is missing or has no dot, none does.  Failing accesses and *)
(* changed cards may lead to another player, but not to none.              *)
(***************************************************************************)
Updates(c, k, p) ==
  LET i == c[p].id
      r == RomPlayer(k)
  IN  /\ r # NoFile /\ r.id.dot
      /\ i # NoFile /\ c[p].text # NoFile /\ i.dot
      /\ i.major > r.id.major \/ (i.major = r.id.major /\ i.minor > r.id.minor)

Choice(c, k) ==
  IF Updates(c, k, 0) /\ c[0].elf THEN 0
  ELSE IF ~Updates(c, k, 0) /\ Updates(c, k, 1) /\ c[1].elf THEN 1
  ELSE IF RomPlayer(k) # NoFile THEN 2 ELSE -1

PlayerIsChosen ==
  /\ RomPlaysDvd
  /\ (pc = "dvdboot" \/ handed.what = "dvd") /\ upsets = 0 => player = Choice(cards, console)

(***************************************************************************)
(* "DVD Player update of the right region exists and is newer": an update  *)
(* is accepted only if it has the region of the player in the ROM.         *)
(***************************************************************************)
AcceptedIsRight ==
  pc = "checkelf" => dvdId.region = RomPlayer(console).id.region

(***************************************************************************)
(* "data[4-5] = Timestamp in format: YYYYYYYMMMMDDDDD": a launch is        *)
(* recorded with the date of the clock.                                    *)
(***************************************************************************)
StampIsClock == \A i \in DOMAIN played : played[i].stamped

(***************************************************************************)
(* "Unexpected EOF": the search for BOOT2 ends, at the key or, with the    *)
(* browser, at the end of the file.                                        *)
(***************************************************************************)
ScanEnds == []<>(pc # "ps2scan")

=============================================================================
