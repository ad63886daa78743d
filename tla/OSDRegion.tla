----------------------------- MODULE OSDRegion -----------------------------
(***************************************************************************)
(* The console's regions and default language (OSDInit.c): getters that    *)
(* fill four caches as they are called, from two ROM files and from the    *)
(* MECHACON, and that call each other.  main calls OSDInitSystemPaths      *)
(* first; after it the callers (ps1.c, ps2.c, dvdplayer.c, OSDConfig.c)    *)
(* come in any order.                                                      *)
(*                                                                         *)
(* A getter is an operator on the caches: what it leaves in them, and what *)
(* it answers.  The repetition of an S-command until the MECHACON has an   *)
(* answer is taken to end.                                                 *)
(***************************************************************************)
EXTENDS Integers, FiniteSets

CONSTANT Consoles   \* the consoles: see ConsoleRecords

(* CONSOLE_REGION, OSD_REGION and LANGUAGE_... of the headers *)
INVALID == -1
JAPAN   == 0
USA     == 1
EUROPE  == 2
CHINA   == 3
RUSSIA  == 4
KOREA   == 5
ASIA    == 6

Languages == [jpn |-> 0, eng |-> 1, fre |-> 2, spa |-> 3, ger |-> 4, ita |-> 5, dut |-> 6,
              por |-> 7, rus |-> 8, kor |-> 9, tch |-> 10, sch |-> 11]
JAPANESE   == Languages.jpn
ENGLISH    == Languages.eng
PORTUGUESE == Languages.por

Letters == {"A", "C", "E", "H", "J", "K", "R", "?", "X"}
Names   == DOMAIN Languages \cup {"xxx"}

(***************************************************************************)
(* rom: the letter in rom0:ROMVER, or "none" without the file; osd and     *)
(* lang: the letter and language in rom0:OSDVER; mecha: whether the        *)
(* MECHACON knows S-command 0x36, and data: what it answers, of which ps1  *)
(* and mg are bytes 2 and 8 and the others are laid out as in OSDVER.      *)
(***************************************************************************)
Data == [ps1 : Letters \cup {"unset", "zero"}, osd : Letters \cup {"zero"},
         lang : Names, mg : Letters \cup {"zero"}]
ConsoleRecords == [rom : Letters \cup {"none"}, osd : Letters \cup {"none"}, lang : Names,
                   mecha : BOOLEAN, data : Data]

ASSUME ConsoleAssumption == Consoles \subseteq ConsoleRecords

VARIABLES
  console,   \* the console the program runs on
  cache,     \* the static variables of OSDInit.c
  ready      \* OSDInitSystemPaths has returned

regionVars == <<console, cache, ready>>

Cold == [ConsoleRegion |-> INVALID, OSDRegion |-> INVALID, OSDLanguage |-> -1,
         OSDRegionInitStatus |-> 0, RegionParamInitStatus |-> 0,
         RegionData |-> [ps1 |-> "unset", osd |-> "zero", lang |-> "xxx", mg |-> "zero"]]

-----------------------------------------------------------------------------

(* The MECHACON is asked once, and the data is cleared in any case.        *)
InitMGRegion(c) ==
  IF c.RegionParamInitStatus # 0 THEN c
  ELSE IF console.mecha
       THEN [c EXCEPT !.RegionParamInitStatus = 1, !.RegionData = console.data]
       ELSE [c EXCEPT !.RegionParamInitStatus = -1,
                      !.RegionData = [Cold.RegionData EXCEPT !.ps1 = "zero"]]

(* An OSDVER without a '?' makes the MECHACON's data unavailable.          *)
CdReadOSDRegionParams(c) ==
  IF console.osd = "?" THEN InitMGRegion(c) ELSE [c EXCEPT !.RegionParamInitStatus = -256]

OSDVer(c) ==
  IF console.osd = "?" /\ c.RegionParamInitStatus >= 0
  THEN [letter |-> c.RegionData.osd, lang |-> c.RegionData.lang]
  ELSE [letter |-> console.osd, lang |-> console.lang]

OSDRegionOf(letter) ==
  CASE letter = "A" -> USA   [] letter = "C" -> CHINA [] letter = "E" -> EUROPE
    [] letter = "H" -> ASIA  [] letter = "J" -> JAPAN [] letter = "K" -> KOREA
    [] letter = "R" -> RUSSIA [] OTHER -> INVALID

ConsoleRegionOf(letter) ==
  CASE letter = "C" -> CHINA [] letter = "E" -> EUROPE [] letter \in {"H", "A"} -> USA
    [] letter = "J" -> JAPAN [] OTHER -> INVALID

(* The language itself if it is valid, or -1.                              *)
OSDIsLanguageValid(region, language) ==
  LET valid == CASE region = JAPAN  -> language \in {JAPANESE, ENGLISH}
                 [] region = CHINA  -> language \in {ENGLISH, Languages.sch}
                 [] region = RUSSIA -> language \in {ENGLISH, Languages.rus}
                 [] region = KOREA  -> language \in {ENGLISH, Languages.kor}
                 [] region = ASIA   -> language \in {ENGLISH, Languages.tch}
                 [] OTHER           -> language <= PORTUGUESE /\ region > JAPAN
  IN  IF valid THEN language ELSE -1

(* "!OSDIsLanguageValid" is true of 0 alone, which is Japanese.            *)
DefaultLanguage(region, name) ==
  LET named == IF name \in DOMAIN Languages THEN Languages[name] ELSE -1
  IN  IF OSDIsLanguageValid(region, named) # 0 THEN named
      ELSE IF region = JAPAN THEN JAPANESE ELSE ENGLISH

InitOSDDefaultLanguage(c, region, name) ==
  [c EXCEPT !.OSDLanguage = IF @ # -1 THEN @ ELSE DefaultLanguage(region, name)]

(* The region and the language that OSDVER names.                          *)
FromOSDVer(c, ver) ==
  LET region == OSDRegionOf(ver.letter)
      found  == [c EXCEPT !.OSDRegion = region]
  IN  IF region = INVALID THEN found ELSE InitOSDDefaultLanguage(found, region, ver.lang)

ReadOSDVer(c) == FromOSDVer(c, OSDVer(c))

GetOSDRegion(c) ==
  IF c.OSDRegionInitStatus # 0 /\ c.OSDRegion # INVALID THEN c
  ELSE IF console.osd = "none" THEN [c EXCEPT !.OSDRegionInitStatus = 1, !.OSDRegion = INVALID]
  ELSE ReadOSDVer(CdReadOSDRegionParams([c EXCEPT !.OSDRegionInitStatus = 1]))

(* Mutant: the data is asked for before OSDVER is known.                   *)
ConsoleInitRegionMGOnly(c) == InitMGRegion(c)

ConsoleInitRegion(c) == InitMGRegion(GetOSDRegion(c))

FromROMVER(c) ==
  [c EXCEPT !.ConsoleRegion = ConsoleRegionOf(console.rom),
            !.RegionData.ps1 = IF c.RegionParamInitStatus >= 0 THEN console.rom ELSE @]

GetConsoleRegion(c) ==
  IF c.ConsoleRegion >= 0 \/ console.rom = "none" THEN c ELSE FromROMVER(ConsoleInitRegion(c))

AtLeastJapan(region) == IF region < 0 THEN JAPAN ELSE region

-----------------------------------------------------------------------------
(* The getters, as what they leave in the caches and what they answer.     *)

(* The language of a console without a region in OSDVER.                   *)
ConsoleLanguage(c) == InitOSDDefaultLanguage(c, AtLeastJapan(c.ConsoleRegion), "xxx")

OrConsole(c) == IF c.OSDRegion >= 0 THEN c ELSE ConsoleLanguage(GetConsoleRegion(c))
Told(c) == IF c.OSDRegion >= 0 THEN c.OSDRegion ELSE AtLeastJapan(GetConsoleRegion(c).ConsoleRegion)

OSDGetRegion(c) == OrConsole(GetOSDRegion(c))
RegionTold(c)   == Told(GetOSDRegion(c))

OSDGetDefaultLanguage(c) == IF c.OSDLanguage = -1 THEN OSDGetRegion(c) ELSE c

Getters == {"console", "ps1drv", "dvdplayer", "mg", "osd", "language"}

Called(g, c) ==
  CASE g = "console"                 -> GetConsoleRegion(c)
    [] g \in {"ps1drv", "dvdplayer"} -> ConsoleInitRegion(c)
    [] g = "mg"                      -> InitMGRegion(c)
    [] g = "osd"                     -> OSDGetRegion(c)
    [] g = "language"                -> OSDGetDefaultLanguage(c)

OrZero(after, field) == IF after.RegionParamInitStatus >= 0 THEN after.RegionData[field] ELSE "zero"

Answer(g, c) ==
  CASE g = "console"             -> <<AtLeastJapan(Called(g, c).ConsoleRegion)>>
    [] g = "ps1drv"              -> <<OrZero(Called(g, c), "ps1")>>
    [] g \in {"mg", "dvdplayer"} -> <<OrZero(Called(g, c), "mg")>>
    [] g = "osd"                 -> <<RegionTold(c)>>
    [] g = "language"            -> <<Called(g, c).OSDLanguage>>

-----------------------------------------------------------------------------

(* The folder's letter is the console region's; the caches are filled.     *)
OSDInitSystemPaths ==
  /\ ~ready /\ ready' = TRUE
  /\ cache' = Called("console", cache)
  /\ UNCHANGED console

Get(g) == ready /\ cache' = Called(g, cache) /\ UNCHANGED <<console, ready>>

RegionInit == console \in Consoles /\ cache = Cold /\ ready = FALSE
RegionNext == OSDInitSystemPaths \/ \E g \in Getters : Get(g)

RegionSpec == RegionInit /\ [][RegionNext]_regionVars

-----------------------------------------------------------------------------

Caches ==
  [ConsoleRegion : INVALID .. CHINA, OSDRegion : INVALID .. ASIA, OSDLanguage : -1 .. 11,
   OSDRegionInitStatus : 0 .. 1, RegionParamInitStatus : {-256, -1, 0, 1}, RegionData : Data]

RegionTypeOK ==
  /\ console \in Consoles /\ ready \in BOOLEAN
  /\ cache \in Caches

(***************************************************************************)
(* What a getter answers does not depend on which ones were called before  *)
(* it, in what order, or how often: it is what it would have answered at   *)
(* once after OSDInitSystemPaths.                                          *)
(***************************************************************************)
CallsCommute ==
  ready => \A g \in Getters : Answer(g, cache) = Answer(g, Called("console", Cold))

(***************************************************************************)
(* "@returns the default language for the console": once the region is     *)
(* known, the default language is one of it.                               *)
(***************************************************************************)
DefaultLanguageIsValid ==
  LET c == OSDGetDefaultLanguage(cache)
  IN  ready => OSDIsLanguageValid(RegionTold(cache), c.OSDLanguage) >= 0

=============================================================================
