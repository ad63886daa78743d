-------------------------- MODULE OSDConfig_proofs --------------------------
(***************************************************************************)
(* For any consoles, EEPROMs and calls: the getters of OSDInit.c answer    *)
(* the same in any order, and the settings survive what is done to them.   *)
(***************************************************************************)
EXTENDS OSDConfig, TLAPS

-----------------------------------------------------------------------------
(* The caches keep their types through every getter.                       *)

LEMMA RegionsTyped ==
  ASSUME NEW letter
  PROVE  OSDRegionOf(letter) \in INVALID .. ASIA /\ ConsoleRegionOf(letter) \in INVALID .. CHINA
BY DEF OSDRegionOf, ConsoleRegionOf, INVALID, JAPAN, USA, EUROPE, CHINA, RUSSIA, KOREA, ASIA

LEMMA DefaultTyped ==
  ASSUME NEW region \in INVALID .. ASIA, NEW name
  PROVE  DefaultLanguage(region, name) \in -1 .. 11
<1> DEFINE named == IF name \in DOMAIN Languages THEN Languages[name] ELSE -1
<1>1. named \in -1 .. 11
  BY DEF Languages
<1>2. JAPANESE \in -1 .. 11 /\ ENGLISH \in -1 .. 11
  BY DEF Languages, JAPANESE, ENGLISH
<1> HIDE DEF named
<1>3. DefaultLanguage(region, name) \in {named, JAPANESE, ENGLISH}
  BY DEF DefaultLanguage, named
<1> QED BY <1>1, <1>2, <1>3

LEMMA LanguageTyped ==
  ASSUME NEW c \in Caches, NEW region \in INVALID .. ASIA, NEW name
  PROVE  InitOSDDefaultLanguage(c, region, name) \in Caches
BY DefaultTyped DEF InitOSDDefaultLanguage, Caches

LEMMA MGTyped ==
  ASSUME NEW c \in Caches, console \in ConsoleRecords
  PROVE  InitMGRegion(c) \in Caches
<1>1. [Cold.RegionData EXCEPT !.ps1 = "zero"] \in Data
  BY DEF Data, Cold, Names
<1>2. console.data \in Data
  BY DEF ConsoleRecords
<1>3. \A s \in {-1, 1}, d \in Data :
        [c EXCEPT !.RegionParamInitStatus = s, !.RegionData = d] \in Caches
  BY DEF Caches
<1> QED BY <1>1, <1>2, <1>3 DEF InitMGRegion

LEMMA OSDRegionTyped ==
  ASSUME NEW c \in Caches, console \in ConsoleRecords
  PROVE  GetOSDRegion(c) \in Caches
<1> DEFINE d == [c EXCEPT !.OSDRegionInitStatus = 1]
           e == CdReadOSDRegionParams(d)
           region == OSDRegionOf(OSDVer(e).letter)
           f == [e EXCEPT !.OSDRegion = region]
<1>1. INVALID \in INVALID .. ASIA /\ d \in Caches
  BY DEF Caches, INVALID, ASIA
<1>2. e \in Caches
  <2>1. [d EXCEPT !.RegionParamInitStatus = -256] \in Caches
    BY <1>1 DEF Caches
  <2> HIDE DEF d
  <2> QED BY <1>1, <2>1, MGTyped DEF CdReadOSDRegionParams
<1> HIDE DEF d, e
<1>3. region \in INVALID .. ASIA
  BY RegionsTyped
<1> HIDE DEF region
<1>4. f \in Caches
  BY <1>2, <1>3 DEF Caches
<1> HIDE DEF f
<1>5. ReadOSDVer(e) \in Caches
  BY <1>3, <1>4, LanguageTyped DEF ReadOSDVer, FromOSDVer, f, region
<1>6. [c EXCEPT !.OSDRegionInitStatus = 1, !.OSDRegion = INVALID] \in Caches
  <2>1. [d EXCEPT !.OSDRegion = INVALID] \in Caches
    BY <1>1 DEF Caches
  <2>2. [c EXCEPT !.OSDRegionInitStatus = 1, !.OSDRegion = INVALID]
          = [d EXCEPT !.OSDRegion = INVALID]
    BY DEF d
  <2> QED BY <2>1, <2>2
<1> QED BY <1>5, <1>6 DEF GetOSDRegion, d, e

LEMMA ConsoleRegionTyped ==
  ASSUME NEW c \in Caches, console \in ConsoleRecords
  PROVE  ConsoleInitRegion(c) \in Caches /\ GetConsoleRegion(c) \in Caches
<1>1. ConsoleInitRegion(c) \in Caches
  BY OSDRegionTyped, MGTyped DEF ConsoleInitRegion
<1>2. ASSUME NEW d \in Caches, console.rom # "none"
      PROVE  FromROMVER(d) \in Caches
  <2>1. ConsoleRegionOf(console.rom) \in INVALID .. CHINA
    BY RegionsTyped
  <2>2. console.rom \in Letters
    BY <1>2 DEF ConsoleRecords
  <2> QED BY <2>1, <2>2 DEF FromROMVER, Caches, Data
<1> QED BY <1>1, <1>2 DEF GetConsoleRegion

LEMMA GettersTyped ==
  ASSUME NEW c \in Caches, console \in ConsoleRecords
  PROVE  /\ OSDGetRegion(c) \in Caches /\ OSDGetDefaultLanguage(c) \in Caches
         /\ \A g \in Getters : Called(g, c) \in Caches
<1>1. OSDGetRegion(c) \in Caches
  <2>1. ASSUME NEW d \in Caches PROVE ConsoleLanguage(d) \in Caches
    <3>1. AtLeastJapan(d.ConsoleRegion) \in INVALID .. ASIA
      BY DEF AtLeastJapan, Caches, INVALID, JAPAN, CHINA, ASIA
    <3> QED BY <3>1, LanguageTyped DEF ConsoleLanguage
  <2> QED BY <2>1, OSDRegionTyped, ConsoleRegionTyped DEF OSDGetRegion, OrConsole
<1>2. OSDGetDefaultLanguage(c) \in Caches
  BY <1>1 DEF OSDGetDefaultLanguage
<1> QED BY <1>1, <1>2, ConsoleRegionTyped, MGTyped DEF Called, Getters

-----------------------------------------------------------------------------
(* With a ROMVER to read, OSDInitSystemPaths fills all caches at once.     *)

Refused == console.osd \notin {"none", "?"}
Asks    == console.osd = "?" /\ console.mecha

Letter == IF Asks THEN console.data.osd ELSE console.osd
Name   == IF Asks THEN console.data.lang ELSE console.lang
Own    == OSDRegionOf(Letter)

(* The MECHACON's answer, or why there is none.                            *)
Status == IF Refused THEN -256 ELSE IF console.mecha THEN 1 ELSE -1
Answered(ps1) ==
  IF Refused THEN Cold.RegionData
  ELSE IF console.mecha THEN [console.data EXCEPT !.ps1 = ps1]
  ELSE [Cold.RegionData EXCEPT !.ps1 = "zero"]

Language == IF Own = INVALID THEN -1 ELSE DefaultLanguage(Own, Name)

Filled(region, data) ==
  [ConsoleRegion |-> region, OSDRegion |-> Own, OSDLanguage |-> Language,
   OSDRegionInitStatus |-> 1, RegionParamInitStatus |-> Status, RegionData |-> data]

Full == Filled(ConsoleRegionOf(console.rom), Answered(console.rom))

(* No console without a region has a language: "xxx" gives none.           *)
LEMMA NoLanguage ==
  ASSUME NEW region \in INVALID .. ASIA
  PROVE  DefaultLanguage(region, "xxx") = -1
<1>1. OSDIsLanguageValid(region, -1) = -1
  BY DEF OSDIsLanguageValid
<1>2. "xxx" \notin DOMAIN Languages
  BY DEF Languages
<1> QED BY <1>1, <1>2 DEF DefaultLanguage

(* FromROMVER puts the letter of ROMVER into the MECHACON's answer.        *)
LEMMA LetterPut ==
  ASSUME NEW ps1, console \in ConsoleRecords
  PROVE  [Answered(ps1) EXCEPT !.ps1 = IF Status >= 0 THEN console.rom ELSE @] = Answered(console.rom)
<1>1. CASE Refused
  <2>1. Answered(ps1) = Cold.RegionData /\ Answered(console.rom) = Cold.RegionData /\ Status = -256
    BY <1>1 DEF Answered, Status
  <2> QED BY <2>1 DEF Cold
<1>2. CASE ~ Refused /\ console.mecha
  <2>1. /\ Answered(ps1) = [console.data EXCEPT !.ps1 = ps1]
        /\ Answered(console.rom) = [console.data EXCEPT !.ps1 = console.rom] /\ Status = 1
    BY <1>2 DEF Answered, Status
  <2>2. console.data \in Data
    BY DEF ConsoleRecords
  <2>3. [[console.data EXCEPT !.ps1 = ps1] EXCEPT !.ps1 = console.rom]
          = [console.data EXCEPT !.ps1 = console.rom]
    BY <2>2 DEF Data
  <2> QED BY <2>1, <2>3
<1>3. CASE ~ Refused /\ ~ console.mecha
  <2> DEFINE zero == [Cold.RegionData EXCEPT !.ps1 = "zero"]
  <2>1. Answered(ps1) = zero /\ Answered(console.rom) = zero /\ Status = -1
    BY <1>3 DEF Answered, Status
  <2>2. [zero EXCEPT !.ps1 = zero.ps1] = zero
    BY DEF Cold
  <2> QED BY <2>1, <2>2
<1> QED BY <1>1, <1>2, <1>3

LEMMA RomPut ==
  ASSUME NEW region, NEW ps1, console \in ConsoleRecords
  PROVE  FromROMVER(Filled(region, Answered(ps1))) = Full
<1> DEFINE c == Filled(region, Answered(ps1))
<1>1. FromROMVER(c)
        = [c EXCEPT !.ConsoleRegion = ConsoleRegionOf(console.rom),
                    !.RegionData =
                      [c.RegionData EXCEPT !.ps1 =
                         IF c.RegionParamInitStatus >= 0 THEN console.rom ELSE @]]
  BY DEF FromROMVER
<1>2. c.RegionData = Answered(ps1) /\ c.RegionParamInitStatus = Status
  BY DEF Filled
<1>3. FromROMVER(c) = [c EXCEPT !.ConsoleRegion = ConsoleRegionOf(console.rom),
                                !.RegionData = Answered(console.rom)]
  BY <1>1, <1>2, LetterPut
<1> QED BY <1>3 DEF Filled, Full

(* OSDVER answers the same each time it is read.                           *)
LEMMA ReadAgain ==
  ASSUME NEW c, c = Full, console \in ConsoleRecords
  PROVE  GetOSDRegion(c) = c /\ ConsoleInitRegion(c) = c
<1>1. InitMGRegion(c) = c
  BY DEF InitMGRegion, Full, Filled, Status
<1>2. ASSUME Own = INVALID PROVE GetOSDRegion(c) = c
  <2>1. [c EXCEPT !.OSDRegionInitStatus = 1] = c /\ [c EXCEPT !.OSDRegion = INVALID] = c
    BY <1>2 DEF Full, Filled
  <2>2. CASE console.osd = "none"
    <3>1. [c EXCEPT !.OSDRegionInitStatus = 1, !.OSDRegion = INVALID]
            = [[c EXCEPT !.OSDRegionInitStatus = 1] EXCEPT !.OSDRegion = INVALID]
      OBVIOUS
    <3>2. c.OSDRegion = INVALID
      BY <1>2 DEF Full, Filled
    <3> QED BY <2>1, <2>2, <3>1, <3>2 DEF GetOSDRegion
  <2>3. CASE console.osd # "none"
    <3>1. CdReadOSDRegionParams(c) = c
      BY <1>1, <2>3 DEF CdReadOSDRegionParams, Full, Filled, Status, Refused
    <3>2. OSDVer(c).letter = Letter
      BY DEF OSDVer, Full, Filled, Status, Answered, ConsoleRecords, Data, Letter, Asks, Refused
    <3>3. ReadOSDVer(c) = c
      BY <1>2, <2>1, <3>2 DEF ReadOSDVer, FromOSDVer, Own
    <3> QED BY <1>2, <2>1, <2>3, <3>1, <3>3 DEF GetOSDRegion, Full, Filled
  <2> QED BY <2>2, <2>3
<1>3. ASSUME Own # INVALID PROVE GetOSDRegion(c) = c
  BY <1>3 DEF GetOSDRegion, Full, Filled
<1> QED BY <1>1, <1>2, <1>3 DEF ConsoleInitRegion

LEMMA FullStays ==
  ASSUME NEW c, c = Full, console \in ConsoleRecords, console.rom # "none"
  PROVE  /\ \A g \in Getters : Called(g, c) = c
         /\ Asked(c) = c /\ GetOSDRegion(c) = c
<1>1. GetOSDRegion(c) = c /\ ConsoleInitRegion(c) = c
  BY ReadAgain
<1>2. InitMGRegion(c) = c
  BY DEF InitMGRegion, Full, Filled, Status
<1>3. GetConsoleRegion(c) = c
  <2>1. FromROMVER(c) = c
    BY RomPut DEF Full, Filled
  <2> QED BY <1>1, <2>1 DEF GetConsoleRegion
<1>4. OSDGetRegion(c) = c
  <2>1. ASSUME Own = INVALID PROVE ConsoleLanguage(c) = c
    <3>1. AtLeastJapan(c.ConsoleRegion) \in INVALID .. ASIA
      BY RegionsTyped DEF AtLeastJapan, Full, Filled, INVALID, JAPAN, CHINA, ASIA
    <3>2. [c EXCEPT !.OSDLanguage = -1] = c /\ c.OSDLanguage = -1
      BY <2>1 DEF Full, Filled, Language
    <3> QED BY <3>1, <3>2, NoLanguage DEF ConsoleLanguage, InitOSDDefaultLanguage
  <2>2. Own \in INVALID .. ASIA
    BY RegionsTyped, Zenon DEF Own
  <2>3. c.OSDRegion = Own
    BY DEF Full, Filled
  <2> QED BY <1>1, <1>3, <2>1, <2>2, <2>3 DEF OSDGetRegion, OrConsole, INVALID, ASIA
<1>5. OSDGetDefaultLanguage(c) = c
  BY <1>4 DEF OSDGetDefaultLanguage
<1> QED BY <1>1, <1>2, <1>3, <1>4, <1>5 DEF Called, Getters, Asked

(* The caches on the way there.                                            *)
Begun(osd, status, data) ==
  [ConsoleRegion |-> INVALID, OSDRegion |-> osd, OSDLanguage |-> -1,
   OSDRegionInitStatus |-> 1, RegionParamInitStatus |-> status, RegionData |-> data]

LEMMA Filling ==
  ASSUME NEW osd, NEW status, NEW data
  PROVE  /\ \A value : [Begun(osd, status, data) EXCEPT !.RegionParamInitStatus = value] = Begun(osd, value, data)
         /\ \A value : [Begun(osd, status, data) EXCEPT !.RegionData = value] = Begun(osd, status, value)
         /\ \A value : [Begun(osd, status, data) EXCEPT !.OSDRegion = value] = Begun(value, status, data)
         /\ Begun(osd, status, data).RegionParamInitStatus = status
         /\ Begun(osd, status, data).RegionData = data
         /\ Begun(osd, status, data).OSDLanguage = -1
         /\ [Cold EXCEPT !.OSDRegionInitStatus = 1] = Begun(INVALID, 0, Cold.RegionData)
BY DEF Begun, Cold

Put(c, status, data) == [c EXCEPT !.RegionParamInitStatus = status, !.RegionData = data]

LEMMA Putting ==
  ASSUME NEW osd, NEW status, NEW data, NEW s, NEW d
  PROVE  Put(Begun(osd, status, data), s, d) = Begun(osd, s, d)
<1> DEFINE b == Begun(osd, status, data)
<1>1. Put(b, s, d) = [[b EXCEPT !.RegionParamInitStatus = s] EXCEPT !.RegionData = d]
  <2> HIDE DEF b
  <2> QED BY DEF Put
<1>2. [b EXCEPT !.RegionParamInitStatus = s] = Begun(osd, s, data)
  BY Filling
<1>3. [Begun(osd, s, data) EXCEPT !.RegionData = d] = Begun(osd, s, d)
  BY Filling
<1> HIDE DEF b
<1>4. Put(b, s, d) = Begun(osd, s, d)
  BY <1>1, <1>2, <1>3
<1> QED BY <1>4 DEF b

LEMMA FilledAtOnce ==
  ASSUME console \in ConsoleRecords, console.rom # "none"
  PROVE  Called("console", Cold) = Full
<1> DEFINE raw == IF Refused THEN Cold.RegionData
                  ELSE IF console.mecha THEN console.data
                  ELSE [Cold.RegionData EXCEPT !.ps1 = "zero"]
           d == Begun(INVALID, 0, Cold.RegionData)
           f == Begun(INVALID, Status, raw)
<1>0. ~ Refused => InitMGRegion(d) = f
  <2> DEFINE zero == [Cold.RegionData EXCEPT !.ps1 = "zero"]
  <2>1. Put(d, 1, console.data) = Begun(INVALID, 1, console.data)
    BY Putting
  <2>2. Put(d, -1, zero) = Begun(INVALID, -1, zero)
    BY Putting
  <2>3. d.RegionParamInitStatus = 0
    BY Filling
  <2> HIDE DEF d
  <2>4. InitMGRegion(d) = IF console.mecha THEN Put(d, 1, console.data) ELSE Put(d, -1, zero)
    BY <2>3 DEF InitMGRegion, Put
  <2> QED BY <2>1, <2>2, <2>4 DEF Status
<1>1. console.osd # "none" => CdReadOSDRegionParams(d) = f
  <2>1. CASE Refused
    BY <2>1, Filling DEF CdReadOSDRegionParams, Refused, Status
  <2>2. CASE console.osd = "?"
    BY <1>0, <2>2 DEF CdReadOSDRegionParams, Refused
  <2> QED BY <2>1, <2>2 DEF Refused
<1>2. console.osd = "none" => InitMGRegion(d) = f
  BY <1>0 DEF Refused
<1>3. OSDVer(f) = [letter |-> Letter, lang |-> Name]
  BY Filling DEF OSDVer, Letter, Name, Asks, Refused, Status
<1>4. raw = Answered(console.data.ps1)
  BY DEF Answered, ConsoleRecords, Data
<1> HIDE DEF raw
<1>5. [f EXCEPT !.OSDRegion = Own] = Begun(Own, Status, raw)
  BY Filling
<1>6. Own = INVALID => Begun(Own, Status, raw) = Filled(INVALID, raw)
  BY DEF Begun, Filled, Language
<1>7. [Begun(Own, Status, raw) EXCEPT !.OSDLanguage = Language] = Filled(INVALID, raw)
  BY DEF Begun, Filled
<1>8. ReadOSDVer(f) = Filled(INVALID, raw)
  <2>1. CASE Own = INVALID
    BY <1>3, <1>5, <1>6, <2>1 DEF ReadOSDVer, FromOSDVer, Own
  <2>2. CASE Own # INVALID
    <3>1. InitOSDDefaultLanguage(Begun(Own, Status, raw), Own, Name) = Filled(INVALID, raw)
      BY <1>7, <2>2, Filling DEF InitOSDDefaultLanguage, Language
    <3> QED BY <1>3, <1>5, <2>2, <3>1 DEF ReadOSDVer, FromOSDVer, Own
  <2> QED BY <2>1, <2>2
<1>9. ConsoleInitRegion(Cold) = Filled(INVALID, raw)
  <2>1. CASE console.osd = "none"
    <3>1. Own = INVALID
      BY <2>1 DEF Own, Letter, Asks, OSDRegionOf
    <3>2. GetOSDRegion(Cold) = d
      <4>1. [Cold EXCEPT !.OSDRegionInitStatus = 1, !.OSDRegion = INVALID]
              = [[Cold EXCEPT !.OSDRegionInitStatus = 1] EXCEPT !.OSDRegion = INVALID]
        OBVIOUS
      <4>2. [d EXCEPT !.OSDRegion = INVALID] = d
        BY Filling
      <4>3. [Cold EXCEPT !.OSDRegionInitStatus = 1] = d
        BY Filling
      <4>4. Cold.OSDRegion = INVALID
        BY DEF Cold
      <4> HIDE DEF d
      <4> QED BY <2>1, <4>1, <4>2, <4>3, <4>4 DEF GetOSDRegion
    <3> QED BY <1>2, <1>6, <2>1, <3>1, <3>2 DEF ConsoleInitRegion
  <2>2. CASE console.osd # "none"
    <3>1. GetOSDRegion(Cold) = Filled(INVALID, raw)
      <4>1. [Cold EXCEPT !.OSDRegionInitStatus = 1] = d
        BY Filling
      <4>2. Cold.OSDRegion = INVALID
        BY DEF Cold
      <4> HIDE DEF d, f
      <4> QED BY <1>1, <1>8, <2>2, <4>1, <4>2 DEF GetOSDRegion
    <3>2. InitMGRegion(Filled(INVALID, raw)) = Filled(INVALID, raw)
      BY DEF InitMGRegion, Filled, Status
    <3> QED BY <3>1, <3>2 DEF ConsoleInitRegion
  <2> QED BY <2>1, <2>2
<1>10. Cold.ConsoleRegion = INVALID
  BY DEF Cold
<1> QED BY <1>4, <1>9, <1>10, RomPut DEF Called, GetConsoleRegion, INVALID

-----------------------------------------------------------------------------
(* The settings.                                                           *)

LEMMA Widths ==
  /\ Bits(1) = 0 .. 1 /\ Bits(2) = 0 .. 3 /\ Bits(3) = 0 .. 7 /\ Bits(5) = 0 .. 31 /\ Bits(8) = 0 .. 255
  /\ Bits(9) = 0 .. 511
  /\ \A v \in Int : Trunc(v, 5) \in 0 .. 31
  /\ \A v \in 0 .. 31 : Trunc(v, 5) = v
<1>1. 2 ^ 1 = 2 /\ 2 ^ 2 = 4 /\ 2 ^ 3 = 8 /\ 2 ^ 5 = 32 /\ 2 ^ 8 = 256 /\ 2 ^ 9 = 512
  OBVIOUS
<1> QED BY <1>1 DEF Bits, Trunc

(* A block is as wide after a part of it is written.                       *)
LEMMA WritePS1Typed ==
  ASSUME NEW block \in Block, NEW config \in PS1Part
  PROVE  /\ WriteOSDConfigPS1(block, config) \in Block
         /\ WriteOSDConfigPS1(block, config).ps1drv = config.ps1drv
         /\ WriteOSDConfigPS1(block, config).unused = config.unused
         /\ WriteOSDConfigPS1(block, config).unknownB13_01 = block.unknownB13_01
<1>1. config.ps1drv \in Byte /\ config.unused \in Bits(8)
  BY DEF PS1Part
<1> QED BY <1>1 DEF WriteOSDConfigPS1, Block

LEMMA WritePS2Typed ==
  ASSUME NEW block \in Block, NEW config \in Settings, NEW invalid \in 0 .. 1
  PROVE  /\ WriteOSDConfigPS2(block, config, invalid) \in Block
         /\ ReadOSDConfigPS2(WriteOSDConfigPS2(block, config, invalid)) = config
         /\ WriteOSDConfigPS2(block, config, invalid).osdInit = 1 - invalid
         /\ WriteOSDConfigPS2(block, config, invalid).unknownB13_01 = block.unknownB13_01
         /\ WriteOSDConfigPS2(block, config, invalid).ps1drv = block.ps1drv
         /\ WriteOSDConfigPS2(block, config, invalid).unused = block.unused
<1> DEFINE new == WriteOSDConfigPS2(block, config, invalid)
           jap == IF config.language <= ENGLISH THEN config.language ELSE block.japLanguage
<1>1. /\ new.japLanguage = jap /\ new.extendedLanguage = 1 /\ new.language = config.language
      /\ new.version = 1 /\ new.timezone = config.timezone /\ new.screenType = config.screenType
      /\ new.osdInit = 1 - invalid /\ new.unknownB13_01 = block.unknownB13_01
      /\ new.ps1drv = block.ps1drv /\ new.unused = block.unused
      /\ new = [f \in DOMAIN block |-> new[f]]
  BY DEF WriteOSDConfigPS2, Block
<1>2. jap \in Bits(1)
  BY Widths DEF Block, Settings, ENGLISH, Languages
<1>3. config.language \in Bits(5) /\ config.timezone \in Bits(9) /\ config.screenType \in Bits(2)
      /\ config = [language |-> config.language, timezone |-> config.timezone,
                    screenType |-> config.screenType]
  BY DEF Settings
<1>4. 1 \in Bits(1) /\ 1 \in Bits(3) /\ 1 - invalid \in Bits(1) /\ block.unknownB13_01 \in Bits(3)
      /\ block.ps1drv \in Byte /\ block.unused \in Bits(8)
  BY Widths DEF Block
<1>5. DOMAIN block = {"ps1drv", "unused", "language", "japLanguage", "extendedLanguage", "version",
                      "timezone", "screenType", "osdInit", "unknownB13_01"}
  BY DEF Block
<1> HIDE DEF new, jap
<1>6. new \in Block
  BY <1>1, <1>2, <1>3, <1>4, <1>5 DEF Block
<1>7. ReadOSDConfigPS2(new) = config
  BY <1>1, <1>3 DEF ReadOSDConfigPS2
<1> QED BY <1>1, <1>6, <1>7 DEF new

(* What a load finds after a save: all that was in memory but the          *)
(* undefined bits.                                                         *)
LEMMA SaveWrites ==
  ASSUME NEW block \in Block, NEW ps1 \in PS1Part, NEW config \in Settings, NEW byte \in Byte,
         NEW invalid \in 0 .. 1
  PROVE  LET part == [ps1 EXCEPT !.ps1drv = byte \cap Defined]
             new  == WriteOSDConfigPS2(WriteOSDConfigPS1(block, part), config, invalid)
         IN  /\ part \in PS1Part /\ part.unused = ps1.unused
             /\ new \in Block /\ new.osdInit = 1 - invalid
             /\ Found(new) = With(config, byte \cap Defined)
             /\ new.ps1drv \subseteq Defined
             /\ new.unused = ps1.unused /\ new.unknownB13_01 = block.unknownB13_01
<1> DEFINE part == [ps1 EXCEPT !.ps1drv = byte \cap Defined]
           mid  == WriteOSDConfigPS1(block, part)
           new  == WriteOSDConfigPS2(mid, config, invalid)
<1>1. byte \cap Defined \in Byte
  BY DEF Byte
<1>2. part \in PS1Part /\ part.unused = ps1.unused /\ part.ps1drv = byte \cap Defined
  BY <1>1 DEF PS1Part
<1> HIDE DEF part
<1>3. /\ mid \in Block /\ mid.ps1drv = part.ps1drv /\ mid.unused = part.unused
      /\ mid.unknownB13_01 = block.unknownB13_01
  BY <1>2, WritePS1Typed
<1> HIDE DEF mid
<1>4. /\ new \in Block /\ ReadOSDConfigPS2(new) = config /\ new.osdInit = 1 - invalid
      /\ new.unknownB13_01 = mid.unknownB13_01 /\ new.ps1drv = mid.ps1drv /\ new.unused = mid.unused
  BY <1>3, WritePS2Typed
<1> HIDE DEF new
<1>5. new.ps1drv = byte \cap Defined /\ new.ps1drv \cap Defined = byte \cap Defined
  BY <1>2, <1>3, <1>4
<1>6. Found(new) = With(config, byte \cap Defined)
  BY <1>4, <1>5 DEF Found
<1>7. new.ps1drv \subseteq Defined
  BY <1>5
<1> QED BY <1>2, <1>3, <1>4, <1>6, <1>7 DEF part, mid, new

LEMMA WithTyped ==
  ASSUME NEW config \in Settings, NEW byte \in Byte
  PROVE  /\ With(config, byte) \in AllSettings
         /\ [With(config, byte) EXCEPT !.ps1drv = @ \cap Defined] = With(config, byte \cap Defined)
BY DEF With, Settings, AllSettings

LEMMA ConsoleTyped == RegionTypeOK => cache \in Caches /\ console \in ConsoleRecords
BY ConsoleAssumption DEF RegionTypeOK

(* What the region makes of a language has five bits.                      *)
LEMMA LanguagesTyped ==
  ASSUME NEW c \in Caches, NEW l \in Bits(5), console \in ConsoleRecords
  PROVE  /\ Default(c) \in -1 .. 11 /\ Settled(c, l) \in Bits(5)
         /\ OSDConfigGetLanguage(c, l) \in -1 .. 31
         /\ \A new \in Int : SetLanguage(c, l, new) \in Bits(5)
<1>1. Default(c) \in -1 .. 11
  <2>1. OSDGetRegion(c) \in Caches
    BY GettersTyped
  <2>2. Asked(c) \in Caches
    BY <2>1, GettersTyped DEF Asked
  <2> QED BY <2>2 DEF Default, Caches
<1>2. Settled(c, l) \in Bits(5)
  BY <1>1, Widths DEF Settled
<1>3. OSDConfigGetLanguage(c, l) \in -1 .. 31
  BY <1>1, <1>2, Widths DEF OSDConfigGetLanguage
<1> QED BY <1>1, <1>2, <1>3, Widths DEF SetLanguage

(* A console that is turned on.                                            *)
LEMMA ColdTyped ==
  /\ Cold \in Caches /\ ZeroBlock \in Block /\ ZeroPS1 \in PS1Part /\ Zero \in Settings
  /\ {} \in Byte /\ Unknown \in Unknown .. 511
<1>1. Cold \in Caches
  BY DEF Cold, Caches, Data, Names, INVALID, CHINA, ASIA
<1>2. ZeroBlock \in Block
  BY Widths DEF ZeroBlock, Block, Byte
<1>3. Zero \in Settings
  BY Widths DEF Zero, Settings
<1>4. ZeroPS1 \in PS1Part
  BY Widths DEF ZeroPS1, PS1Part, Byte
<1> QED BY <1>1, <1>2, <1>3, <1>4 DEF Unknown, Byte

LEMMA TypeInv == TypeOK /\ [Next]_vars => TypeOK'
<1> SUFFICES ASSUME TypeOK, [Next]_vars PROVE TypeOK'
  OBVIOUS
<1>0. /\ cache \in Caches /\ console \in ConsoleRecords /\ console \in Consoles
      /\ RegionTypeOK
      /\ nvm \in Block /\ buffer \in Block
      /\ osdConfigPS1 \in PS1Part /\ osdConfigPS2 \in Settings /\ ps1drvConfig \in Byte
      /\ loaded \in BOOLEAN /\ timezone \in Unknown .. 511 /\ sets \in 0 .. MaxSets
      /\ kernel # Nothing => kernel \in [language : Bits(5), language2 : Bits(5), ps1drvConfig : Byte]
      /\ saved # Nothing => saved \in [config : AllSettings, invalid : Bits(1)]
      /\ Asked(cache) \in Caches
  <2>1. cache \in Caches /\ console \in ConsoleRecords
    BY ConsoleTyped DEF TypeOK
  <2>2. OSDGetRegion(cache) \in Caches
    BY <2>1, GettersTyped
  <2>3. Asked(cache) \in Caches
    BY <2>1, <2>2, GettersTyped DEF Asked
  <2> QED BY <2>1, <2>3 DEF TypeOK, RegionTypeOK
<1>1. CASE Start
  <2>1. cache' \in Caches
    BY <1>0, <1>1, GettersTyped DEF Start, OSDInitSystemPaths, Getters
  <2> QED BY <1>0, <1>1, <2>1 DEF Start, OSDInitSystemPaths, configVars, TypeOK, RegionTypeOK
<1>2. ASSUME NEW g \in Getters, Getter(g) PROVE TypeOK'
  <2>1. cache' \in Caches
    BY <1>0, <1>2, GettersTyped DEF Getter, Get
  <2> QED BY <1>0, <1>2, <2>1 DEF Getter, Get, configVars, TypeOK, RegionTypeOK
<1>3. CASE OSDConfigLoad
  <2>1. ReadOSDConfigPS2(nvm) \in Settings
    BY <1>0, Widths DEF ReadOSDConfigPS2, Settings, Block
  <2>2. ReadOSDConfigPS1(nvm) \in PS1Part
    BY <1>0 DEF ReadOSDConfigPS1, PS1Part, Block
  <2>3. osdConfigPS1' \in PS1Part /\ ps1drvConfig' \in Byte
    BY <1>3, <2>2 DEF OSDConfigLoad, PS1Part, Byte
  <2> QED BY <1>0, <1>3, <2>1, <2>3 DEF OSDConfigLoad, regionVars, TypeOK, RegionTypeOK
<1>4. ASSUME NEW invalid \in 0 .. 1, OSDConfigSave(invalid) PROVE TypeOK'
  <2>1. osdConfigPS1' \in PS1Part /\ buffer' \in Block
    BY <1>0, <1>4, SaveWrites DEF OSDConfigSave
  <2>2. [config |-> InMemory, invalid |-> invalid] \in [config : AllSettings, invalid : Bits(1)]
    <3>1. InMemory \in AllSettings
      BY <1>0, WithTyped DEF InMemory
    <3> QED BY <3>1, Widths
  <2> QED BY <1>0, <1>4, <2>1, <2>2 DEF OSDConfigSave, regionVars, TypeOK, RegionTypeOK
<1>5. CASE OSDConfigApply
  <2> DEFINE first == OSDConfigGetLanguage(cache, osdConfigPS2.language)
             raw   == Settled(cache, osdConfigPS2.language)
             second == OSDConfigGetLanguage(cache, raw)
  <2>1. osdConfigPS2.language \in Bits(5)
    BY <1>0 DEF Settings
  <2>2. first \in -1 .. 31 /\ raw \in Bits(5)
    BY <1>0, <2>1, LanguagesTyped
  <2>3. second \in -1 .. 31
    BY <1>0, <2>2, LanguagesTyped
  <2>4. [osdConfigPS2 EXCEPT !.language = raw] \in Settings
    BY <1>0, <2>2 DEF Settings
  <2>5. [language |-> Trunc(IF first <= PORTUGUESE THEN first ELSE ENGLISH, 5),
         language2 |-> Trunc(second, 5), ps1drvConfig |-> ps1drvConfig]
          \in [language : Bits(5), language2 : Bits(5), ps1drvConfig : Byte]
    <3>1. (IF first <= PORTUGUESE THEN first ELSE ENGLISH) \in Int
      BY <2>2 DEF ENGLISH, Languages
    <3> QED BY <1>0, <3>1, <2>3, Widths
  <2> HIDE DEF first, raw, second
  <2>6. osdConfigPS2' \in Settings
        /\ kernel' \in [language : Bits(5), language2 : Bits(5), ps1drvConfig : Byte]
    BY <1>5, <2>4, <2>5 DEF OSDConfigApply, first, raw, second
  <2> QED BY <1>0, <1>5, <2>6 DEF OSDConfigApply, TypeOK, RegionTypeOK
<1>6. ASSUME NEW new \in NewLanguages, OSDConfigSetLanguage(new) PROVE TypeOK'
  <2>1. osdConfigPS2.language \in Bits(5) /\ new \in Int
    BY <1>0, ConfigAssumption DEF Settings
  <2>2. SetLanguage(cache, osdConfigPS2.language, new) \in Bits(5)
    BY <1>0, <2>1, LanguagesTyped
  <2>3. osdConfigPS2' \in Settings
    BY <1>0, <1>6, <2>2 DEF OSDConfigSetLanguage, Settings
  <2> QED BY <1>0, <1>6, <2>3, ConfigAssumption DEF OSDConfigSetLanguage, Set, TypeOK, RegionTypeOK
<1>7. ASSUME NEW new \in NewTimezones, OSDConfigSetTimezone(new) PROVE TypeOK'
  <2>1. SetTimezone(new, timezone) \in Bits(9)
    BY <1>0, Widths, ConfigAssumption DEF SetTimezone, Unknown
  <2>2. osdConfigPS2' \in Settings
    BY <1>0, <1>7, <2>1 DEF OSDConfigSetTimezone, Settings
  <2> QED BY <1>0, <1>7, <2>2, ConfigAssumption DEF OSDConfigSetTimezone, Set, TypeOK, RegionTypeOK
<1>8. ASSUME NEW new \in NewScreens, OSDConfigSetScreenType(new) PROVE TypeOK'
  <2>1. SetScreenType(osdConfigPS2.screenType, new) \in Bits(2)
    BY <1>0, Widths, ConfigAssumption DEF SetScreenType, Settings
  <2>2. osdConfigPS2' \in Settings
    BY <1>0, <1>8, <2>1 DEF OSDConfigSetScreenType, Settings
  <2> QED BY <1>0, <1>8, <2>2, ConfigAssumption DEF OSDConfigSetScreenType, Set, TypeOK, RegionTypeOK
<1>9. CASE GetTimezone
  <2>1. timezone' \in Unknown .. 511
    BY <1>0, <1>9, Widths DEF GetTimezone, Remembered, Settings, Unknown
  <2> QED BY <1>0, <1>9, <2>1 DEF GetTimezone, regionVars, TypeOK, RegionTypeOK
<1>10. CASE PowerCycle
  <2>1. /\ Cold \in Caches /\ ZeroBlock \in Block /\ ZeroPS1 \in PS1Part /\ Zero \in Settings
        /\ {} \in Byte /\ Unknown \in Unknown .. 511
    BY ColdTyped
  <2> QED BY <1>0, <1>10, <2>1 DEF PowerCycle, TypeOK, RegionTypeOK
<1>12. ASSUME NEW new \in NewPSConfigs, OSDConfigSetPSConfig(new) PROVE TypeOK'
  <2>1. ps1drvConfig' \in Byte
    BY <1>12, ConfigAssumption DEF OSDConfigSetPSConfig
  <2> QED BY <1>0, <1>12, <2>1, ConfigAssumption DEF OSDConfigSetPSConfig, Set, TypeOK, RegionTypeOK
<1>11. CASE UNCHANGED vars
  BY <1>0, <1>11 DEF vars, regionVars, configVars, TypeOK, RegionTypeOK
<1> QED BY <1>1, <1>2, <1>3, <1>4, <1>5, <1>6, <1>7, <1>8, <1>9, <1>10, <1>11, <1>12 DEF Next

LEMMA TypeInit == Init => TypeOK
<1> SUFFICES ASSUME Init PROVE TypeOK
  OBVIOUS
<1>1. /\ Cold \in Caches /\ ZeroBlock \in Block /\ ZeroPS1 \in PS1Part /\ Zero \in Settings
      /\ {} \in Byte /\ Unknown \in Unknown .. 511
  BY ColdTyped
<1>2. nvm \in Block /\ 0 \in 0 .. MaxSets
  BY ConfigAssumption DEF Init
<1> QED BY <1>1, <1>2 DEF Init, RegionInit, TypeOK, RegionTypeOK

(* The variables keep their types: no setter stores what does not fit.     *)
THEOREM TypeCorrect == Spec => []TypeOK
BY TypeInit, TypeInv, PTL DEF Spec

-----------------------------------------------------------------------------
(* What is saved.                                                          *)

(* The buffer is the block of the EEPROM while settings are loaded, and    *)
(* osdConfigPS1 has its unused bytes.                                      *)
Stored ==
  /\ loaded => buffer = nvm /\ osdConfigPS1.unused = nvm.unused
  /\ SavedIsStored

CarriedOver ==
  /\ nvm'.unused = nvm.unused /\ nvm'.unknownB13_01 = nvm.unknownB13_01
  /\ nvm' = nvm \/ nvm'.ps1drv \subseteq Defined

LEMMA StoredInv == TypeOK /\ Stored /\ [Next]_vars => Stored' /\ CarriedOver
<1> SUFFICES ASSUME TypeOK, Stored, [Next]_vars
             PROVE  Stored' /\ CarriedOver
  OBVIOUS
<1>1. CASE UNCHANGED <<nvm, buffer, osdConfigPS1, loaded, saved>>
  BY <1>1 DEF Stored, SavedIsStored, CarriedOver
<1>2. CASE OSDConfigLoad
  BY <1>2 DEF OSDConfigLoad, Stored, SavedIsStored, CarriedOver, ReadOSDConfigPS1
<1>3. ASSUME NEW invalid \in 0 .. 1, OSDConfigSave(invalid)
      PROVE  Stored' /\ CarriedOver
  <2>1. buffer \in Block /\ osdConfigPS1 \in PS1Part /\ osdConfigPS2 \in Settings
        /\ ps1drvConfig \in Byte
    BY DEF TypeOK
  <2>2. /\ Found(nvm') = With(osdConfigPS2, ps1drvConfig \cap Defined) /\ nvm'.osdInit = 1 - invalid
        /\ nvm'.ps1drv \subseteq Defined
        /\ nvm'.unused = osdConfigPS1.unused /\ nvm'.unknownB13_01 = buffer.unknownB13_01
        /\ osdConfigPS1'.unused = osdConfigPS1.unused
    BY <1>3, <2>1, SaveWrites DEF OSDConfigSave
  <2>3. /\ buffer = nvm /\ osdConfigPS1.unused = nvm.unused /\ buffer' = nvm'
        /\ saved' = [config |-> InMemory, invalid |-> invalid]
    BY <1>3 DEF OSDConfigSave, Stored
  <2>4. [InMemory EXCEPT !.ps1drv = @ \cap Defined] = With(osdConfigPS2, ps1drvConfig \cap Defined)
    BY <2>1, WithTyped DEF InMemory
  <2>5. SavedIsStored'
    BY <2>2, <2>3, <2>4 DEF SavedIsStored
  <2>6. (loaded => buffer = nvm /\ osdConfigPS1.unused = nvm.unused)'
    BY <2>2, <2>3
  <2> QED BY <2>2, <2>3, <2>5, <2>6 DEF Stored, CarriedOver
<1>4. CASE PowerCycle
  BY <1>4 DEF PowerCycle, Stored, SavedIsStored, CarriedOver
<1>5. Start \/ (\E g \in Getters : Getter(g)) \/ OSDConfigApply \/ GetTimezone
      \/ (\E new \in NewLanguages : OSDConfigSetLanguage(new))
      \/ (\E new \in NewTimezones : OSDConfigSetTimezone(new))
      \/ (\E new \in NewScreens : OSDConfigSetScreenType(new))
      \/ (\E new \in NewPSConfigs : OSDConfigSetPSConfig(new))
      \/ UNCHANGED vars => UNCHANGED <<nvm, buffer, osdConfigPS1, loaded, saved>>
  BY DEF Start, Getter, OSDConfigApply, GetTimezone, OSDConfigSetLanguage, OSDConfigSetTimezone,
         OSDConfigSetScreenType, OSDConfigSetPSConfig, Set, configVars, vars
<1> QED BY <1>1, <1>2, <1>3, <1>4, <1>5 DEF Next

LEMMA StoredAlways == Spec => [](TypeOK /\ Stored)
<1>1. Init => TypeOK /\ Stored
  BY TypeInit DEF Init, Stored, SavedIsStored
<1>2. TypeOK /\ Stored /\ [Next]_vars => (TypeOK /\ Stored)'
  BY TypeInv, StoredInv
<1> QED BY <1>1, <1>2, PTL DEF Spec

(* A load finds what was in memory at the last save, after any calls and   *)
(* losses of power, but for the undefined bits of the PlayStation setting. *)
THEOREM SavedSettingsAreStored == Spec => []SavedIsStored
<1>1. TypeOK /\ Stored => SavedIsStored
  BY DEF Stored
<1> QED BY <1>1, StoredAlways, PTL

(* Neither the unused bytes of the PlayStation part nor the unknown bits   *)
(* of the other part ever change; a save clears the undefined bits of the  *)
(* PlayStation setting.                                                    *)
THEOREM UnknownBitsCarryOver == Spec => SaveCarriesOver
<1>1. TypeOK /\ Stored /\ [Next]_vars
        => [/\ nvm'.unused = nvm.unused /\ nvm'.unknownB13_01 = nvm.unknownB13_01
            /\ nvm' = nvm \/ nvm'.ps1drv \subseteq Defined]_vars
  BY StoredInv DEF CarriedOver
<1> QED BY <1>1, StoredAlways, PTL DEF Spec, SaveCarriesOver

(* Reading a setting and writing it back leaves it as it was, but where    *)
(* reading Japanese on an export console has put the default in its place. *)
THEOREM WritingBackKeeps == Spec => []WriteBackKeeps
<1>1. TypeOK => WriteBackKeeps
  <2> SUFFICES ASSUME TypeOK PROVE WriteBackKeeps
    OBVIOUS
  <2> DEFINE l == osdConfigPS2.language
             lang == Settled(cache, l)
             told == OSDConfigGetLanguage(cache, l)
  <2>1. cache \in Caches /\ console \in ConsoleRecords /\ l \in 0 .. 31
        /\ osdConfigPS2.timezone \in 0 .. 511 /\ osdConfigPS2.screenType \in 0 .. 3
    BY ConsoleTyped, Widths DEF TypeOK, Settings
  <2>2. Default(cache) \in -1 .. 11
    <3>1. l \in Bits(5)
      BY <2>1, Widths
    <3> QED BY <2>1, <3>1, LanguagesTyped
  <2> DEFINE back == SetLanguage(cache, lang, told)
  <2>3. back = IF Region(cache) # JAPAN /\ l = JAPANESE THEN Trunc(Default(cache), 5) ELSE l
    <3>1. CASE Region(cache) # JAPAN /\ l = JAPANESE
      BY <2>1, <2>2, <3>1, Widths DEF SetLanguage, Settled, OSDConfigGetLanguage
    <3>2. CASE ~ (Region(cache) # JAPAN /\ l = JAPANESE)
      <4>1. lang = l /\ Trunc(l, 5) = l
        BY <2>1, <3>2, Widths DEF Settled
      <4>2. CASE OSDIsLanguageValid(Region(cache), l) >= 0
        <5>1. told = l
          BY <3>2, <4>2 DEF OSDConfigGetLanguage
        <5> QED BY <3>2, <4>1, <5>1 DEF SetLanguage
      <4>3. CASE ~ OSDIsLanguageValid(Region(cache), l) >= 0
        <5>1. told = Default(cache)
          BY <3>2, <4>3 DEF OSDConfigGetLanguage
        <5>2. OSDIsLanguageValid(Region(cache), l) = -1
          BY <2>1, <4>3 DEF OSDIsLanguageValid
        <5> QED BY <3>2, <4>1, <5>1, <5>2 DEF SetLanguage
      <4> QED BY <4>2, <4>3
    <3> QED BY <3>1, <3>2
  <2> HIDE DEF lang, told, back
  <2>4. SetTimezone(OSDConfigGetTimezone(osdConfigPS2.timezone), Remembered(osdConfigPS2.timezone, timezone))
          = osdConfigPS2.timezone
    BY <2>1 DEF SetTimezone, OSDConfigGetTimezone, Remembered, Unknown
  <2>5. SetScreenType(osdConfigPS2.screenType, OSDConfigGetScreenType(osdConfigPS2.screenType))
          = osdConfigPS2.screenType
    BY <2>1 DEF SetScreenType, OSDConfigGetScreenType
  <2> QED BY <2>3, <2>4, <2>5 DEF WriteBackKeeps, lang, told, back
<1> QED BY <1>1, TypeCorrect, PTL

-----------------------------------------------------------------------------
(* The settings are a store: they are kept as they are, and lost in memory *)
(* alone.                                                                  *)

LEMMA OneChanges ==
  ASSUME NEW c \in Settings, NEW d \in Settings, NEW b \in Byte, NEW e \in Byte,
         \/ b = e /\ \E f \in {"language", "timezone", "screenType"} :
                      \A g \in {"language", "timezone", "screenType"} \ {f} : d[g] = c[g]
         \/ d = c
  PROVE  \E field \in DOMAIN With(c, b) :
           \A other \in DOMAIN With(c, b) \ {field} : With(d, e)[other] = With(c, b)[other]
<1> DEFINE all == {"language", "timezone", "screenType", "ps1drv"}
<1>1. DOMAIN With(c, b) = all
  BY DEF With
<1>2. CASE d = c
  <2>1. \A other \in all \ {"ps1drv"} : With(d, e)[other] = With(c, b)[other]
    BY <1>2 DEF With
  <2> QED BY <1>1, <2>1
<1>3. CASE b = e /\ \E f \in {"language", "timezone", "screenType"} :
                      \A g \in {"language", "timezone", "screenType"} \ {f} : d[g] = c[g]
  <2>1. PICK f \in {"language", "timezone", "screenType"} :
          \A g \in {"language", "timezone", "screenType"} \ {f} : d[g] = c[g]
    BY <1>3
  <2>2. \A other \in all \ {f} : With(d, e)[other] = With(c, b)[other]
    BY <1>3, <2>1 DEF With
  <2> QED BY <1>1, <2>1, <2>2
<1> QED BY <1>2, <1>3

LEMMA StoreInit == Init => Store!Init
<1> SUFFICES ASSUME Init PROVE Store!Init
  OBVIOUS
<1>1. ReadOSDConfigPS2(nvm) \in Settings /\ nvm.osdInit \in 0 .. 1 /\ nvm.ps1drv \cap Defined \in Byte
  BY ConfigAssumption, Widths DEF Init, ReadOSDConfigPS2, Settings, Block, Byte
<1>2. Found(nvm) \in AllSettings
  BY <1>1, WithTyped DEF Found
<1> QED BY <1>1, <1>2 DEF Init, Store!Init

LEMMA StoreNext == TypeOK /\ Stored /\ TypeOK' /\ [Next]_vars => [Store!Next]_Store!storeVars
<1> DEFINE stored == [settings |-> Found(nvm), valid |-> nvm.osdInit,
                      others |-> <<nvm.unused, nvm.unknownB13_01>>,
                      undefined |-> nvm.ps1drv \ Defined]
           memory == IF loaded THEN InMemory ELSE Nothing
<1> SUFFICES ASSUME TypeOK, Stored, TypeOK', [Next]_vars
             PROVE  Store!Load \/ Store!Change \/ (\E valid \in 0 .. 1 : Store!Save(valid)) \/ Store!Lose
                      \/ (stored' = stored /\ memory' = memory)
  BY DEF Store!Next, Store!storeVars
<1>0. osdConfigPS2 \in Settings /\ osdConfigPS2' \in Settings /\ loaded \in BOOLEAN
      /\ ps1drvConfig \in Byte /\ ps1drvConfig' \in Byte
      /\ InMemory \in AllSettings /\ InMemory' \in AllSettings /\ InMemory # Nothing
  <2>1. osdConfigPS2 \in Settings /\ osdConfigPS2' \in Settings /\ loaded \in BOOLEAN
        /\ ps1drvConfig \in Byte /\ ps1drvConfig' \in Byte
    BY DEF TypeOK
  <2> QED BY <2>1, WithTyped, ConfigAssumption DEF InMemory
<1>1. nvm' = nvm => stored' = stored
  BY DEF Found
<1>2. ASSUME loaded, loaded' = loaded, nvm' = nvm,
             \/ ps1drvConfig' = ps1drvConfig
                /\ \E f \in {"language", "timezone", "screenType"} : \E v :
                     osdConfigPS2' = [osdConfigPS2 EXCEPT ![f] = v]
             \/ osdConfigPS2' = osdConfigPS2
      PROVE  Store!Change
  <2>1. (\E f \in {"language", "timezone", "screenType"} : \E v :
           osdConfigPS2' = [osdConfigPS2 EXCEPT ![f] = v])
        => \E f \in {"language", "timezone", "screenType"} :
             \A g \in {"language", "timezone", "screenType"} \ {f} : osdConfigPS2'[g] = osdConfigPS2[g]
    BY <1>0 DEF Settings
  <2>2. \E field \in DOMAIN InMemory : \A other \in DOMAIN InMemory \ {field} :
          InMemory'[other] = InMemory[other]
    <3>1. \/ ps1drvConfig = ps1drvConfig'
             /\ \E f \in {"language", "timezone", "screenType"} :
                  \A g \in {"language", "timezone", "screenType"} \ {f} : osdConfigPS2'[g] = osdConfigPS2[g]
          \/ osdConfigPS2' = osdConfigPS2
      BY <1>2, <2>1
    <3>2. InMemory = With(osdConfigPS2, ps1drvConfig) /\ InMemory' = With(osdConfigPS2', ps1drvConfig')
      BY DEF InMemory, With
    <3> QED BY <1>0, <3>1, <3>2, OneChanges
  <2>3. memory = InMemory /\ memory' = InMemory'
    BY <1>2
  <2> HIDE DEF memory
  <2> QED BY <1>0, <1>1, <1>2, <2>2, <2>3 DEF Store!Change, memory
<1>3. CASE OSDConfigLoad
  <2>1. InMemory' = Found(nvm) /\ loaded' /\ nvm' = nvm
    BY <1>3 DEF OSDConfigLoad, InMemory, With, Found, ReadOSDConfigPS1
  <2>2. memory' = Found(nvm) /\ stored' = stored /\ stored.settings = Found(nvm)
    BY <1>1, <2>1
  <2> HIDE DEF memory, stored
  <2> QED BY <2>2 DEF Store!Load, memory, stored
<1>4. ASSUME NEW invalid \in 0 .. 1, OSDConfigSave(invalid) PROVE Store!Save(1 - invalid) /\ 1 - invalid \in 0 .. 1
  <2>1. /\ Found(nvm') = With(osdConfigPS2, ps1drvConfig \cap Defined) /\ nvm'.osdInit = 1 - invalid
        /\ nvm'.ps1drv \subseteq Defined
    <3>1. buffer \in Block /\ osdConfigPS1 \in PS1Part
      BY DEF TypeOK
    <3> QED BY <1>0, <1>4, <3>1, SaveWrites DEF OSDConfigSave
  <2>2. nvm'.unused = nvm.unused /\ nvm'.unknownB13_01 = nvm.unknownB13_01
    BY StoredInv DEF CarriedOver
  <2>3. memory = InMemory /\ memory' = memory /\ loaded
    BY <1>4 DEF OSDConfigSave, InMemory
  <2>4. Found(nvm') = [InMemory EXCEPT !.ps1drv = @ \cap Defined]
    BY <1>0, <2>1, WithTyped DEF InMemory
  <2>5. nvm'.ps1drv \ Defined = {}
    BY <2>1
  <2>6. stored' = [settings |-> [InMemory EXCEPT !.ps1drv = @ \cap Defined], valid |-> 1 - invalid,
                   others |-> stored.others, undefined |-> {}]
    <3>1. stored' = [settings |-> Found(nvm'), valid |-> nvm'.osdInit,
                     others |-> <<nvm'.unused, nvm'.unknownB13_01>>, undefined |-> nvm'.ps1drv \ Defined]
      BY DEF Found
    <3>2. stored.others = <<nvm.unused, nvm.unknownB13_01>>
      OBVIOUS
    <3> HIDE DEF stored
    <3> QED BY <2>1, <2>2, <2>4, <2>5, <3>1, <3>2
  <2> HIDE DEF stored, memory
  <2> QED BY <1>0, <2>3, <2>6 DEF Store!Save, stored, memory
<1>5. CASE OSDConfigApply
  <2>1. osdConfigPS2' = [osdConfigPS2 EXCEPT !["language"] = Settled(cache, osdConfigPS2.language)]
    BY <1>5 DEF OSDConfigApply
  <2>2. loaded /\ loaded' = loaded /\ nvm' = nvm /\ ps1drvConfig' = ps1drvConfig
    BY <1>5 DEF OSDConfigApply
  <2>3. Store!Change
    BY <1>2, <2>1, <2>2
  <2> QED BY <2>3
<1>6. ASSUME NEW new \in NewLanguages, OSDConfigSetLanguage(new) PROVE Store!Change
  <2>1. osdConfigPS2' = [osdConfigPS2 EXCEPT !["language"] = SetLanguage(cache, osdConfigPS2.language, new)]
    BY <1>6 DEF OSDConfigSetLanguage
  <2>2. loaded /\ loaded' = loaded /\ nvm' = nvm /\ ps1drvConfig' = ps1drvConfig
    BY <1>6 DEF OSDConfigSetLanguage, Set
  <2> QED BY <1>2, <2>1, <2>2
<1>7. ASSUME NEW new \in NewTimezones, OSDConfigSetTimezone(new) PROVE Store!Change
  <2>1. osdConfigPS2' = [osdConfigPS2 EXCEPT !["timezone"] = SetTimezone(new, timezone)]
    BY <1>7 DEF OSDConfigSetTimezone
  <2>2. loaded /\ loaded' = loaded /\ nvm' = nvm /\ ps1drvConfig' = ps1drvConfig
    BY <1>7 DEF OSDConfigSetTimezone, Set
  <2> QED BY <1>2, <2>1, <2>2
<1>8. ASSUME NEW new \in NewScreens, OSDConfigSetScreenType(new) PROVE Store!Change
  <2>1. osdConfigPS2' = [osdConfigPS2 EXCEPT !["screenType"] = SetScreenType(osdConfigPS2.screenType, new)]
    BY <1>8 DEF OSDConfigSetScreenType
  <2>2. loaded /\ loaded' = loaded /\ nvm' = nvm /\ ps1drvConfig' = ps1drvConfig
    BY <1>8 DEF OSDConfigSetScreenType, Set
  <2> QED BY <1>2, <2>1, <2>2
<1>11. ASSUME NEW new \in NewPSConfigs, OSDConfigSetPSConfig(new) PROVE Store!Change
  <2>1. osdConfigPS2' = osdConfigPS2 /\ loaded /\ loaded' = loaded /\ nvm' = nvm
    BY <1>11 DEF OSDConfigSetPSConfig, Set
  <2> QED BY <1>2, <2>1
<1>9. CASE PowerCycle
  <2>1. memory' = Nothing /\ stored' = stored
    BY <1>1, <1>9 DEF PowerCycle
  <2> HIDE DEF memory, stored
  <2> QED BY <2>1 DEF Store!Lose, memory, stored
<1>10. CASE Start \/ GetTimezone \/ UNCHANGED vars \/ \E g \in Getters : Getter(g)
  <2>1. UNCHANGED <<nvm, loaded, osdConfigPS2, ps1drvConfig>>
    BY <1>10 DEF Start, Getter, GetTimezone, configVars, vars
  <2>2. InMemory' = InMemory
    BY <2>1 DEF InMemory, With
  <2> QED BY <1>1, <2>1, <2>2
<1> QED BY <1>3, <1>4, <1>5, <1>6, <1>7, <1>8, <1>9, <1>10, <1>11 DEF Next

(* For any EEPROM and any calls, OSDConfig.c implements the store: a save  *)
(* stores what is in memory, of the PlayStation setting the defined bits   *)
(* alone, a load finds what was stored, and neither a getter, nor a        *)
(* setter, nor the giving of the settings to the kernel stores anything or *)
(* changes a second setting.                                               *)
THEOREM SettingsAreAStore == Spec => ImplementsStore
<1>1. TypeOK /\ Stored /\ [Next]_vars => [Store!Next]_Store!storeVars
  BY TypeInv, StoreNext
<1> QED BY <1>1, StoreInit, StoredAlways, PTL DEF Spec, ImplementsStore, Store!Spec

-----------------------------------------------------------------------------
(* The regions of consoles that have a ROMVER.                             *)

HaveROMVER == \A k \in Consoles : k.rom # "none"

Caching ==
  /\ cache = IF ready THEN Full ELSE Cold
  /\ loaded \/ kernel # Nothing => ready

LEMMA FullSame == console' = console => Full' = Full
BY DEF Full, Filled, Own, Letter, Name, Asks, Refused, Status, Answered, Language

LEMMA CachingInv == HaveROMVER /\ TypeOK /\ Caching /\ [Next]_vars => Caching'
<1> SUFFICES ASSUME HaveROMVER, TypeOK, Caching, [Next]_vars PROVE Caching'
  OBVIOUS
<1>1. console' = console
  BY DEF Next, Start, OSDInitSystemPaths, Getter, Get, OSDConfigLoad, OSDConfigSave, OSDConfigApply,
         OSDConfigSetLanguage, OSDConfigSetTimezone, OSDConfigSetScreenType, OSDConfigSetPSConfig,
         Set, GetTimezone, PowerCycle, regionVars, vars
<1>2. Full' = Full
  BY <1>1, FullSame
<1>3. console \in ConsoleRecords /\ console.rom # "none"
  BY ConsoleAssumption DEF TypeOK, RegionTypeOK, HaveROMVER
<1>4. ready => Asked(cache) = cache /\ \A g \in Getters : Called(g, cache) = cache
  BY <1>3, FullStays DEF Caching
<1>5. CASE Start
  BY <1>2, <1>3, <1>5, FilledAtOnce DEF Start, OSDInitSystemPaths, configVars, Caching
<1>6. CASE \E g \in Getters : Getter(g)
  BY <1>2, <1>4, <1>6 DEF Getter, Get, configVars, Caching
<1>7. CASE PowerCycle
  BY <1>7 DEF PowerCycle, Caching
<1>8. CASE OSDConfigApply \/ \E new \in NewLanguages : OSDConfigSetLanguage(new)
  BY <1>2, <1>4, <1>8 DEF OSDConfigApply, OSDConfigSetLanguage, Set, Caching
<1>9. CASE OSDConfigLoad \/ GetTimezone \/ UNCHANGED vars
           \/ (\E invalid \in 0 .. 1 : OSDConfigSave(invalid))
           \/ (\E new \in NewTimezones : OSDConfigSetTimezone(new))
           \/ (\E new \in NewScreens : OSDConfigSetScreenType(new))
           \/ (\E new \in NewPSConfigs : OSDConfigSetPSConfig(new))
  BY <1>2, <1>9 DEF OSDConfigLoad, GetTimezone, OSDConfigSave, OSDConfigSetTimezone,
                    OSDConfigSetScreenType, OSDConfigSetPSConfig, Set, regionVars, configVars, vars, Caching
<1> QED BY <1>5, <1>6, <1>7, <1>8, <1>9 DEF Next

LEMMA CachingAlways == HaveROMVER /\ Spec => [](HaveROMVER /\ TypeOK /\ Caching)
<1>1. HaveROMVER /\ Init => HaveROMVER /\ TypeOK /\ Caching
  BY TypeInit DEF Init, RegionInit, Caching
<1>2. HaveROMVER /\ TypeOK /\ Caching /\ [Next]_vars => (HaveROMVER /\ TypeOK /\ Caching)'
  BY TypeInv, CachingInv DEF HaveROMVER
<1> QED BY <1>1, <1>2, PTL DEF Spec

(* On a console with a ROMVER a getter answers what it would have answered *)
(* first, after any others.                                                *)
THEOREM CallsDoCommute == HaveROMVER /\ Spec => []CallsCommute
<1>1. HaveROMVER /\ TypeOK /\ Caching => CallsCommute
  BY FilledAtOnce, ConsoleAssumption DEF TypeOK, RegionTypeOK, HaveROMVER, Caching, CallsCommute
<1> QED BY <1>1, CachingAlways, PTL

(* A valid language fits the five bits of the kernel's field.              *)
LEMMA ValidFits ==
  ASSUME NEW region, NEW language \in Int, OSDIsLanguageValid(region, language) >= 0
  PROVE  language \in 0 .. 11 /\ Trunc(language, 5) = language
<1>1. language \in 0 .. 11
  BY DEF OSDIsLanguageValid, Languages, JAPANESE, ENGLISH, PORTUGUESE
<1> QED BY <1>1, Widths

(* What a console with full caches tells of its region.                    *)
OwnRegion == IF Own >= 0 THEN Own ELSE AtLeastJapan(ConsoleRegionOf(console.rom))

LEMMA FullTells ==
  HaveROMVER /\ TypeOK /\ Caching /\ ready => Region(cache) = OwnRegion /\ Default(cache) = Language
<1> SUFFICES ASSUME HaveROMVER, TypeOK, Caching, ready
             PROVE  Region(cache) = OwnRegion /\ Default(cache) = Language
  OBVIOUS
<1>1. console \in ConsoleRecords /\ console.rom # "none" /\ cache = Full
  BY ConsoleAssumption DEF TypeOK, RegionTypeOK, HaveROMVER, Caching
<1>2. Asked(cache) = cache /\ GetOSDRegion(cache) = cache /\ Called("console", cache) = cache
  BY <1>1, FullStays DEF Getters
<1>3. cache.OSDRegion = Own /\ cache.OSDLanguage = Language
      /\ cache.ConsoleRegion = ConsoleRegionOf(console.rom)
  BY <1>1 DEF Full, Filled
<1> QED BY <1>2, <1>3 DEF Region, RegionTold, Told, Default, Called, OwnRegion

LEMMA AppliedInv ==
  HaveROMVER /\ TypeOK /\ Caching /\ AppliedLanguageIsValid /\ [Next]_vars => AppliedLanguageIsValid'
<1> SUFFICES ASSUME HaveROMVER, TypeOK, Caching, AppliedLanguageIsValid, [Next]_vars
             PROVE  AppliedLanguageIsValid'
  OBVIOUS
<1>1. console' = console
  BY DEF Next, Start, OSDInitSystemPaths, Getter, Get, OSDConfigLoad, OSDConfigSave, OSDConfigApply,
         OSDConfigSetLanguage, OSDConfigSetTimezone, OSDConfigSetScreenType, OSDConfigSetPSConfig,
         Set, GetTimezone, PowerCycle, regionVars, vars
<1>2. Caching' /\ Full' = Full
  BY <1>1, CachingInv, FullSame
<1>3. ready /\ ready' => Region(cache)' = Region(cache) /\ Default(cache)' = Default(cache)
  <2>1. (HaveROMVER /\ TypeOK /\ Caching /\ ready
           => Region(cache) = OwnRegion /\ Default(cache) = Language)'
    BY FullTells, PTL
  <2>2. HaveROMVER' /\ TypeOK'
    BY TypeInv DEF HaveROMVER
  <2>3. OwnRegion' = OwnRegion /\ Language' = Language
    BY <1>1 DEF OwnRegion, Own, Letter, Name, Asks, Language
  <2> QED BY <1>2, <2>1, <2>2, <2>3, FullTells
<1>4. CASE kernel' = kernel
  <2>1. CASE kernel = Nothing
    BY <1>4, <2>1 DEF AppliedLanguageIsValid
  <2>2. CASE kernel # Nothing
    <3>1. ready /\ ready'
      BY <1>2, <1>4, <2>2 DEF Caching
    <3> QED BY <1>4, <1>3, <3>1 DEF AppliedLanguageIsValid
  <2> QED BY <2>1, <2>2
<1>5. CASE OSDConfigApply
  <2> DEFINE r == Region(cache)
             d == Default(cache)
             raw == Settled(cache, osdConfigPS2.language)
             first == OSDConfigGetLanguage(cache, osdConfigPS2.language)
             second == OSDConfigGetLanguage(cache, raw)
  <2>1. ready /\ ready'
    BY <1>5 DEF OSDConfigApply, Caching
  <2>2. Region(cache)' = r /\ Default(cache)' = d
    BY <1>3, <2>1
  <2>3. SUFFICES ASSUME OSDIsLanguageValid(r, d) >= 0
                 PROVE  OSDIsLanguageValid(r, kernel'.language2) >= 0 /\ kernel'.language <= PORTUGUESE
    BY <2>2 DEF AppliedLanguageIsValid
  <2>4. osdConfigPS2.language \in Bits(5) /\ cache \in Caches /\ console \in ConsoleRecords
    BY ConsoleTyped DEF TypeOK, Settings
  <2>5. d \in Int /\ raw \in Bits(5)
    BY <2>4, LanguagesTyped
  <2>6. \A l \in Bits(5) : /\ OSDConfigGetLanguage(cache, l) \in 0 .. 11
                           /\ OSDIsLanguageValid(r, OSDConfigGetLanguage(cache, l)) >= 0
    <3> TAKE l \in Bits(5)
    <3>1. d \in 0 .. 11 /\ Trunc(d, 5) = d
      BY <2>3, <2>5, ValidFits
    <3>2. l \in Int
      BY Widths
    <3>3. CASE OSDConfigGetLanguage(cache, l) = d
      BY <2>3, <3>1, <3>3
    <3>4. CASE OSDIsLanguageValid(r, l) >= 0 /\ OSDConfigGetLanguage(cache, l) = l
      BY <3>2, <3>4, ValidFits
    <3> QED BY <3>1, <3>3, <3>4 DEF OSDConfigGetLanguage, Settled
  <2>7. first \in 0 .. 11 /\ second \in 0 .. 11 /\ OSDIsLanguageValid(r, second) >= 0
    BY <2>4, <2>5, <2>6
  <2> HIDE DEF r, d, raw, first, second
  <2>8. kernel' = [language |-> Trunc(IF first <= PORTUGUESE THEN first ELSE ENGLISH, 5),
                   language2 |-> Trunc(second, 5), ps1drvConfig |-> ps1drvConfig]
    BY <1>5 DEF OSDConfigApply, first, second, raw
  <2>9. kernel'.language = (IF first <= PORTUGUESE THEN first ELSE ENGLISH) /\ kernel'.language2 = second
    <3>1. second \in 0 .. 31 /\ (IF first <= PORTUGUESE THEN first ELSE ENGLISH) \in 0 .. 31
      BY <2>7 DEF ENGLISH, Languages
    <3> QED BY <2>8, <3>1, Widths
  <2> QED BY <2>7, <2>9 DEF ENGLISH, PORTUGUESE, Languages
<1>6. CASE PowerCycle
  BY <1>6 DEF PowerCycle, AppliedLanguageIsValid
<1>7. kernel' = kernel \/ OSDConfigApply \/ PowerCycle
  BY DEF Next, Start, Getter, OSDConfigLoad, OSDConfigSave, OSDConfigSetLanguage, OSDConfigSetTimezone,
         OSDConfigSetScreenType, OSDConfigSetPSConfig, Set, GetTimezone, configVars, vars
<1> QED BY <1>4, <1>5, <1>6, <1>7

(* Whatever the EEPROM held, the kernel gets a language of the region, if  *)
(* the default language is one.                                            *)
THEOREM AppliedLanguagesAreValid == HaveROMVER /\ Spec => []AppliedLanguageIsValid
<1>1. Init => AppliedLanguageIsValid
  BY DEF Init, AppliedLanguageIsValid
<1> QED BY <1>1, AppliedInv, CachingAlways, PTL DEF Spec

-----------------------------------------------------------------------------
(* The consoles whose default language is right.                           *)

(* A language of the program's list, and a region that has it.             *)
IsOf(name, region) == name \in DOMAIN Languages /\ OSDIsLanguageValid(region, Languages[name]) >= 0

(* The test of the named language sorts out none that is wrong.            *)
LEMMA NamedIsTaken ==
  ASSUME NEW region \in JAPAN .. ASIA, NEW name
  PROVE  OSDIsLanguageValid(region, DefaultLanguage(region, name)) >= 0 <=> IsOf(name, region)
<1> DEFINE named == IF name \in DOMAIN Languages THEN Languages[name] ELSE -1
           new == DefaultLanguage(region, name)
<1>1. named \in -1 .. 11 /\ (name \notin DOMAIN Languages => named = -1)
  BY DEF Languages
<1>2. JAPANESE = 0 /\ ENGLISH = 1 /\ PORTUGUESE = 7
  BY DEF JAPANESE, ENGLISH, PORTUGUESE, Languages
<1>3. OSDIsLanguageValid(region, named) >= 0 <=> IsOf(name, region)
  <2>1. OSDIsLanguageValid(region, -1) = -1
    BY DEF OSDIsLanguageValid
  <2> QED BY <1>1, <2>1 DEF IsOf
<1>4. new = IF OSDIsLanguageValid(region, named) # 0 THEN named
            ELSE IF region = JAPAN THEN JAPANESE ELSE ENGLISH
  BY DEF DefaultLanguage
<1> HIDE DEF named, new
<1>5. CASE OSDIsLanguageValid(region, named) # 0
  BY <1>3, <1>4, <1>5 DEF new
<1>6. CASE OSDIsLanguageValid(region, named) = 0
  <2>1. OSDIsLanguageValid(region, new) >= 0
    <3>1. CASE region = JAPAN
      BY <1>2, <1>4, <1>6, <3>1 DEF OSDIsLanguageValid
    <3>2. CASE region # JAPAN
      BY <1>2, <1>4, <1>6, <3>2 DEF OSDIsLanguageValid, JAPAN, CHINA, RUSSIA, KOREA, ASIA
    <3> QED BY <3>1, <3>2
  <2> QED BY <1>3, <1>6, <2>1 DEF new
<1> QED BY <1>5, <1>6

(* On a console with a ROMVER the default language is one of the region    *)
(* exactly where OSDVER, or the MECHACON for it, names a region and a      *)
(* language of that region: the region's own default repairs nothing.      *)
THEOREM OnlyNamedLanguagesAreValid ==
  HaveROMVER /\ Spec => [](ready => (DefaultLanguageIsValid <=> Own # INVALID /\ IsOf(Name, Own)))
<1>1. HaveROMVER /\ TypeOK /\ Caching
        => (ready => (DefaultLanguageIsValid <=> Own # INVALID /\ IsOf(Name, Own)))
  <2> SUFFICES ASSUME HaveROMVER, TypeOK, Caching, ready
               PROVE  DefaultLanguageIsValid <=> Own # INVALID /\ IsOf(Name, Own)
    OBVIOUS
  <2>1. console \in ConsoleRecords /\ console.rom # "none" /\ cache = Full
    BY ConsoleAssumption DEF TypeOK, RegionTypeOK, HaveROMVER, Caching
  <2>2. OSDGetRegion(cache) = cache /\ OSDGetDefaultLanguage(cache) = cache
    <3>1. Called("osd", cache) = cache /\ Called("language", cache) = cache
      BY <2>1, FullStays DEF Getters
    <3> QED BY <3>1 DEF Called
  <2>3. RegionTold(cache) = OwnRegion /\ cache.OSDLanguage = Language
    BY <2>1, FullTells DEF Region, Full, Filled
  <2>4. DefaultLanguageIsValid <=> OSDIsLanguageValid(OwnRegion, Language) >= 0
    BY <2>2, <2>3 DEF DefaultLanguageIsValid
  <2>5. CASE Own = INVALID
    <3>1. Language = -1
      BY <2>5 DEF Language
    <3>2. OSDIsLanguageValid(OwnRegion, -1) = -1
      BY DEF OSDIsLanguageValid
    <3> QED BY <2>4, <2>5, <3>1, <3>2
  <2>6. CASE Own # INVALID
    <3>1. Own \in JAPAN .. ASIA
      <4>1. Own \in INVALID .. ASIA
        BY RegionsTyped, Zenon DEF Own
      <4> QED BY <2>6, <4>1 DEF INVALID, JAPAN, ASIA
    <3>2. OwnRegion = Own /\ Language = DefaultLanguage(Own, Name)
      BY <2>6, <3>1 DEF OwnRegion, Language, JAPAN, ASIA
    <3> QED BY <2>4, <2>6, <3>1, <3>2, NamedIsTaken
  <2> QED BY <2>5, <2>6
<1> QED BY <1>1, CachingAlways, PTL

=============================================================================
