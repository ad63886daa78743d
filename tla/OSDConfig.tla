----------------------------- MODULE OSDConfig -----------------------------
(***************************************************************************)
(* The console's settings: OSDConfig.c and the second half of OSDInit.c    *)
(* load them from the EEPROM, change them in memory, save them and give    *)
(* them to the kernel; their language goes by the region of OSDRegion.     *)
(* main only loads, applies and clears the remote control; the setters and *)
(* OSDConfigSave are the rest of the interface that the module offers.     *)
(*                                                                         *)
(* Settings that are copied without a change, spdifMode to                 *)
(* dvdpProgressive, are not distinguished.  The PlayStation setting is not *)
(* one of them: OSDConfig.c keeps two bits of its byte at a load and at a  *)
(* save.  A block is read and written whole, after as many tries as it     *)
(* takes.                                                                  *)
(***************************************************************************)
EXTENDS OSDRegion

CONSTANTS
  Blocks,       \* what the EEPROM may hold
  NewLanguages, NewTimezones, NewScreens, NewPSConfigs,   \* what the setters are called with
  MaxSets,      \* calls of setters in a behaviour
  Nothing       \* no settings saved, no language applied

Unknown == 128                 \* the timezone 0x80
Bits(w) == 0 .. 2 ^ w - 1      \* a bit field of w bits
Trunc(v, w) == v % 2 ^ w

(* A byte as the set of the bits that are 1, and the bits of the           *)
(* PlayStation setting: "Only two bits are defined (0x11)".                *)
Byte    == SUBSET (0 .. 7)
Defined == {0, 4}

(* The bytes 1 to 14 of the PlayStation part are one number.               *)
Block == [ps1drv : Byte, unused : Bits(8),
          language : Bits(5), japLanguage : Bits(1), extendedLanguage : Bits(1), version : Bits(3),
          timezone : Bits(9), screenType : Bits(2), osdInit : Bits(1), unknownB13_01 : Bits(3)]
PS1Part == [ps1drv : Byte, unused : Bits(8)]
Settings == [language : Bits(5), timezone : Bits(9), screenType : Bits(2)]
AllSettings == [language : Bits(5), timezone : Bits(9), screenType : Bits(2), ps1drv : Byte]

ASSUME ConfigAssumption ==
  /\ Blocks \subseteq Block /\ NewLanguages \subseteq 0 .. 11
  /\ NewTimezones \subseteq 0 .. Unknown /\ NewScreens \subseteq 0 .. 2
  /\ NewPSConfigs \subseteq Byte /\ MaxSets \in Nat
  /\ Nothing \notin AllSettings

VARIABLES
  nvm,           \* the block in the EEPROM
  loaded,        \* OSDConfigLoad was called since the console was turned on
  buffer,        \* OSDConfigBuffer
  osdConfigPS1, osdConfigPS2,
  ps1drvConfig, timezone,   \* the other static variables of OSDConfig.c
  kernel,        \* what is set with SetOsdConfigParam and ...Param2
  sets,          \* bounded counter
  saved          \* history variable: the settings saved last, and invalid

configVars == <<nvm, loaded, buffer, osdConfigPS1, osdConfigPS2, ps1drvConfig, timezone,
                kernel, sets, saved>>
vars == <<regionVars, configVars>>

Zero == [language |-> 0, timezone |-> 0, screenType |-> 0]
ZeroPS1 == [ps1drv |-> {}, unused |-> 0]
ZeroBlock == [ps1drv |-> {}, unused |-> 0,
              language |-> 0, japLanguage |-> 0, extendedLanguage |-> 0, version |-> 0,
              timezone |-> 0, screenType |-> 0, osdInit |-> 0, unknownB13_01 |-> 0]

-----------------------------------------------------------------------------

ReadOSDConfigPS2(block) ==
  [language   |-> IF block.extendedLanguage = 1 THEN block.language ELSE block.japLanguage,
   timezone   |-> block.timezone,
   screenType |-> block.screenType]

(* Mutant: the language set is left as it is.                              *)
WriteKeepsSet(block, config, invalid) ==
  [block EXCEPT !.japLanguage = IF config.language <= ENGLISH THEN config.language ELSE @,
                !.language = config.language,
                !.version = 1,
                !.timezone = config.timezone,
                !.screenType = config.screenType,
                !.osdInit = 1 - invalid]

(* The version is made from a field of one bit.                            *)
WriteOSDConfigPS2(block, config, invalid) ==
  [block EXCEPT !.japLanguage = IF config.language <= ENGLISH THEN config.language ELSE @,
                !.extendedLanguage = 1,
                !.language = config.language,
                !.version = 1,
                !.timezone = config.timezone,
                !.screenType = config.screenType,
                !.osdInit = 1 - invalid]

ReadOSDConfigPS1(block) == [ps1drv |-> block.ps1drv, unused |-> block.unused]

WriteOSDConfigPS1(block, config) == [block EXCEPT !.ps1drv = config.ps1drv, !.unused = config.unused]

(* All settings as they are in memory, and as a load finds them.           *)
With(config, ps1drv) == [language |-> config.language, timezone |-> config.timezone,
                         screenType |-> config.screenType, ps1drv |-> ps1drv]
InMemory    == With(osdConfigPS2, ps1drvConfig)
Found(block) == With(ReadOSDConfigPS2(block), block.ps1drv \cap Defined)

OSDConfigLoad ==
  /\ ready
  /\ loaded' = TRUE /\ buffer' = nvm
  /\ osdConfigPS1' = ReadOSDConfigPS1(nvm) /\ osdConfigPS2' = ReadOSDConfigPS2(nvm)
  /\ ps1drvConfig' = osdConfigPS1'.ps1drv \cap Defined
  /\ UNCHANGED <<regionVars, nvm, timezone, kernel, sets, saved>>

(* Mutant: the buffer is cleared before it is filled.                      *)
SaveFromZero(invalid) ==
  /\ loaded
  /\ osdConfigPS1' = [osdConfigPS1 EXCEPT !.ps1drv = ps1drvConfig \cap Defined]
  /\ buffer' = WriteOSDConfigPS2(WriteOSDConfigPS1(ZeroBlock, osdConfigPS1'), osdConfigPS2, invalid)
  /\ nvm' = buffer'
  /\ saved' = [config |-> InMemory, invalid |-> invalid]
  /\ UNCHANGED <<regionVars, loaded, osdConfigPS2, ps1drvConfig, timezone, kernel, sets>>

(* Mutant: the PlayStation setting is stored with all its bits.            *)
SaveUnmasked(invalid) ==
  /\ loaded
  /\ osdConfigPS1' = [osdConfigPS1 EXCEPT !.ps1drv = ps1drvConfig]
  /\ buffer' = WriteOSDConfigPS2(WriteOSDConfigPS1(buffer, osdConfigPS1'), osdConfigPS2, invalid)
  /\ nvm' = buffer'
  /\ saved' = [config |-> InMemory, invalid |-> invalid]
  /\ UNCHANGED <<regionVars, loaded, osdConfigPS2, ps1drvConfig, timezone, kernel, sets>>

OSDConfigSave(invalid) ==
  /\ loaded
  /\ osdConfigPS1' = [osdConfigPS1 EXCEPT !.ps1drv = ps1drvConfig \cap Defined]
  /\ buffer' = WriteOSDConfigPS2(WriteOSDConfigPS1(buffer, osdConfigPS1'), osdConfigPS2, invalid)
  /\ nvm' = buffer'
  /\ saved' = [config |-> InMemory, invalid |-> invalid]
  /\ UNCHANGED <<regionVars, loaded, osdConfigPS2, ps1drvConfig, timezone, kernel, sets>>

-----------------------------------------------------------------------------
(* The language.                                                           *)

Asked(c) == OSDGetDefaultLanguage(OSDGetRegion(c))
Region(c) == RegionTold(c)
Default(c) == Asked(c).OSDLanguage

(* Mutant: the setting is wider than its field of five bits.               *)
SettledWide(c, language) ==
  IF Region(c) # JAPAN /\ language = JAPANESE THEN Default(c) ELSE language

(* An export console takes Japanese for its default, and keeps that.       *)
Settled(c, language) ==
  IF Region(c) # JAPAN /\ language = JAPANESE THEN Trunc(Default(c), 5) ELSE language

OSDConfigGetLanguage(c, language) ==
  IF Region(c) # JAPAN /\ language = JAPANESE THEN Settled(c, language)
  ELSE IF OSDIsLanguageValid(Region(c), language) >= 0 THEN language ELSE Default(c)

SetLanguage(c, language, new) ==
  IF OSDIsLanguageValid(Region(c), language) < 0 /\ Default(c) = new THEN language ELSE Trunc(new, 5)

(* Mutant: the raw setting is applied.                                     *)
ApplyRaw ==
  /\ loaded
  /\ cache' = Asked(cache)
  /\ kernel' = [language |-> IF osdConfigPS2.language <= PORTUGUESE THEN osdConfigPS2.language ELSE ENGLISH,
                language2 |-> osdConfigPS2.language, ps1drvConfig |-> ps1drvConfig]
  /\ UNCHANGED <<console, ready, nvm, loaded, buffer, osdConfigPS1, osdConfigPS2, ps1drvConfig,
                 timezone, sets, saved>>

OSDConfigApply ==
  LET first  == OSDConfigGetLanguage(cache, osdConfigPS2.language)
      raw    == Settled(cache, osdConfigPS2.language)
      second == OSDConfigGetLanguage(cache, raw)
  IN  /\ loaded
      /\ cache' = Asked(cache)
      /\ osdConfigPS2' = [osdConfigPS2 EXCEPT !.language = raw]
      /\ kernel' = [language |-> Trunc(IF first <= PORTUGUESE THEN first ELSE ENGLISH, 5),
                    language2 |-> Trunc(second, 5), ps1drvConfig |-> ps1drvConfig]
      /\ UNCHANGED <<console, ready, nvm, loaded, buffer, osdConfigPS1, ps1drvConfig, timezone,
                     sets, saved>>

-----------------------------------------------------------------------------
(* The other settings whose getters change what they show.                 *)

OSDConfigGetTimezone(zone) == IF zone >= Unknown THEN Unknown ELSE zone
Remembered(zone, static) == IF zone >= Unknown THEN zone ELSE static

SetTimezone(new, static) == IF new = Unknown THEN static ELSE new

OSDConfigGetScreenType(type) == IF type < 3 THEN type ELSE 0

(* Mutant: the new type is always stored.                                  *)
StoreScreenType(type, new) == new

SetScreenType(type, new) == IF type >= 3 /\ new = 0 THEN type ELSE new

-----------------------------------------------------------------------------

Set == loaded /\ sets < MaxSets /\ sets' = sets + 1
       /\ UNCHANGED <<console, ready, nvm, loaded, buffer, osdConfigPS1, timezone, kernel, saved>>

OSDConfigSetLanguage(new) ==
  /\ Set /\ cache' = Asked(cache)
  /\ osdConfigPS2' = [osdConfigPS2 EXCEPT !.language = SetLanguage(cache, @, new)]
  /\ UNCHANGED ps1drvConfig

OSDConfigSetTimezone(new) ==
  /\ Set /\ osdConfigPS2' = [osdConfigPS2 EXCEPT !.timezone = SetTimezone(new, timezone)]
  /\ UNCHANGED <<cache, ps1drvConfig>>

OSDConfigSetScreenType(new) ==
  /\ Set /\ osdConfigPS2' = [osdConfigPS2 EXCEPT !.screenType = SetScreenType(@, new)]
  /\ UNCHANGED <<cache, ps1drvConfig>>

OSDConfigSetPSConfig(new) ==
  /\ Set /\ ps1drvConfig' = new
  /\ UNCHANGED <<cache, osdConfigPS2>>

(* A getter that is only read for its answer changes the static timezone.  *)
GetTimezone ==
  /\ loaded /\ timezone' = Remembered(osdConfigPS2.timezone, timezone)
  /\ UNCHANGED <<regionVars, nvm, loaded, buffer, osdConfigPS1, osdConfigPS2, ps1drvConfig, kernel,
                 sets, saved>>

(* All but the EEPROM is lost.                                             *)
PowerCycle ==
  /\ cache' = Cold /\ ready' = FALSE /\ loaded' = FALSE
  /\ buffer' = ZeroBlock /\ osdConfigPS1' = ZeroPS1 /\ osdConfigPS2' = Zero
  /\ ps1drvConfig' = {} /\ timezone' = Unknown /\ kernel' = Nothing
  /\ UNCHANGED <<console, nvm, sets, saved>>

(* The launchers ask for regions too, at any time.                         *)
Start == OSDInitSystemPaths /\ UNCHANGED configVars
Getter(g) == Get(g) /\ UNCHANGED configVars

Init ==
  /\ RegionInit
  /\ nvm \in Blocks /\ loaded = FALSE /\ buffer = ZeroBlock
  /\ osdConfigPS1 = ZeroPS1 /\ osdConfigPS2 = Zero /\ ps1drvConfig = {}
  /\ timezone = Unknown /\ kernel = Nothing /\ sets = 0 /\ saved = Nothing

Next ==
  \/ Start \/ OSDConfigLoad \/ OSDConfigApply \/ GetTimezone \/ PowerCycle
  \/ \E g \in Getters : Getter(g)
  \/ \E invalid \in 0 .. 1 : OSDConfigSave(invalid)
  \/ \E new \in NewLanguages : OSDConfigSetLanguage(new)
  \/ \E new \in NewTimezones : OSDConfigSetTimezone(new)
  \/ \E new \in NewScreens : OSDConfigSetScreenType(new)
  \/ \E new \in NewPSConfigs : OSDConfigSetPSConfig(new)

Spec == Init /\ [][Next]_vars

-----------------------------------------------------------------------------

TypeOK ==
  /\ RegionTypeOK
  /\ nvm \in Block /\ buffer \in Block
  /\ osdConfigPS1 \in PS1Part /\ osdConfigPS2 \in Settings /\ ps1drvConfig \in Byte
  /\ loaded \in BOOLEAN /\ timezone \in Unknown .. 511 /\ sets \in 0 .. MaxSets
  /\ kernel # Nothing => kernel \in [language : Bits(5), language2 : Bits(5), ps1drvConfig : Byte]
  /\ saved # Nothing => saved \in [config : AllSettings, invalid : Bits(1)]

Store == INSTANCE SettingsStore
           WITH Settings <- AllSettings,
                stored <- [settings |-> Found(nvm), valid |-> nvm.osdInit,
                           others |-> <<nvm.unused, nvm.unknownB13_01>>,
                           undefined |-> nvm.ps1drv \ Defined],
                memory <- IF loaded THEN InMemory ELSE Nothing

(***************************************************************************)
(* However a block is laid out and a language is settled, the EEPROM is    *)
(* changed by a save alone.  It stores every setting as it is in memory,   *)
(* but of the PlayStation setting only the two defined bits; it carries    *)
(* over the bytes and bits it does not know, but clears the six bits       *)
(* beside those two.  The next load finds just that, whatever is called or *)
(* lost in between, and any other call changes at most one setting.        *)
(***************************************************************************)
ImplementsStore == Store!Spec

(***************************************************************************)
(* What was in memory at the last save is what the next load will find,    *)
(* whatever is called or lost in between; only that undefined bits of the  *)
(* PlayStation setting are gone.                                           *)
(***************************************************************************)
SavedIsStored ==
  saved # Nothing => /\ Found(nvm) = [saved.config EXCEPT !.ps1drv = @ \cap Defined]
                     /\ nvm.osdInit = 1 - saved.invalid

(***************************************************************************)
(* "Value is carried over": no call changes the unused bytes of the        *)
(* PlayStation part, which travel through osdConfigPS1, or the bits of the *)
(* other part that nobody knows.  The six undefined bits of the            *)
(* PlayStation setting are not carried over: they stay until the first     *)
(* save and are 0 after it.                                                *)
(***************************************************************************)
SaveCarriesOver ==
  [][/\ nvm'.unused = nvm.unused /\ nvm'.unknownB13_01 = nvm.unknownB13_01
     /\ nvm' = nvm \/ nvm'.ps1drv \subseteq Defined]_vars

(***************************************************************************)
(* A settings page that reads a setting and writes it back leaves it as it *)
(* was, even a value that it cannot show.  One value is excepted: "Export  *)
(* sets cannot have Japanese set as a language", so there reading it is    *)
(* enough to put the default language in its place, and writing back keeps *)
(* that.                                                                   *)
(***************************************************************************)
WriteBackKeeps ==
  LET c    == osdConfigPS2
      told == OSDConfigGetLanguage(cache, c.language)
      back == SetLanguage(cache, Settled(cache, c.language), told)
  IN  ready =>
        /\ back = IF Region(cache) # JAPAN /\ c.language = JAPANESE
                  THEN Trunc(Default(cache), 5) ELSE c.language
        /\ SetTimezone(OSDConfigGetTimezone(c.timezone), Remembered(c.timezone, timezone)) = c.timezone
        /\ SetScreenType(c.screenType, OSDConfigGetScreenType(c.screenType)) = c.screenType

(***************************************************************************)
(* "PlayStation 2 consoles officially have a list of supported languages": *)
(* where the default language is in the list of the console's region, so   *)
(* is the language that the kernel is given for all programs, whatever the *)
(* EEPROM held.                                                            *)
(***************************************************************************)
AppliedLanguageIsValid ==
  kernel # Nothing /\ OSDIsLanguageValid(Region(cache), Default(cache)) >= 0 =>
    /\ OSDIsLanguageValid(Region(cache), kernel.language2) >= 0
    /\ kernel.language <= PORTUGUESE

=============================================================================
