# A verification project for PS2BBL

PS2BBL (PlayStation 2 Basic Boot Loader) is the first program that runs after
the console's ROM: it initialises the hardware, waits a few seconds for a key,
and starts the program bound to that key, a disc, the console's own browser or
a rescue program. This directory holds TLA+ modules that model it, TLC
configurations that check them, and proofs that TLAPS checks.

## The system

| Part | Source | State | Operations | Interacts with |
|---|---|---|---|---|
| Boot sequence | `main.c` `main` | configuration source, `GLOBCFG.KEYPATHS`, window timer | rescue window, search and parse of the configuration, key window, AUTO entries, end loop | everything below |
| Paths | `main.c` `CheckPath`, `MountParty`, `mnt`; `util.c` `exist` | the strings themselves, `PART`, the mount of `pfs0:` | resolve `mc?`, `mmce?`, `massX:`, `hdd0:`; run a `$` command | devices that come and go |
| Pads | `pad.c` | `old_pad`, `pad_inited` | level and edge-triggered readings | `main` |
| Timer | `timer.c` | `TimerInterruptCount`, T0 | start, read, stop; interrupt | `main` |
| Play history | `OSDHistory.c` | `HistoryEntries`, `OldHistoryEntry`, files on two cards | load, add, save | the disc launchers |
| Disc handler | `main.c` `dischandler` | the disc type last seen | poll the drive, dispatch | the three launchers |
| PlayStation, PlayStation 2 and DVD launchers | `ps1.c`, `ps2.c`, `dvdplayer.c` | boot file, versions, update on a card | parse, record, clean up, start | history, `CleanUp` |
| Regions and language | `OSDInit.c` | lazily filled caches | getters in any order | ROM files, MECHACON |
| OSD configuration | `OSDInit.c`, `OSDConfig.c` | NVM block, settings | load, change, save, apply | MECHACON |
| CDVD additions | `libcdvd_add.c`, `scmd_add.c` | which S-commands are supported | S-commands with status | MECHACON |
| Module loading | `main.c` `LoadUSBIRX`, `LoadFIO`, `LoadHDDIRX`, `loadDEV9` | which IOP modules run | load, check result | IOP |

`main` runs once, on one thread, and calls everything else. What happens at the
same time is outside of it: the user presses and releases keys and changes
discs, cards and drives come and go, the drive recognises a disc in its own
time, an alarm wakes the thread up, the timer's interrupt counts, and power can
be lost between any two calls that reach a card. The parts share state through

* `GLOBCFG` and the text of the configuration, into which its paths point:
  `CleanUp` frees that text just before another program is started, and
  `RunLoaderElf` reads its path after that;
* the strings of the paths, which `CheckPath` overwrites;
* `PART` and the mount of `pfs0:`, one for all partitions;
* libcdvd, which the disc handler, the launchers, the region getters and the
  play history's clock use and `CleanUp` leaves;
* the history table in memory, which the banner and a launcher load in turn, and
  the history files on two cards, which live from one run to the next;
* the caches of `OSDInit.c`, which the launchers and the settings ask.

What makes each part correct, in one line each:

| Part | Correct if |
|---|---|
| Boot sequence | what is started is what was bound to the key that was down; the boot comes to rest; the pads and the configuration live until a program has been found and not longer |
| Paths | a file is opened on the partition its own path names |
| Play history table | a game has one record, its four bytes agree, only a least used record leaves, and nothing is forgotten of a record that stays |
| Play history files | a launch is added to a whole table, is what the next run loads, and one failure does not cost both copies |
| Disc handler and launchers | the game started is the one recorded; no wakeup is lost or left over; who comes back leaves the console usable, who does not leaves it clean |
| DVD player | a DVD gets a player that is there, no older than the ROM's, and it is the one in the banner |
| Timer | no overflow is lost or counted twice; a reading is close to the time; a window is open as long as it should be and ends |
| Regions | a getter's answer does not depend on the calls before it |
| Settings | what was saved is what is loaded; showing a setting and writing it back does not change it |

The hazards behind these lines, with the line of code where each one bites, are
the `hazards` of `PROJECT.json`.

## The modules

| Module | Models | State and actions against the code |
|---|---|---|
| `HistoryTable` | `AddHistoryRecord` (`OSDHistory.c`) | `entries`, `old` and `tooMany` are `HistoryEntries`, `OldHistoryEntry` and `HasTooManyHistoryRecords`. One action, a launch, with three outcomes: a record is updated, inserted (in a blank slot or in place of the least used one) or, with every record pinned, refused. |
| `HistorySave` | `LoadHistoryFile`, `SaveHistoryFile`, `UpdatePlayHistory`, and the load for the banner in `main` | `card` holds what is on the two cards; a step is one call that reaches a card (`mcGetInfo`, `open`, `mcMkDir`, `write`, ...). Each may fail and power may be lost between any two. `Add` is `HistoryTable`'s launch. |
| `BootFlow` | `main` from the pads on, `EMERGENCY`, `CheckPath`, `MountParty`, `exist`, `pad.c`, `CleanUp`, and the lines of the configuration (`get_CNF_string` in `util.c`) | `pc` is the place in `main`; `file` and `line` are the configuration's text and `CNFBUFF`'s place in it; `paths` is `GLOBCFG.KEYPATHS` with the changes `CheckPath` makes to it, `part` and `mounted` are `PART` and what `pfs0:` shows. `Press` and `Plug` are the user, `Expire` is the clock. A program that is found is started in two steps: `Launch` is `CleanUp`, which frees the text, and `RunLoaderElf` reads the path. |
| `DvdPlayer` | `dvdplayer.c`: `DVDPlayerInit`, `DVDPlayerUpdateCheck`, `CheckDVDPlayerUpdate` and the version for the banner | `ROMDVDPlayer` by its name; `cards` the files of an update on the two cards. A step is one access of a card; `Swap` is the user. |
| `DiscHandler` | `dischandler`, `PS1DRVBoot`, `PS2DiscBoot`, `DVDPlayerBoot` | `EXTENDS DvdPlayer`, which `DVDPlayerBoot` calls and the banner before it. The locals of `dischandler` by their names; `alarms` and `wakeups` are the alarm and the semaphore of the thread. `PutIn`, `TakeOut` and `Recognise` are the user and the drive, between any two steps. |
| `OSDRegion` | the getters of `OSDInit.c` | `cache` is a record of the static variables; a getter is an operator on it, so that getters that call each other compose, and `Get` is any of them. |
| `OSDConfig` | `OSDConfig.c`, and the reading and writing of a block in `OSDInit.c` | `EXTENDS OSDRegion`. `nvm` is the EEPROM, `osdConfigPS1`, `osdConfigPS2`, `ps1drvConfig` and `timezone` the static variables; one action for each call. `PowerCycle` leaves `nvm` alone. |
| `SettingsStore` | what `OSDConfig.c` promises | `stored` is the EEPROM: the settings, their valid flag, the bytes and bits that nobody knows and the undefined bits of the PlayStation setting, which the first save clears; `memory` is the settings in memory: loaded, changed one at a time, saved and lost. `OSDConfig` implements it. |
| `Timer` | `timer.c`, and the two windows of `main` that are measured with it | `t0` is T0's count and mode, `intc` the interrupt, `isr` the static variables of `timer.c`. A step is one access of a register or a variable, or one call; `Tick` is the hardware and `TimerInterrupt` the handler. |
| `HistoryTable_proofs`, `HistorySave_proofs`, `BootFlow_proofs`, `DiscHandler_proofs`, `Timer_proofs`, `OSDConfig_proofs` | | theorems about these modules and their proofs |
| `Extremes` | | lemmas some of them share: least and greatest elements of sets of numbers |
| `MC...` | | the values TLC is given: cards, discs, paths, configurations, consoles, blocks |

`HistorySave` composes with `HistoryTable` twice: `Table` is the table in its
own memory, and `Lasting` is the abstract specification it implements, whose
table is the one the next run would load until `Add` and the one in memory from
then on. `ImplementsTable` says that every step of loading and saving, and every
run that ends, is a launch or a stutter of that table: when nothing fails and a
card accepts it, the cards are nothing but the table of `HistoryTable`. `OSDConfig` is composed with `SettingsStore` as the specification it
implements: `Store` reads what is stored off the block in the EEPROM, whichever
of its two language fields counts.

In every module an operator under a comment that begins with *Mutant* is the
definition below it with a mistake in it. No specification uses them; they are
what the properties are tried against, as listed in `PROJECT.json`.

### What is abstracted

* A name of a game, a path, a partition or a disc is a value that is compared
  and not a text. A configuration file is a sequence of lines of the kinds that
  the parser tells apart: an entry of the key table, a module to be loaded (which
  may mount its partition), any other setting, a comment, a line without a `=`,
  a value that the file ends before, a comment beyond ASCII. The values of the
  other settings are left out, and so are a module that is named by a `$`
  command and a line without a `=` before one that has it.
* A date stamp is a number, ordered as the code orders it. `rand()` may return
  anything; the loop that draws until it meets a clear bit ends in one step, and
  `RecordsConsistent` is what says that there is a clear bit to be met.
* The program has no clock: a window ends at any moment after it began.
* A reading of two pads is one step; a pad that is not ready gives nothing.
* `RunLoaderElf`, `LoadExecPS2` and `ExecOSD` do not return.
* Freed memory that is read holds what was there or something else
  (`Overwritten`, a value that is no path): the allocator is not in the
  repository, and nothing in it promises either.
* Nobody swaps cards in `HistorySave`, and nothing else writes to them. In
  `BootFlow` files and devices come and go at any time.
* At power-on `HistorySave` keeps the last values of `old` and `tooMany`, which
  `AddHistoryRecord` assigns before anything reads them.
* The paths by default name no command and no partition, as those of the source.
* `mmce?:`, in builds that support it, is resolved like `mc?:`, with slots of its
  own. `massX:`, which becomes the first USB drive of a kind, is left out.
* In `SYSTEM.CNF` lines end with a newline, reads are not short, and a key has
  its `=`. A disc with an unreadable or wrong `SYSTEM.CNF` is there all the same.
* `rom0:ROMVER` and `rom0:OSDVER` have any letter or are missing. The loops that
  repeat an S-command or an EEPROM access are taken to end, and a block of the
  EEPROM is then read or written whole.
* Reads of the DVD player's files in the ROM succeed. A console whose letter is
  known has a player that carries it or none (`LetterAssumption`): `DVDPlayerBoot`
  looks for no other there. Left out are the handle that `dvdplayer.c:62` leaves
  open, and builds that turn down the 0100J.
* `Timer`: milliseconds are whole numbers of counts, so that the rounding of the
  code's product in single precision is left out. The flag of an overflow that
  happened before `TimerInit` has been cleared; its interrupt may still wait. An
  enabled interrupt is taken before the program's next step. `Lag`, `MaxTicks`
  and `Word` are bounds: between two accesses inside `timer.c` less than a period
  passes, a window is cut after `MaxTicks` counts, and no sum of counts reaches
  64 bits. `BootFlow` does not use `Timer`: there a window ends at any moment.
* `$CDVD_NO_PS2LOGO` is not told from `$CDVD`.
* The settings that are only copied are not distinguished from one another;
  those with which the code does more (language, timezone, screen type, and the
  PlayStation setting, a set of bits) are kept with the widths of their fields;
  the other bytes of the PlayStation part are one number. `OSDConfigSetLanguageRaw`
  is left out.
  `main` itself calls only the load, the apply and a setter of a copied setting;
  the other setters and the save are the rest of the interface.

## What is checked

Six runs pass, and each states what the modules promise. Every property was
also checked to fail for a plausible mistake in the code (`mutants`). An
`MCSpec` restricts what happens *together*, where cases that have nothing to do
with one another would only multiply, and says so in its module.

**HistoryTable** (four names, three slots, three bits, milestones at two and
four launches, two dates, names symmetric): `TypeOK`, `UniqueNames`,
`RecordsConsistent`, `ExiledIsGone`, `VictimIsLeastUsed`, `RecordsOnlyGrow`. One
name more than slots makes the table overflow, records reach every stage (new,
growing, full, pinned), and the table can be all pinned and refuse. The code's
scan keeps the date of an earlier lowest count when it meets a lower one; the
run shows that the record it picks still has a lowest count, although the date
need not be the earliest among those.

**HistorySave** (four names, two slots, every pair of the six kinds of cards
there are: none, empty, used, with a torn file, refusing, refusing and used; up
to two failures, in behaviours that launch two of the games): `AddsToWholeTable`,
`SomeCopyIsWhole`, `IconComesLast`, `GamesAreConserved` and the refinement
`ImplementsTable`. Two failures reach a failure in a run and one in the run that
should repair it; what they do to a file does not depend on how many games are
in it. Four names on two slots make records leave more than once, and a game
once recorded is in the table the next run loads or in `history.old`.
`SomeCopyIsWhole` is the exact extent of the protection: a table on both cards
survives one failure at every moment but the one in which the second copy is
rewritten because the first one failed. A single card has no such protection,
since the file is truncated before it is written.

**BootFlow** (buttons START, L2 and R1, one pad; a configuration on the second
card, on a partition of its own or none; programs on a card and on two
partitions and a rescue program on USB, all of which come and go):
`ResourcesHeld`, `HandoverIsClean`, `LaunchIsBound`, `PartitionIsOwn`,
`BootAdvances`, and under fairness `BootSettles`, `EmergencyIsReachable`,
`RescueIsStarted`. A configured path is in memory that has been freed when
`RunLoaderElf` reads it, and may be `Overwritten`; `LaunchIsBound` says that this
is all that can be wrong with what is started, and `ResourcesHeld` that the text
is there at every earlier use. `BootAdvances` measures what is left to do: a step may stay in
an open window, and every other one leaves less. Three buttons
are enough for the offset of the default table to matter (L2 is the first with a
default path, START is below it), and for two buttons that are down together.
The entries have every kind of command and device, one is configured twice, and
each text has lines behind the one at which it can no longer be read. Two
partitions with a file of the same name are the least that can be confused. A
file with a configuration does not come or go after the search for it, when
nothing reads it any more (`Settled`).

**DiscHandler** (nine discs: a PlayStation game, a film, a music CD, and six
PlayStation 2 discs, whose `BOOT2` comes first, second or is missing, or names
another game, one with an empty file, and two with IDs that differ in the last
character alone; three insertions and removals; two calls; five consoles, with a
letter or not, with a player in the ROM or not, one of them a 0100J; any of eight
kinds of cards with an update in each slot, newer by the major or the minor number, the
same, older, without its program, its text or its dot; two failing accesses or
changes of a card): `WakeupIsDue`, `SessionIsClean`, `PlayedIsStarted`,
`TrayOpensOnce`, `NewestPlayerRuns`, `ShownIsPlayed`, `PlayerIsChosen`, and under
fairness `DiscIsServed`. `PlayerIsChosen` has two parts: only a console without a
player in the ROM turns a DVD down (`RomPlaysDvd`), and what the accesses of the
cards, one after the other, come to is the choice between two cards and the ROM
written down in one formula (`Choice`), for an undisturbed check. Three changes
are a removal, another disc, and its removal, between the type being seen and
the disc being read, or a game replaced, between its ID and its `SYSTEM.CNF`, by
one whose ID ends in another character: that one is started and the first
recorded, which `PlayedIsStarted` allows and an equality of the two IDs would not.
Two calls are a handler that failed and one after it. Two upsets are one card
that is changed and an access of the other that fails. The players are tried with a DVD that stays
in the drive (`OneDvd`), the other discs with one console without cards
(`Plain`), as only a DVD asks for a player.

**OSDConfig** (1801 consoles: letters of `ROMVER` and `OSDVER` known, unknown or
missing, what the MECHACON answers, and whether it does; five of them with 48
blocks of the EEPROM and up to two changes of settings, the others with one
block; getters, saves, loads, applies and losses of power in any order):
`CallsCommute`, `WriteBackKeeps`, `AppliedLanguageIsValid` and the refinement
`ImplementsStore`, of which `SavedIsStored` (a load finds what was saved last) and
`SaveCarriesOver` (a save keeps the bits that nobody knows) are two sides. Two
exceptions are in the formulas. Of the PlayStation setting a load finds two bits
(0x11), whatever `OSDConfigSetPSConfig` was given, and a save clears the other six
in the EEPROM. And on an export console reading a stored Japanese is enough to
change it: `WriteBackKeeps` says to what.
`CallsCommute` is about `OSDRegion`: in whatever order the getters are called, each
answers what it would have answered at first; the run goes through all fillings of
the caches. The blocks have a language of the old
and of the new set, selected either way, a known and an unknown timezone, a screen
type in and out of range, and a PlayStation setting with and without undefined
bits.

**Timer** (a period of four counts, two counts in a millisecond, a rescue window
of three milliseconds, key windows of -1, 0 and 5; either half of the time loaded
first): `NoOverflowLost`, `ReadingIsClose`, `WindowIsTimely` (a window ends no more
than a period too early, `WindowIsWhole`, and is not left open by a reading that was
begun well behind its end, `WindowIsShort`), and under fairness `WindowsEnd`. The longest window is several periods, so that overflows come in
every step of it, also between the two loads; the interrupt of an earlier
program's overflow may be waiting when the first window starts. A wait of 0 ends
at once, and -1 shows the one window that need not end.

### Fairness

Safety needs none. `BootFlow`'s `FairSpec` is weak fairness of the program's
next step and of the clock: the program is never stopped, and time passes.
Nobody has to press a key or plug a drive in, and no disc has to be inserted, so
`BootSettles` counts waiting for a disc and for a rescue file as rest, and
`RescueIsStarted` is about a rescue file that stays. `DiscHandler`'s `FairSpec`
is weak fairness of the program and of the alarm, which the kernel delivers; the
user and the drive do as they like, and `DiscIsServed` is about a disc that
stays and has been recognised. `Timer`'s `Spec` is weak fairness of the program,
of T0 and of the interrupt. The `MCSpec` of a run has the fairness of the
specification it restricts.

## What the checks found

Six runs end in a counterexample. Each states what the repository says of the
code, which does something else.

| Run | Property | What happens |
|---|---|---|
| `HistorySaveRefused` | `LaunchIsDurable` | `OSDHistory.c:150` compares free clusters with a size in bytes. A first card that holds a history and is nearly full is loaded from and never saved to. Launches go to the second card, and every next run starts from the first card's old table again. |
| `BootFlowComment` | `CommentsAreSkipped` | `util.c:56` seeks the end of a comment as long as characters are greater than 0. A character above 127 is negative, and is not passed by the loop back to `start_line` either: the parsing stays there for ever (`util.c:55`: "We must skip a comment line"). |
| `DiscHandlerStamp` | `StampIsClock` | `ps1.c:246` leaves libcdvd before the history asks it for the time, so that a PlayStation game is recorded with no valid date. The PlayStation 2 and DVD launchers do it in the other order. |
| `DiscHandlerScan` | `ScanEnds` | `ps2.c:49-54` stops at a newline where it already stands: with `BOOT2` on the third line or later, the search never ends. |
| `DiscHandlerRegion` | `AcceptedIsRight` | `dvdplayer.c:160` starts to skip the minor version at the dot, and ends there, as line 321 does for the player in the ROM. The region is `.` on both sides, so that an update of another region is accepted (lines 178, 212 and 354: "of the right region"). |
| `OSDRegionLanguage` | `DefaultLanguageIsValid` | `OSDInit.c:293` negates a result that is -1 for "not valid" (see `OSDInit.h:131`), so that it is true of language 0 alone. A console outside of Japan whose `OSDVER` names no known language has the default language -1. |

The last one reaches other programs: `OSDConfigGetLanguage` stores the -1 in a
field of five bits and `OSDConfigApply` gives the kernel language 31, which is
why `AppliedLanguageIsValid` has the condition that the default is in the list.

While translating the code we also met behaviour that a reader might not expect,
which the models have and no property judges:

* `main.c:183`: the rescue window reads the buttons that went *down* since the
  last reading. R1 and START that go down one reading apart never start the
  rescue mode there; the loop at the end of `main` reads levels and does not
  have this. Neither looks at other buttons, though the notes say ONLY.
* `main.c:360` and `:380`: `CleanUp` frees the text of the configuration, and the
  next line passes `RunLoaderElf` a string of it. Only `PadDeinitPads` is called in
  between, so the path is likely to be whole still, but nothing says so. A default path, `mass:/RESCUE.ELF` and `PART` are not in that text, and
  `$RUNKELF:` copies its path. The state `load` of `BootFlow` lies between the two
  lines, and `PathsAreReadFreed` proves that the text is always gone there.
* `common.h:18-19`: `SOURCE_MMCE1` comes before `SOURCE_MMCE0`, but `"mmce0:"` before
  `"mmce1:"` in `CONFIG_PATHS`. A configuration that is found on `mmce0:` has the
  number `SOURCE_MMCE1`, and `mmce?:` then tries the second slot first (`FirstSlot`).
* `ps2.c:104`: ten characters of the ID are compared with `BOOT2`, and an ID has
  eleven. If a disc is changed for one whose ID differs in the last character alone,
  between the reading of the key and that of `SYSTEM.CNF`, the second is started
  and the first recorded; `PlayedIsStarted` speaks of the ten characters
  (`IsRecorded`).
* `dvdplayer.c:226`: of two cards with newer updates the first is taken, also if the
  second has the newest.
* `OSDConfig.c:17` and `:24`: the PlayStation setting is masked with 0x11 at a load
  and at a save, but not by `OSDConfigSetPSConfig` or `OSDConfigApply`: the kernel may
  get bits that no later load finds.
* `main.c:448-455`: `CheckPath` leaves the second slot in the path even if
  neither card has the file. With the default paths this happens once at the
  start, and a file that then appears on the first card is not found.
* `OSDInit.c:425`: the version of the saved block is made from a field of one
  bit, so that saving turns version 2 into version 1.
* `main.c:234` and `:348`: a negative `KEY_READ_WAIT_TIME` is added to an unsigned
  count. If less than that time has passed, the sum is huge and the key window
  never ends (`Endless`, the exception in `WindowsEnd`).
* `timer.c:76`: the time is off by one period if T0 overflows between the two
  loads, too much or too little as the compiler orders them.
* `dvdplayer.c:213`: an update without its program on the first card hides a whole
  one on the second, and the banner then shows a version that is not played;
  the third case of `ShownIsPlayed` is this.
* `dvdplayer.c:303`: a 0100J or 0101J has the region `J`, which is never a dot:
  no update is accepted there.
* `dvdplayer.c:247`: DVDVIDEO is recorded before it is known that a player can
  be started.

## What is proved

Six modules hold proofs of safety properties, for every value of the constants
within the assumptions of the modules they are about.

### The play history table

`HistoryTable_proofs` proves eight theorems about `HistoryTable` for every table
size, number of bits, set of names and dates, and for every `FullMask`,
`FirstMilestone`, `MilestoneStep` and `CountClamp` within the assumptions:

| Theorem | States |
|---|---|
| `TypeCorrect` | `Spec => []TypeOK` |
| `NamesAreUnique` | `Spec => []UniqueNames` |
| `RecordsStayConsistent` | `Spec => []RecordsConsistent` |
| `OnlyTheLeastUsedLeaves` | `Spec => VictimIsLeastUsed` |
| `RecordsGrow` | `Spec => RecordsOnlyGrow` |
| `ExiledStaysGone` | `Spec => []ExiledIsGone` |
| `BitsFollowTheCount` | a record with count `n` has `BitsAt(n)` bits |
| `ProgramIsCovered` | the program's numbers satisfy the assumptions |

The run has three slots and three bits; the program has 21 slots and six bits
(`NumBits = 6`, `FullMask = 63`, `FirstMilestone = 14`, `MilestoneStep = 10`,
`CountClamp = 127`), and the theorems cover it. The assumptions ask for at least
one slot and bit, for `FullMask < CountClamp`, for a first milestone after the
first launch, and (`MilestoneAssumption`) that the milestones up to `FullMask`
suffice for the bits: of the program's, 14, 24, 34, 44 and 54 set bits two to
six (`ProgramIsCovered`, which counts them).

The inductive invariant is `IInv == TypeOK /\ UniqueNames /\ RecordsConsistent`.

* `RecordsConsistent` is there because types and unique names do not give
  `RecordsOnlyGrow`: a record with a full mask and a count above `FullMask`
  would fall back to it. Its proof is the arithmetic of the milestones. A
  consistent record with a clear bit has passed fewer milestones than there are
  bits, so by `MilestoneAssumption` its count is below `FullMask`
  (`RoomToGrow`), the clamp is never met, and the loop that draws a clear bit has
  one to draw. One more launch passes one more milestone or none (`PassedStep`,
  `PassedMonotone`), so that the bits stay one more than the milestones
  (`RelaunchedConsistent`).
* A launch changes each slot in one of two ways: `UpdateKeeps` says that the
  records that match are relaunched and keep their names, `InsertReplaces` that
  one slot, blank or the least used, takes the new record. `NextInv` has a case
  for each.
* `VictimIsLeastUsed` rests on `LeastUsedIsLeast`: the last index at which the
  scan's candidate changes has a lowest count. It exists because there is a
  least index with a lowest count (`LeastElement` in `Extremes`), where the
  candidate changes, and there is a last one (`GreatestElement`); a candidate is a running
  minimum, so after the least one every candidate has the same count.
* The action properties and `ExiledIsGone` follow from the invariant and one
  step.
* `BitsFollowTheCount` says in one formula what the code computes launch by
  launch: the picture that a game gets in the browser depends on how often it was
  started and on nothing else but which bits `rand()` drew. Above `FullMask` a
  record is full, so the formula has its last value there. That passing more
  launches never passes fewer milestones is an induction over counts, for which
  the proofs use the least counterexample (`LeastElement`).

### The play history files

`HistorySave_proofs` proves seven theorems about `HistorySave`, for a table of any
size, any cards in the slots, and any number of failing calls and losses of
power:

| Theorem | States |
|---|---|
| `TypeCorrect` | `Spec => []TypeOK` |
| `LaunchesAddToWholeTable` | `Spec => []AddsToWholeTable` |
| `IconsComeLast` | `Spec => IconComesLast` |
| `SomeCopyStaysWhole` | `Spec => []SomeCopyIsWhole` |
| `GamesStay` | `Spec => []GamesAreConserved` |
| `CardsImplementTable` | `Spec => ImplementsTable` |
| `LaunchesAreDurable` | `Spec => [](Accepting => LaunchIsDurable)` |

The assumptions are the sizes of the table (`TableAssumption`, weaker than those
of `HistoryTable`: what a file holds need not be consistent), that a missing file
is not a table (`FileAssumption`), and the types of the cards. What a launch does
to such a table is `AddKeeps`: it stays one, and every game in it stays but the
one that is taken out. The parts of the invariant, on top of the types:

* `Loading`: without a failure the second port is only tried when the first has
  no whole table, so that the launch is added to `Durable`.
* `Iconless`: past the write, the card has the table of the run. What comes next
  on that card is the archive and the icon.
* `Copies`: before the failure every file is whole but the one under `write`.
  After it both are until the save begins, the second one until the save comes to
  the second card, and from then on one of them is, but for that card's `write`.
* `Unfailing`: a save that meets no failure goes to the second card only if the
  first is not usable, and so ends with `Durable` the table of the run, and with
  the record that was taken out in that card's archive (`SavedIsDurable`).
* `Known`: every game that was ever recorded is in the table of the next run or
  in an archive, or is the record that this save is about to append.

`FutureSteps` says what a step without a failure does to the table that outlives
the run: nothing, unless it is `Add`, which does to it what it does to the one in
memory. `GamesStay` and the refinement are two readings of it. `LaunchesAreDurable`
is the extent of the run that refutes `LaunchIsDurable`: without a failure a launch
is only forgotten if a card refuses the table (`Accepting` is false).

### The boot

`BootFlow_proofs` proves eight theorems about `BootFlow`, for any pads, buttons,
files, configurations, default paths, partitions and devices, and any number of
changes by the user:

| Theorem | States |
|---|---|
| `TypeCorrect` | `Spec => []TypeOK` |
| `ResourcesAreHeld` | `Spec => []ResourcesHeld` |
| `PathsAreReadFreed` | `Spec => [](pc = "load" => ~config_buf)` |
| `HandoversAreClean` | `Spec => []HandoverIsClean` |
| `PartitionsAreOwn` | `Spec => []PartitionIsOwn` |
| `LaunchesAreBound` | `Spec => []LaunchIsBound` |
| `BootsAdvance` | `Spec => BootAdvances` |
| `ForeignCommentsHold` | `Spec => [](Holds(file) => pc = "lines")` |

The assumptions say that there is a button at least, that the configurations are
sequences of the lines the parser tells apart, that the two devices with a second
slot are those of `CheckPath`, and that a partition is named like no other device.
What is pressed and plugged in is in no part of the invariant: it is read by
steps, and what was read is kept. The parts, on top of the types:

* `Held` ties the pads and the text of the configuration to the place in `main`.
  They are there until a program is found, and all gone at `load`, where only
  the start is left; nothing has been handed over before `handover`.
* `Mounted`: once `CheckPath` has let a path on a partition through, `PART` is
  that partition, and `pfs0:` shows it or nothing. Nothing is enough: `exist`
  fails on an unmounted `pfs0:`, so what is handed over was found on the right one,
  and neither changes at `load`.
* `Parsed`: while lines are read, every entry of `KEYPATHS` is the one of the
  last line for it before `CNFBUFF`'s place (`NextLine`), and none of the lines
  so far has stopped the parser. At the end it is `Configured`, which says so of
  the whole file without reading it line by line (`AllParsed`).
* `Bound`: `CheckPath` overwrites `KEYPATHS`, but never with another file or with
  a slot the configuration did not allow (`CheckedSame`), so that entries stay
  those that were configured through any number of tries (`Faithful`), and the
  key being tried stays the first one that was down (`Chosen`). What is handed over
  is then the path `CheckPath` returned, or `Overwritten` if it was configured.

`BootsAdvance` is what can be proved of `BootSettles`. `Stage` numbers the parts of
`main` from its end, and `LeftInStage` counts within one: sources, lines, and three
steps for each path of a key. Every step but the polling of an open window lowers
the pair, for configurations of any length and any number of sources; that an open
window ends is left to the clock, and that a step is taken to fairness.

`ForeignCommentsHold` is about the run that refutes `CommentsAreSkipped`: a comment
beyond ASCII anywhere before the line at which a text can no longer be read keeps
main from the key window and all that follows. `Skipped` is its invariant: no line
that was passed is such a comment. Behind that line a comment does no harm.

### The disc handler and the DVD player

`DiscHandler_proofs` proves twelve theorems about `DiscHandler`, for any discs,
consoles and cards and any number of changes, calls and upsets:

| Theorem | States |
|---|---|
| `TypeCorrect` | `Spec => []TypeOK` |
| `WakeupsAreDue` | `Spec => []WakeupIsDue` |
| `SessionsAreClean` | `Spec => []SessionIsClean` |
| `TrayIsOpenedOnce` | `Spec => []TrayOpensOnce` |
| `PlayedGamesStart` | `Spec => []PlayedIsStarted` |
| `RomPlaysEveryDvd` | `Spec => []RomPlaysDvd` |
| `NewestPlayersRun` | `Spec => []NewestPlayerRuns` |
| `ShownPlayersRun` | `Spec => []ShownIsPlayed` |
| `PlayersAreChosen` | `Spec => []PlayerIsChosen` |
| `LoopsAdvance` | `Spec => LoopAdvances` |
| `OnlyPs1IsUndated` | `Spec => [](StampIsClock <=> pc # "ps1load" /\ handed.what # "ps1")` |
| `OnlyFirstLinesCount` | `Spec => [](handed.what = "ps2" => InFirstLines)` |

The assumptions are `DiscAssumption` (the drive names its discs as libcdvd does,
at least one call), `DvdAssumption` (the types of consoles and cards) and, for
`NewestPlayersRun`, `LetterAssumption`. The user, the drive and the alarm change
nothing that the program decides by (`OutsideSteps`), so the parts of the
invariant are about the program's steps:

* `Kinds`: a launcher's step is only reached with the type of disc that was
  dispatched to it, and the loop with none. It lets every other part look at one
  launcher at a time.
* `Held`: what is initialised at each place, and that nothing is handed over
  before `handover`. `SessionIsClean` is only about its two ends.
* `Awaited` is `WakeupIsDue`, which is inductive with its types: an alarm goes
  off into a wakeup, so that their sum does not depend on the order.
* `TrayShut`: the tray is not opened before `first_run` is cleared, and opening
  it clears it.
* `Listed` and `Matching`: the list of launches has only DVDs before its end, as
  only their launcher may record and come back; between the record and the start
  the ID does not change, and for a PlayStation 2 disc it has the first ten
  characters of the one in `BOOT2` (`Stem`).
* `Choosing`: while an update is under way, the version that was read is that of
  the card if it was not changed, and newer than the ROM's. A region of `.` in
  memory tells that the player of the ROM had a version to compare.
* `Showing`: on cards that no one changes and that do not fail, the choice is a
  function of them: the first card with an update the ROM's player accepts
  (`First`), and the player of the ROM if there is none or it has no program. The
  banner and `DVDPlayerBoot` make the same choice, however much later.
* `Undisturbed` says which of that function's answers `CheckDVDPlayerUpdate` gives
  back, in terms of the files alone (`Updates`, `Choice`). No region is in them:
  this is the extent of the run that refutes `AcceptedIsRight`.
* `Seen`: between a reading of the drive and the sleep after it, `valid` and
  `DiscType` say whether a known disc was found. `StepsToLauncher` is then a bound
  on the steps that are left, the part of `DiscIsServed` that needs no fairness.
* `Dated`: a launch is recorded with the clock's date by each launcher but
  PlayStation's, which always records without. `StampIsClock` fails exactly after
  a PlayStation game was recorded.
* `Searched`: the search for `BOOT2` stands on the first two lines for ever, so
  that a game is only started from one of them: what `ScanEnds` shows of the third
  line is so of every later one.

### The timer

`Timer_proofs` proves seven theorems about `Timer`, for any period, scale, waits and
bounds within `TimerAssumption`, which the program's 65536, 576 and 2000 and its 64
bits satisfy for a wait of any `int`, with a `Lag` below the period and windows of
2^41 counts (`ProgramIsCovered`):

| Theorem | States |
|---|---|
| `TypeCorrect` | `Spec => []TypeOK` |
| `EveryOverflowCounts` | `Spec => []NoOverflowLost` |
| `ReadingsAreClose` | `Spec => []ReadingIsClose` |
| `WindowsAreWhole` | `Spec => []WindowIsWhole` |
| `WindowsAreShort` | `Spec => []WindowIsShort` |
| `WindowsAreTimely` | `Spec => []WindowIsTimely` |
| `ProgramIsCovered` | the program's numbers satisfy the assumption |

* `Handled` and `Counting` say which of T0, the handler and the interrupt are on
  at each place; with them an overflow of an earlier window, or of an earlier
  program, is out of the way before the count starts.
* `NoOverflowLost` is then inductive: a tick that overflows raises the interrupt,
  and none can be waiting, as one that waits is taken before the next tick. The
  bound on the lag is needed between the start of T0 and the reset of the count of
  overflows, two steps later: an overflow there would be lost.
* `Loaded` bounds what was loaded first by the time at which the reading began;
  `ReadingIsClose` adds what can happen until the second load.
* `LateEnough` is the comparison that ends a window, in counts. The sum with the
  wait does not wrap when the wait is not negative, by the assumption on `Word`.
* `Early` is its other half: what was read before a pass that stays in the window
  was small. With `ReadingIsClose` the time was, too, but for the lost fraction of a
  millisecond (`Rounding`), one period, and what `TimerInit` took. The exception
  is `Endless`, a sum that wraps; `WindowsEnd` has the same one.

### The settings and the regions

`OSDConfig_proofs` proves eight theorems about `OSDConfig` and the `OSDRegion` in
it, for any blocks in the EEPROM and any calls and losses of power, on the
program's own field widths:

| Theorem | States |
|---|---|
| `TypeCorrect` | `Spec => []TypeOK` |
| `SavedSettingsAreStored` | `Spec => []SavedIsStored` |
| `UnknownBitsCarryOver` | `Spec => SaveCarriesOver` |
| `WritingBackKeeps` | `Spec => []WriteBackKeeps` |
| `CallsDoCommute` | `HaveROMVER /\ Spec => []CallsCommute` |
| `AppliedLanguagesAreValid` | `HaveROMVER /\ Spec => []AppliedLanguageIsValid` |
| `SettingsAreAStore` | `Spec => ImplementsStore` |
| `OnlyNamedLanguagesAreValid` | `HaveROMVER /\ Spec => [](ready => (DefaultLanguageIsValid <=> Own # INVALID /\ IsOf(Name, Own)))` |

* `Stored`: while settings are loaded the buffer is the EEPROM's block, so that
  what a save writes carries over what the block had (`WriteTyped`).
* `StoreNext` maps each call to a step of `SettingsStore`. That a save stores what
  is in memory is `WriteTyped` again: what was written reads back as it was, from
  any block before it, but for the undefined bits of the PlayStation setting. Applying the settings may rewrite the language in memory,
  which is a change of one setting.
* `Caching` is why the getters commute. On a console with a ROMVER,
  `OSDInitSystemPaths` fills every cache (`FilledAtOnce`: the one cache `Full`),
  and no getter changes a full cache (`FullStays`), although some read OSDVER
  again each time: a region that was not found is looked for at every call.
* `HaveROMVER` is needed. Without a ROMVER `OSDInitSystemPaths` returns before
  it fills the caches; if OSDVER is there and names a region, the MECHACON's
  region data is then reported until the first getter that reads OSDVER, and not
  after it. Every console has a ROMVER; the runs have one without it, whose
  OSDVER names none.
* What the region and the default language are does not depend on the cache but
  on the console (`FullTells`), so that a language that was valid when it was
  applied stays so.
* `OnlyNamedLanguagesAreValid` is the extent of the run that refutes
  `DefaultLanguageIsValid`: the default is right where `OSDVER` (or the MECHACON,
  asked in its place) names a region and a language of it, and nowhere else. The
  region's own default, which line 293 was to fall back to, repairs no case
  (`NamedIsTaken`).

### What only TLC checks

Every safety property that a passing run checks is a theorem too, `CallsCommute`
and `AppliedLanguageIsValid` for consoles with a ROMVER; for each of the six
runs that refute a property a theorem says how far the disagreement goes
(`LaunchesAreDurable`, `ForeignCommentsHold`, `OnlyPs1IsUndated`, `OnlyFirstLinesCount`,
`PlayersAreChosen`, `OnlyNamedLanguagesAreValid`).
Liveness (`BootSettles`, `EmergencyIsReachable`, `RescueIsStarted`, `DiscIsServed`,
`WindowsEnd`, and `ScanEnds` and `CommentsAreSkipped` among the refuted ones),
`ENABLED` and what a recursion over data computes are out of the prover's reach and
stay with TLC; of `BootSettles` and `DiscIsServed` the measure that decreases is
proved (`BootsAdvance`, `LoopsAdvance`), of `WindowsEnd` the bound (`WindowsAreShort`).
Of the measures, TLC checks the boot's (`BootAdvances`); `LoopAdvances` is in no run,
as are `SavedIsStored` and `SaveCarriesOver`, which `ImplementsStore` implies.

## What is not modelled

* Loading of the IOP modules, PSX set-up and the S-commands themselves: calls of
  libraries in a fixed order, before anything else is at stake.
* The other settings of the configuration file: numbers and switches that are
  stored and read once, among them `OSDHISTORY_READ`, `LOGO_DISPLAY` and
  `SKIP_PS2LOGO`. Where one decides what happens, either outcome is possible.
* Characters: `str_split`, `getMountInfo`, the keys of `SYSTEM.CNF` and the
  buffers they are read into enter as what they answer.
* `massX:` and the search of USB drives for one of its kind.
* The HDD checker, the power-off callback, the model name, the temperature, and
  all output to the screen.
* The ELF loader that is embedded, and build files.

## Plan

The order is by what the program is for: the history first, because it is the
one thing that outlives a run; then the boot itself; then discs and settings.

1. `HistoryTable` with proofs, `HistorySave`, `BootFlow`, `DiscHandler`,
   `OSDRegion`, `OSDConfig`: done.
2. `DvdPlayer` as a part of `DiscHandler`, the lines of the configuration in
   `BootFlow`, `Timer`, and proofs of every safety property: done.
3. The extent of each disagreement, the measures behind liveness, and
   `SettingsStore`: done.
4. `massX:`, and module loading if it has something to say beyond its order.

## Running it

`tlc -config <name>.cfg <module>` for a run of `PROJECT.json`, and
`tlapm <module>_proofs.tla` for the proofs about `HistoryTable`,
`HistorySave`, `BootFlow`, `DiscHandler`, `Timer` and `OSDConfig` (and
`tlapm Extremes.tla` for the lemmas they share), each of them in less than a
minute. On two cores `BootFlow` takes a little over two minutes and each other run under one.
