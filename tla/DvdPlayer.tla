----------------------------- MODULE DvdPlayer -----------------------------
(***************************************************************************)
(* The DVD player of the console and the updates of it on memory cards     *)
(* (dvdplayer.c): DVDPlayerInit reads the player in the ROM, the banner    *)
(* shows the version of the player that a DVD would get, and DVDPlayerBoot *)
(* looks for that player again, much later, when a DVD is there.           *)
(*                                                                         *)
(* A step is one access of a card.  Each may fail, and a card may be       *)
(* changed between any two, MaxUpsets times in all.  A file of a player's  *)
(* ID is a version, "major.minor" and the letter of a region, or one that  *)
(* lacks the dot.  Reads of the ROM are taken to succeed, and every text   *)
(* fits.  The handle that a failing sceMcRead leaves open is left out, and *)
(* so are builds with PROHBIT_DVD_0100.  DiscHandler has the rest of       *)
(* DVDPlayerBoot and the initial states.                                   *)
(***************************************************************************)
EXTENDS Integers

CONSTANTS
  NoFile,     \* stands for a file that does not exist
  Consoles,   \* the consoles: see ConsoleRecords
  DvdCards,   \* what a slot can hold: see CardRecords
  MaxUpsets   \* failing accesses and changes of a card in a behaviour

VARIABLES
  pc,
  console,        \* the console
  cards,          \* what is in the two slots
  ROMDVDPlayer,
  caller, port, dvdId,   \* DVDPlayerUpdateCheck: who calls it, and its locals
  shown,          \* the version in the banner
  player,         \* what CheckDVDPlayerUpdate returns: a port, 2 for the ROM, or -1
  upsets,         \* bounded counter
  steady          \* history variable: no card was changed since the check began

dvdVars == <<console, cards, ROMDVDPlayer, caller, port, dvdId, shown, player, upsets, steady>>

Ports == {0, 1}

(* The ID "major.minor" with a region after it, or without a dot.          *)
Ids == [major : Nat, minor : Nat, dot : BOOLEAN, region : STRING]

(* The files of a card: dvdplayer.id, the text of dvdplayer-e.ver, and     *)
(* whether dvdplayer.elf is there.                                         *)
CardRecords == [id : Ids \cup {NoFile}, text : STRING \cup {NoFile}, elf : BOOLEAN]

(***************************************************************************)
(* What OSDGetDVDPlayerRegion answers ("unknown" if it fails, "nul" for    *)
(* the character 0), the player in the ROM whose files carry that letter   *)
(* and the one whose files do not, and whether this is a 0100J or 0101J.   *)
(***************************************************************************)
RomPlayers == [id : Ids, text : STRING] \cup {NoFile}
ConsoleRecords == [letter : STRING, local : RomPlayers, plain : RomPlayers, early : BOOLEAN]

HasLetter(c) == c.letter \notin {"unknown", "nul"}

(***************************************************************************)
(* LetterAssumption: on a console with a letter, a player in the ROM is    *)
(* one that carries it, as DVDPlayerBoot starts no other.                  *)
(***************************************************************************)
ASSUME LetterAssumption == \A c \in Consoles : HasLetter(c) => c.plain = NoFile
ASSUME DvdAssumption ==
  Consoles \subseteq ConsoleRecords /\ DvdCards \subseteq CardRecords /\ MaxUpsets \in Nat

Upset == upsets < MaxUpsets /\ upsets' = upsets + 1

(* The user changes the card in slot p. *)
Swap(p, c) ==
  /\ c # cards[p] /\ cards' = [cards EXCEPT ![p] = c]
  /\ Upset /\ steady' = FALSE
  /\ UNCHANGED <<pc, console, ROMDVDPlayer, caller, port, dvdId, shown, player>>

-----------------------------------------------------------------------------

(* rom1:DVDID with the letter, or without one *)
RomPlayer(c) == IF HasLetter(c) /\ c.local # NoFile THEN c.local ELSE c.plain

(* The loop over the minor version starts at the dot, and ends there.      *)
RegionOf(i) == IF i.dot THEN "." ELSE "nul"

(* DVDPlayerUpdateCheck begins. *)
BeginCheck(who) ==
  /\ caller' = who /\ port' = 0 /\ dvdId' = NoFile
  /\ pc' = "readid" /\ steady' = TRUE

(* The banner is shown, or LOGO_DISP is 0. *)
DVDPlayerInit ==
  /\ pc = "dvdinit"
  /\ LET r == RomPlayer(console)
     IN ROMDVDPlayer' =
          IF r = NoFile
          THEN [major |-> -1, minor |-> -1, ver |-> "",
                region |-> IF console.early THEN "J" ELSE "none"]
          ELSE IF r.id.dot
          THEN [major |-> r.id.major, minor |-> r.id.minor, ver |-> r.text,
                region |-> RegionOf(r.id)]
          ELSE [major |-> 0, minor |-> 0, ver |-> "", region |-> "nul"]
  /\ \/ BeginCheck("banner")
     \/ pc' = "diagnose" /\ UNCHANGED <<caller, port, dvdId, steady>>
  /\ UNCHANGED <<console, cards, shown, player, upsets>>

-----------------------------------------------------------------------------
(* DVDPlayerUpdateCheck                                                    *)

(* The result is 0: DVDPlayerGetVersion shows that version, and            *)
(* DVDPlayerGetUpdateVersion looks for the program.                        *)
Found(text) ==
  /\ IF caller = "banner" THEN pc' = "diagnose" /\ shown' = text
                          ELSE pc' = "checkelf" /\ UNCHANGED shown
  /\ UNCHANGED port

(* The next card, or the result -1. *)
Passed ==
  IF port = 0 THEN port' = 1 /\ pc' = "readid" /\ UNCHANGED shown
  ELSE /\ IF caller = "banner" THEN pc' = "diagnose" /\ shown' = ROMDVDPlayer.ver
                               ELSE pc' = "checkrom" /\ UNCHANGED shown
       /\ UNCHANGED port

(* Mutant: a higher minor version is enough.                               *)
NewerByMinor(i) == i.major > ROMDVDPlayer.major \/ i.minor > ROMDVDPlayer.minor

Newer(i) ==
  \/ i.major > ROMDVDPlayer.major
  \/ i.major = ROMDVDPlayer.major /\ i.minor > ROMDVDPlayer.minor

Accepted(i) == i.dot /\ ROMDVDPlayer.region = RegionOf(i) /\ Newer(i)

ReadId ==
  /\ pc = "readid"
  /\ \/ /\ cards[port].id # NoFile
        /\ dvdId' = cards[port].id /\ pc' = "readver" /\ UNCHANGED <<port, shown, upsets>>
     \/ cards[port].id = NoFile /\ Passed /\ UNCHANGED <<dvdId, upsets>>
     \/ Upset /\ Passed /\ UNCHANGED dvdId
  /\ UNCHANGED <<console, cards, ROMDVDPlayer, caller, player, steady>>

ReadVersion ==
  /\ pc = "readver"
  /\ \/ /\ cards[port].text # NoFile
        /\ IF Accepted(dvdId) THEN Found(cards[port].text) ELSE Passed
        /\ UNCHANGED upsets
     \/ cards[port].text = NoFile /\ Passed /\ UNCHANGED upsets
     \/ Upset /\ Passed
  /\ UNCHANGED <<console, cards, ROMDVDPlayer, caller, dvdId, player, steady>>

-----------------------------------------------------------------------------
(* CheckDVDPlayerUpdate                                                    *)

Returned(p) == player' = p /\ pc' = "dvdboot"

(* Mutant: an update whose program is missing is no reason to try the ROM. *)
CheckElfOrFail ==
  /\ pc = "checkelf"
  /\ \/ cards[port].elf /\ Returned(port) /\ UNCHANGED upsets
     \/ ~cards[port].elf /\ Returned(-1) /\ UNCHANGED upsets
     \/ Upset /\ Returned(-1)
  /\ UNCHANGED <<console, cards, ROMDVDPlayer, caller, port, dvdId, shown, steady>>

(* Mutant: the port at which the update was found is not given back.       *)
CheckElfFirst ==
  /\ pc = "checkelf"
  /\ \/ cards[port].elf /\ Returned(0) /\ UNCHANGED upsets
     \/ ~cards[port].elf /\ pc' = "checkrom" /\ UNCHANGED <<player, upsets>>
     \/ Upset /\ pc' = "checkrom" /\ UNCHANGED player
  /\ UNCHANGED <<console, cards, ROMDVDPlayer, caller, port, dvdId, shown, steady>>

CheckElf ==
  /\ pc = "checkelf"
  /\ \/ cards[port].elf /\ Returned(port) /\ UNCHANGED upsets
     \/ ~cards[port].elf /\ pc' = "checkrom" /\ UNCHANGED <<player, upsets>>
     \/ Upset /\ pc' = "checkrom" /\ UNCHANGED player
  /\ UNCHANGED <<console, cards, ROMDVDPlayer, caller, port, dvdId, shown, steady>>

CheckRom ==
  /\ pc = "checkrom"
  /\ Returned(IF RomPlayer(console) = NoFile THEN -1 ELSE 2)
  /\ UNCHANGED <<console, cards, ROMDVDPlayer, caller, port, dvdId, shown, upsets, steady>>

(* The player that DVDPlayerBoot starts from the ROM. *)
Started(c) == IF HasLetter(c) THEN c.local ELSE c.plain

-----------------------------------------------------------------------------

DvdInit ==
  /\ console \in Consoles /\ cards \in [Ports -> DvdCards]
  /\ ROMDVDPlayer = [major |-> 0, minor |-> 0, ver |-> "", region |-> "nul"]
  /\ caller = "nobody" /\ port = 0 /\ dvdId = NoFile /\ shown = "nothing" /\ player = -1
  /\ upsets = 0 /\ steady = TRUE

DvdCheck == DVDPlayerInit \/ ReadId \/ ReadVersion \/ CheckElf \/ CheckRom

(* The texts of versions: those of updates and of players, and none.       *)
Versions ==
  {""} \cup ({d.text : d \in DvdCards} \ {NoFile})
       \cup {RomPlayer(c).text : c \in {x \in Consoles : RomPlayer(x) # NoFile}}

DvdTypeOK ==
  /\ console \in Consoles /\ cards \in [Ports -> DvdCards]
  /\ ROMDVDPlayer \in [major : Int, minor : Int, ver : Versions,
                       region : {".", "nul", "none", "J"}]
  /\ caller \in {"nobody", "banner", "boot"} /\ port \in Ports
  /\ dvdId \in Ids \cup {NoFile} /\ shown \in Versions \cup {"nothing"} /\ player \in -1 .. 2
  /\ upsets \in 0 .. MaxUpsets /\ steady \in BOOLEAN

=============================================================================
