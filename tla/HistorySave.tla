---------------------------- MODULE HistorySave ----------------------------
(***************************************************************************)
(* The play history on the two memory cards: UpdatePlayHistory with        *)
(* LoadHistoryFile and SaveHistoryFile (OSDHistory.c), one run of the      *)
(* program after the other, each of which launches one game, and the load  *)
(* for the banner's colour that main does before it (main.c).              *)
(*                                                                         *)
(* A step is one call that reaches a card.  Every one of them may fail and *)
(* the console may be switched off between any two, at most MaxFaults      *)
(* times.  A file is the sequence of records it holds: a whole table, or   *)
(* the prefix that a cut off write has left.  Nothing else writes to the   *)
(* cards and nobody swaps them.                                            *)
(***************************************************************************)
EXTENDS Integers, FiniteSets, FiniteSetsExt

CONSTANTS
  Names, Blank, Dates,                                    \* of HistoryTable
  MaxEntries, NumBits, FullMask, FirstMilestone, MilestoneStep, CountClamp,
  NoFile,        \* stands for a history file that does not exist
  InitialCards,  \* the pairs of cards that can be in the slots
  MaxFaults      \* failing calls and losses of power in a behaviour

VARIABLES
  entries, old, tooMany,   \* of HistoryTable
  card,      \* the two memory cards
  pc,        \* the call that UpdatePlayHistory makes next
  port,      \* its port
  banner,    \* whether main is loading the table for the banner
  game,      \* the game this run launches
  date,      \* and the date of it
  faults,    \* failures so far
  spare,     \* history variable: see SomeCopyIsWhole
  recorded   \* history variable: the games AddHistoryRecord has put in a table

(* The table in memory.                                                    *)
Table == INSTANCE HistoryTable

Ports == {0, 1}
Slots == 0 .. MaxEntries - 1

Files == {NoFile} \cup UNION {[0 .. k - 1 -> Table!Records] : k \in 0 .. MaxEntries}

(* Mutant: the length that read returns is not compared.                   *)
AnyFile(f) == f # NoFile

Whole(f) == f # NoFile /\ DOMAIN f = Slots

(***************************************************************************)
(* What SaveHistoryFile and LoadHistoryFile see of a card.  "none" is no   *)
(* formatted PlayStation 2 card; a "refused" card can be read, but reports *)
(* less free space than HISTORY_SIZE.  An icon.sys can exist and be empty. *)
(***************************************************************************)
Cards == [kind : {"none", "refused", "usable"}, folder : BOOLEAN, history : Files,
          archive : SUBSET Table!Records, icon : {"absent", "empty", "written"}]

ASSUME TableAssumption ==
  /\ MaxEntries \in Nat \ {0} /\ NumBits \in Nat \ {0} /\ Blank \notin Names
  /\ FullMask \in Nat \ {0} /\ CountClamp \in Nat /\ FullMask < CountClamp
ASSUME FileAssumption == NoFile \notin Table!Tables
ASSUME CardsAssumption == InitialCards \subseteq [Ports -> Cards] /\ MaxFaults \in Nat

memVars  == <<entries, old, tooMany>>
cardVars == <<card>>
runVars  == <<pc, port, banner, game, date>>
faultVars == <<faults, spare>>
vars     == <<memVars, cardVars, runVars, faultVars, recorded>>

WipedTable == [i \in Slots |-> Table!Wiped]
Readable(p) == card[p].kind # "none"

Fails ==
  /\ faults < MaxFaults /\ faults' = faults + 1
  /\ spare' = IF spare = 0 THEN 0 ELSE spare - 1

(***************************************************************************)
(* main: a run begins with the memory wiped, and loads the table for the   *)
(* banner if the configuration asks for it.  (old and tooMany are wiped    *)
(* too, but AddHistoryRecord sets them before they are read.)              *)
(***************************************************************************)
PowerOn(n, d, b) ==
  /\ pc = "off"
  /\ pc' = "load" /\ port' = 0 /\ banner' = b
  /\ game' = n /\ date' = d
  /\ entries' = WipedTable
  /\ spare' = IF \A p \in Ports : Readable(p) /\ Whole(card[p].history)
              THEN 2 ELSE 0
  /\ UNCHANGED <<old, tooMany, cardVars, faults, recorded>>

(***************************************************************************)
(* LoadHistoryFile(port) and what its caller does with the result.         *)
(***************************************************************************)
AfterBanner == pc' = "load" /\ port' = 0 /\ banner' = FALSE

LoadSucceeds ==
  /\ pc = "load" /\ Readable(port) /\ Whole(card[port].history)
  /\ entries' = card[port].history
  /\ IF banner THEN AfterBanner ELSE pc' = "add" /\ UNCHANGED <<port, banner>>
  /\ UNCHANGED <<old, tooMany, cardVars, game, date, faultVars, recorded>>

(* The first k records of the file replace those in memory.                *)
Overlaid(t, f, k) == [i \in Slots |-> IF i < k THEN f[i] ELSE t[i]]

ShortReads ==
  IF ~Readable(port) \/ card[port].history = NoFile THEN {entries}
  ELSE {Overlaid(entries, card[port].history, Cardinality(DOMAIN card[port].history))}

FailedReads ==
  IF ~Readable(port) \/ card[port].history = NoFile THEN {entries}
  ELSE {Overlaid(entries, card[port].history, k) :
          k \in 0 .. Min({MaxEntries - 1, Cardinality(DOMAIN card[port].history)})}

(* The second port is tried, then the table is wiped (UpdatePlayHistory)   *)
(* or left as it is (main).                                                *)
(* Mutant: without the memset.                                             *)
LoadFailedNoWipe(t) ==
  /\ IF port = 0 THEN pc' = "load" /\ port' = 1 /\ UNCHANGED banner
     ELSE IF banner THEN AfterBanner ELSE pc' = "add" /\ UNCHANGED <<port, banner>>
  /\ entries' = t

LoadFailed(t) ==
  IF port = 0
  THEN pc' = "load" /\ port' = 1 /\ entries' = t /\ UNCHANGED banner
  ELSE IF banner
       THEN AfterBanner /\ entries' = t
       ELSE pc' = "add" /\ entries' = WipedTable /\ UNCHANGED <<port, banner>>

LoadFails ==
  /\ pc = "load"
  /\ \/ /\ ~(Readable(port) /\ Whole(card[port].history))
        /\ \E t \in ShortReads : LoadFailed(t)
        /\ UNCHANGED faultVars
     \/ Fails /\ \E t \in FailedReads : LoadFailed(t)
  /\ UNCHANGED <<old, tooMany, cardVars, game, date, recorded>>

(* Mutant: only the second port is saved to.                               *)
AddThenSecond ==
  /\ pc = "add"
  /\ Table!AddHistoryRecord(game, date)
  /\ recorded' = IF Table!Matches(entries', game) = {} THEN recorded ELSE recorded \cup {game}
  /\ pc' = "check" /\ port' = 1
  /\ UNCHANGED <<cardVars, banner, game, date, faultVars>>

Add ==
  /\ pc = "add"
  /\ Table!AddHistoryRecord(game, date)
  /\ recorded' = IF Table!Matches(entries', game) = {} THEN recorded ELSE recorded \cup {game}
  /\ pc' = "check" /\ port' = 0
  /\ UNCHANGED <<cardVars, banner, game, date, faultVars>>

-----------------------------------------------------------------------------

(***************************************************************************)
(* SaveHistoryFile(port), call by call.                                    *)
(***************************************************************************)
SaveReturnsError ==
  /\ IF port = 0 THEN pc' = "check" /\ port' = 1
                 ELSE pc' = "done" /\ UNCHANGED port
  /\ UNCHANGED <<memVars, banner, game, date, recorded>>

Goes(step) ==
  pc' = step /\ UNCHANGED <<memVars, port, banner, game, date, recorded>>

SetFile(f) == card' = [card EXCEPT ![port].history = f]

(* Mutant: the file is truncated before the card is checked.               *)
TruncateAndCheck ==
  /\ pc = "check"
  /\ IF Readable(port) THEN SetFile(<< >>) ELSE UNCHANGED cardVars
  /\ \/ card[port].kind = "usable" /\ Goes("open") /\ UNCHANGED faultVars
     \/ card[port].kind # "usable" /\ SaveReturnsError /\ UNCHANGED faultVars
     \/ Fails /\ SaveReturnsError

(* mcGetInfo *)
Check ==
  /\ pc = "check"
  /\ \/ card[port].kind = "usable" /\ Goes("open") /\ UNCHANGED faultVars
     \/ card[port].kind # "usable" /\ SaveReturnsError /\ UNCHANGED faultVars
     \/ Fails /\ SaveReturnsError
  /\ UNCHANGED cardVars

(* open with O_CREAT | O_TRUNC, which a missing folder makes fail *)
Open ==
  /\ pc = "open"
  /\ \/ /\ card[port].folder /\ SetFile(<< >>)
        /\ Goes("write") /\ UNCHANGED faultVars
     \/ /\ ~card[port].folder /\ Goes("mkdir")
        /\ UNCHANGED <<cardVars, faultVars>>
     \/ /\ Fails /\ Goes("mkdir")
        /\ UNCHANGED cardVars

(* mcMkDir, whose result is not looked at *)
MkDir ==
  /\ pc = "mkdir"
  /\ \/ card' = [card EXCEPT ![port].folder = TRUE] /\ UNCHANGED faultVars
     \/ Fails /\ UNCHANGED cardVars
  /\ Goes("reopen")

Reopen ==
  /\ pc = "reopen"
  /\ \/ /\ card[port].folder /\ SetFile(<< >>)
        /\ Goes("write") /\ UNCHANGED faultVars
     \/ /\ ~card[port].folder /\ SaveReturnsError
        /\ UNCHANGED <<cardVars, faultVars>>
     \/ /\ Fails /\ SaveReturnsError
        /\ UNCHANGED cardVars

Prefixes(t) == {[i \in 0 .. k - 1 |-> t[i]] : k \in 0 .. MaxEntries - 1}

(* Mutant: the result of write is not looked at.                           *)
WriteUnchecked ==
  /\ pc = "write"
  /\ \/ SetFile(entries) /\ UNCHANGED faultVars
     \/ Fails /\ \E f \in Prefixes(entries) : SetFile(f)
  /\ Goes("archive")

Write ==
  /\ pc = "write"
  /\ \/ SetFile(entries) /\ Goes("archive") /\ UNCHANGED faultVars
     \/ /\ Fails /\ SaveReturnsError
        /\ \E f \in Prefixes(entries) : SetFile(f)

(* Mutant: history.old is opened with O_TRUNC.                             *)
ArchiveTruncates ==
  /\ pc = "archive"
  /\ card' = IF tooMany THEN [card EXCEPT ![port].archive = {old}] ELSE card
  /\ UNCHANGED faultVars
  /\ Goes("icon")

(* history.old is opened for appending and written; failures are ignored *)
Archive ==
  /\ pc = "archive"
  /\ \/ /\ card' = IF tooMany THEN [card EXCEPT ![port].archive = @ \cup {old}] ELSE card
        /\ UNCHANGED faultVars
     \/ tooMany /\ Fails /\ UNCHANGED cardVars
  /\ Goes("icon")

SaveReturnsZero ==
  /\ pc' = "done"
  /\ UNCHANGED <<memVars, port, banner, game, date, recorded>>

(* icon.sys is created, or emptied, if open could not find it *)
IconCreate ==
  /\ pc = "icon"
  /\ \/ /\ card[port].icon # "absent" /\ SaveReturnsZero
        /\ UNCHANGED <<cardVars, faultVars>>
     \/ /\ card[port].icon = "absent"
        /\ card' = [card EXCEPT ![port].icon = "empty"]
        /\ Goes("iconwrite") /\ UNCHANGED faultVars
     \/ /\ card[port].icon = "absent" /\ Fails /\ SaveReturnsZero
        /\ UNCHANGED cardVars
     \/ /\ card[port].icon # "absent" /\ Fails
        /\ card' = [card EXCEPT ![port].icon = "empty"]
        /\ Goes("iconwrite")

(* its write is not checked *)
IconWrite ==
  /\ pc = "iconwrite"
  /\ \/ card' = [card EXCEPT ![port].icon = "written"] /\ UNCHANGED faultVars
     \/ Fails /\ UNCHANGED cardVars
  /\ SaveReturnsZero

(* The game runs, and the console is switched off.                         *)
PowerOff ==
  /\ pc = "done"
  /\ pc' = "off" /\ entries' = WipedTable
  /\ UNCHANGED <<old, tooMany, cardVars, port, banner, game, date, faultVars, recorded>>

(* Power is lost during the run; a write is cut off.                       *)
LosePower ==
  /\ pc \notin {"off", "done"} /\ Fails
  /\ pc' = "off" /\ entries' = WipedTable
  /\ IF pc = "write" THEN \E f \in Prefixes(entries) : SetFile(f)
                     ELSE UNCHANGED cardVars
  /\ UNCHANGED <<old, tooMany, port, banner, game, date, recorded>>

-----------------------------------------------------------------------------

Init ==
  /\ card \in InitialCards
  /\ entries = WipedTable /\ old = Table!Wiped /\ tooMany = FALSE
  /\ pc = "off" /\ port = 0 /\ banner = FALSE
  /\ game \in Names /\ date \in Dates
  /\ faults = 0 /\ spare = 0 /\ recorded = {}

Load == LoadSucceeds \/ LoadFails
Save == Check \/ Open \/ MkDir \/ Reopen \/ Write \/ Archive \/ IconCreate \/ IconWrite

Next ==
  \/ \E n \in Names, d \in Dates, b \in BOOLEAN : PowerOn(n, d, b)
  \/ Load \/ Add \/ Save
  \/ PowerOff \/ LosePower

Spec == Init /\ [][Next]_vars

-----------------------------------------------------------------------------

TypeOK ==
  /\ entries \in Table!Tables /\ old \in Table!Records /\ tooMany \in BOOLEAN
  /\ card \in [Ports -> Cards]
  /\ pc \in {"off", "load", "add", "check", "open", "mkdir", "reopen", "write",
             "archive", "icon", "iconwrite", "done"}
  /\ port \in Ports
  /\ banner \in BOOLEAN /\ game \in Names /\ date \in Dates
  /\ faults \in 0 .. MaxFaults /\ spare \in 0 .. 2 /\ recorded \subseteq Names

(* The table that the next run will load.                                  *)
Durable ==
  IF Readable(0) /\ Whole(card[0].history) THEN card[0].history
  ELSE IF Readable(1) /\ Whole(card[1].history) THEN card[1].history
  ELSE WipedTable

(***************************************************************************)
(* The launch is added to a table that was read in full, or to a wiped     *)
(* one: what a short read, or the banner's load, left in HistoryEntries is *)
(* never part of it.  If nothing failed it is the first port's table that  *)
(* can be had.                                                             *)
(***************************************************************************)
AddsToWholeTable ==
  pc = "add" =>
    /\ \/ entries = WipedTable
       \/ \E p \in Ports : Readable(p) /\ card[p].history = entries
    /\ faults = 0 => entries = Durable

(***************************************************************************)
(* SaveHistoryFile truncates a card's only copy before it writes, but goes *)
(* to the second card only when it could not save on the first: a run that *)
(* starts with a whole table on both cards, and in which at most one call  *)
(* fails or power is lost, leaves one whole copy at every moment, but for  *)
(* the one in which the second copy is rewritten after a failure with the  *)
(* first.  A run that starts so has two copies to spare, less its failures.*)
(***************************************************************************)
SomeCopyIsWhole ==
  spare > 0 =>
    \/ \E p \in Ports : Whole(card[p].history)
    \/ pc = "write" /\ port = 1 /\ spare = 1

(***************************************************************************)
(* "leave this one for the end, so if writing failed and folder was        *)
(* created it remains without icon": icon.sys appears on a card only when  *)
(* the whole table of this run is on it.                                   *)
(***************************************************************************)
IconNeedsTable ==
  \A p \in Ports : card[p].icon = "absent" /\ card'[p].icon # "absent" =>
                    card[p].history = entries

IconComesLast == [][IconNeedsTable]_vars

(***************************************************************************)
(* A card that takes the table, and no card before it that is loaded from  *)
(* and refuses it: there LaunchIsDurable does not hold.                    *)
(***************************************************************************)
Accepting ==
  \E p \in Ports :
    /\ card[p].kind = "usable"
    /\ \A q \in 0 .. p - 1 : ~(card[q].kind = "refused" /\ Whole(card[q].history))

(***************************************************************************)
(* While nothing fails, a game that was ever put in the table is in the    *)
(* table the next run loads, or was appended to history.old on a card.     *)
(***************************************************************************)
GamesAreConserved ==
  pc = "off" /\ faults = 0 /\ Accepting =>
    \A n \in recorded :
      \/ Table!Matches(Durable, n) # {}
      \/ \E p \in Ports : \E e \in card[p].archive : e.name = n

(***************************************************************************)
(* "updates the history file with the specified ID on name": when the run  *)
(* is over and nothing failed, the next run will load what this one added. *)
(***************************************************************************)
LaunchIsDurable ==
  pc = "done" /\ faults = 0 /\ (\E p \in Ports : card[p].history = entries)
    => Durable = entries

(***************************************************************************)
(* With a card that accepts it, and until the first failure, the cards     *)
(* implement the table of HistoryTable: a launch takes effect in Add and   *)
(* is what the next run starts from.  Its table is empty at first if no    *)
(* card holds one, and that of the cards otherwise.                        *)
(***************************************************************************)
Lasting == INSTANCE HistoryTable WITH
  entries <- IF pc \in {"off", "load", "add"} THEN Durable ELSE entries

ImplementsTable ==
  /\ (\A p \in Ports : card[p].history = NoFile) => Lasting!Init
  /\ [][faults' = 0 /\ Accepting => Lasting!Next]_(Lasting!tableVars)

=============================================================================
