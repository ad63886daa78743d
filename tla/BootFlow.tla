------------------------------ MODULE BootFlow ------------------------------
(***************************************************************************)
(* main, CheckPath and EMERGENCY (main.c): from the pads being opened to   *)
(* the program that is handed the console.  The user presses and releases  *)
(* buttons and devices come and go between any two steps.                  *)
(*                                                                         *)
(* A path is a record: the device, the file, and whether it stands behind  *)
(* the $RUNKELF: command; the other commands are paths on the device "$".  *)
(* A file that can be opened is a pair <<device, file>> of present; a      *)
(* partition of the hard disk is a device of its own, seen through the     *)
(* one mount point pfs0:, and "hdd" is a path getMountInfo cannot split.   *)
(* A configuration file is a sequence of lines, of the kinds that          *)
(* get_CNF_string and main's parser tell apart (see Line).  What           *)
(* dischandler does with a disc is a step of the environment here.  The    *)
(* embedded ELF loader, and the kernel's LoadExecPS2 and ExecOSD, do not   *)
(* return.  A configured path is a piece of the file's text, which CleanUp *)
(* frees before RunLoaderElf reads the path: see RunLoaderElf.             *)
(***************************************************************************)
EXTENDS Integers, Sequences, FiniteSets, FiniteSetsExt

CONSTANTS
  PadPorts,       \* ports with a pad
  NumButtons,     \* 16; button b is bit b - 1 of the pad status
  DefaultFirst,   \* L2, the first of the buttons with a default path
  NumDefaults,    \* 4
  Start, R1,      \* the buttons of the rescue mode
  Sources,        \* CONFIG_PATHS[0 .. SOURCE_CWD]: a sequence from 0 of paths
  HddSource,      \* the indices of Sources that are on the hard disk
  SecondSource,   \* for mc? (and mmce?): the source named SOURCE_MC1 (_MMCE1)
  DefaultPaths,   \* DEFPATH as a table of NumDefaults + 1 rows
  Configs,        \* the texts that configuration files can hold
  Parties,        \* partitions a path can name; empty without HDD support
  FileNames,      \* the files that a path can name
  Files           \* the pairs <<device, file>> that can appear and vanish

Buttons == 1 .. NumButtons
NoSource == -1
NoParty == "none"

(***************************************************************************)
(* A line of a configuration file.  "entry" is LK_<key>_E<entry + 1> with  *)
(* its path, "irx" a LOAD_IRX_E that names a file, "other" any other name  *)
(* with a value, and "skip" a comment or a blank line.  "bare" has no '=', *)
(* in "cut" the file ends before the value does begin, and "foreign" is a  *)
(* comment with a character above 127, where the signed char is negative.  *)
(***************************************************************************)
LineKinds == {"entry", "irx", "other", "skip", "bare", "cut", "foreign"}
Line(kind, k, i, p) == [kind |-> kind, key |-> k, entry |-> i, path |-> p]

PathDevs == {"mc?", "mc0", "mc1", "mmce?", "mmce0", "mmce1", "mass", "isra", "cwd", "hdd", "", "$"}
            \cup Parties
Paths == [dev : PathDevs, file : FileNames, kelf : BOOLEAN]
Lines == [kind : LineKinds, key : 0 .. NumButtons, entry : 0 .. 2, path : Paths]

Unset  == [dev |-> "isra", file |-> "none", kelf |-> FALSE]
Rescue == [dev |-> "mass", file |-> "RESCUE.ELF", kelf |-> FALSE]

(* A string in freed memory that is no longer what was written there.      *)
Overwritten == [dev |-> "freed", file |-> "freed", kelf |-> FALSE]

ASSUME ButtonAssumption ==
  /\ NumButtons \in Nat /\ NumDefaults \in Nat
  /\ DefaultFirst \in Buttons /\ DefaultFirst + NumDefaults - 1 \in Buttons
  /\ Start \in Buttons /\ R1 \in Buttons /\ Start # R1
ASSUME SourceAssumption ==
  /\ Cardinality(DOMAIN Sources) \in Nat \ {0}
  /\ Sources \in [0 .. Cardinality(DOMAIN Sources) - 1 -> Paths]
  /\ HddSource \subseteq DOMAIN Sources
  /\ DOMAIN SecondSource \subseteq {"mc?", "mmce?"}
  /\ \A d \in DOMAIN SecondSource : SecondSource[d] \in DOMAIN Sources
ASSUME TableAssumption ==
  /\ DefaultPaths \in [0 .. NumDefaults -> [0 .. 2 -> Paths]]
  /\ Configs \subseteq Seq(Lines)
ASSUME PartyAssumption ==
  /\ Parties \cap {NoParty, "$", Overwritten.dev} = {}
  /\ {Unset.file, Rescue.file} \subseteq FileNames
  /\ \A f \in Files : f[1] # NoParty

VARIABLES
  held,       \* the buttons that are down on each pad
  present,    \* the files that can be opened
  pc,         \* where the program is
  expired,    \* whether the time of the current window has passed
  old_pad,    \* the buttons of the last edge-triggered reading
  x,          \* the next source to probe
  source,     \* config_source
  file, line, \* the text of the configuration, and where CNFBUFF points in it
  paths,      \* GLOBCFG.KEYPATHS, whose strings CheckPath overwrites
  bound,      \* history variable: the paths as they are configured
  key, j,     \* the row and the entry of KEYPATHS being tried
  sampled,    \* history variable: the reading that chose the row
  cur,        \* EXECPATHS[j], the path CheckPath returned
  part,       \* PART
  mounted,    \* the partition mounted on pfs0:
  pads,       \* pad_inited
  config_buf, \* whether the configuration's text is allocated
  cd,         \* whether libcdvd is initialised
  handed      \* what the console was handed to

envVars  == <<held, present>>
tryVars  == <<key, j, sampled>>
hddVars  == <<part, mounted>>
resVars  == <<pads, config_buf, cd>>
fileVars == <<file, line>>
cfgVars  == <<x, source, fileVars, bound>>
vars == <<envVars, pc, expired, old_pad, cfgVars, paths, tryVars, cur, hddVars, resVars, handed>>

Nobody == [via |-> "nobody", key |-> 0, path |-> Unset, party |-> NoParty]

-----------------------------------------------------------------------------
(* The user and the devices, until the program leaves the console or loops *)
(* for good in the credits.                                                *)

Done == pc \in {"handover", "credits"}

Press(p, b) ==
  /\ ~Done
  /\ held' = [held EXCEPT ![p] = IF b \in @ THEN @ \ {b} ELSE @ \cup {b}]
  /\ UNCHANGED <<present, pc, expired, old_pad, cfgVars, paths, tryVars, cur, hddVars, resVars, handed>>

Plug(f) ==
  /\ ~Done
  /\ present' = IF f \in present THEN present \ {f} ELSE present \cup {f}
  /\ UNCHANGED <<held, pc, expired, old_pad, cfgVars, paths, tryVars, cur, hddVars, resVars, handed>>

(* Timer() passes the end of the window that is running.                   *)
Expire ==
  /\ ~Done /\ ~expired /\ expired' = TRUE
  /\ UNCHANGED <<envVars, pc, old_pad, cfgVars, paths, tryVars, cur, hddVars, resVars, handed>>

-----------------------------------------------------------------------------
(* What the steps share.                                                   *)

(* exist: a path on a partition is opened as pfs:/..., whatever is mounted *)
Exists(p, m) == <<IF p.dev \in Parties THEN m ELSE p.dev, p.file>> \in present

(***************************************************************************)
(* CheckPath on a path with no command: the string it leaves behind.  The  *)
(* '?' of mc? and mmce? is overwritten with one slot if the file is there, *)
(* and with the other slot if it is not.  The first is meant to be the one *)
(* the configuration came from.  It is for mc?; but SOURCE_MMCE1 precedes  *)
(* SOURCE_MMCE0, and its place in CONFIG_PATHS is that of "mmce0:".        *)
(***************************************************************************)
Slots(d) == IF d = "mc?" THEN {"mc0", "mc1"} ELSE {"mmce0", "mmce1"}

FirstSlot(d, src) ==
  IF d = "mc?" THEN IF src = SecondSource[d] THEN "mc1" ELSE "mc0"
               ELSE IF src = SecondSource[d] THEN "mmce1" ELSE "mmce0"
SecondSlot(d, src) == CHOOSE s \in Slots(d) : s # FirstSlot(d, src)

Checked(p, src) ==
  IF p.dev \notin DOMAIN SecondSource THEN p
  ELSE [dev  |-> IF <<FirstSlot(p.dev, src), p.file>> \in present
                 THEN FirstSlot(p.dev, src) ELSE SecondSlot(p.dev, src),
        file |-> p.file, kelf |-> p.kelf]

(***************************************************************************)
(* MountParty: PART names the partition whether or not mnt could mount it, *)
(* and is cleared, with pfs0: left alone, for a path that has no partition.*)
(* A mount fails if something is mounted or the partition does not exist;  *)
(* mnt then unmounts, which works as no file is open, and tries once more. *)
(***************************************************************************)
PartyExists(d) == \E f \in present : f[1] = d

(* Mutant: what is mounted is not unmounted for the second attempt.        *)
MountOnce(p) ==
  IF p.dev \in Parties
  THEN /\ part' = p.dev
       /\ mounted' = IF mounted = NoParty /\ PartyExists(p.dev) THEN p.dev ELSE mounted
  ELSE UNCHANGED hddVars

Mount(p) ==
  IF p.dev \in Parties
  THEN /\ part' = p.dev
       /\ mounted' = IF PartyExists(p.dev) THEN p.dev ELSE NoParty
  ELSE /\ part' = IF p.dev = "hdd" THEN NoParty ELSE part
       /\ UNCHANGED mounted

(* CleanUp *)
CleanUp == pads' = FALSE /\ config_buf' = FALSE /\ cd' = FALSE

HandTo(via, p, party) ==
  /\ handed' = [via |-> via, key |-> key, path |-> p, party |-> party]
  /\ pc' = "handover"

(* One reading of the pads; those that do not answer report nothing.       *)
ReadRaw(R) == UNION {held[p] : p \in R}
ReadNew(R) == UNION {held[p] \ old_pad[p] : p \in R}

-----------------------------------------------------------------------------
(* The rescue window.                                                      *)

RescuePoll ==
  /\ pc = "rescue" /\ ~expired
  /\ \E R \in SUBSET PadPorts :
       /\ old_pad' = [p \in PadPorts |-> IF p \in R THEN held[p] ELSE old_pad[p]]
       /\ pc' = IF {R1, Start} \subseteq ReadNew(R) THEN "emergency" ELSE "rescue"
  /\ UNCHANGED <<envVars, expired, cfgVars, paths, tryVars, cur, hddVars, resVars, handed>>

(* Nothing reads old_pad after the window, so the model forgets it here.   *)
RescueEnds ==
  /\ pc = "rescue" /\ expired
  /\ pc' = "search" /\ old_pad' = [p \in PadPorts |-> {}]
  /\ UNCHANGED <<envVars, expired, cfgVars, paths, tryVars, cur, hddVars, resVars, handed>>

(* Mutants: nothing is cleaned up; the attempts end with the window.       *)
EmergencyNoCleanUp ==
  /\ pc = "emergency" /\ Exists(Rescue, NoParty)
  /\ HandTo("rescue", Rescue, NoParty)
  /\ UNCHANGED <<envVars, expired, old_pad, cfgVars, paths, tryVars, cur, hddVars, resVars>>

EmergencyInWindow ==
  /\ pc = "emergency" /\ Exists(Rescue, NoParty) /\ ~expired
  /\ CleanUp /\ HandTo("rescue", Rescue, NoParty)
  /\ UNCHANGED <<envVars, expired, old_pad, cfgVars, paths, tryVars, cur, hddVars>>

(* EMERGENCY, once a second *)
EmergencyTry ==
  /\ pc = "emergency"
  /\ Exists(Rescue, NoParty)
  /\ CleanUp /\ HandTo("rescue", Rescue, NoParty)
  /\ UNCHANGED <<envVars, expired, old_pad, cfgVars, paths, tryVars, cur, hddVars>>

-----------------------------------------------------------------------------
(* The configuration.                                                      *)

Probe ==
  /\ pc = "search"
  /\ Mount(Sources[x])
  /\ \/ /\ Exists(Checked(Sources[x], source), mounted')
        /\ source' = x /\ pc' = "parse" /\ UNCHANGED x
     \/ /\ ~Exists(Checked(Sources[x], source), mounted')
        /\ IF x = 0 THEN pc' = "defaults" /\ UNCHANGED x
                    ELSE pc' = "search" /\ x' = x - 1
        /\ UNCHANGED source
  /\ UNCHANGED <<envVars, expired, old_pad, fileVars, bound, paths, tryVars, cur, resVars, handed>>

AllUnset == [k \in 0 .. NumButtons |-> [i \in 0 .. 2 |-> Unset]]

(* What a file configures: the last line for an entry counts, as far as    *)
(* the file can be read.                                                   *)
Stops(l) == l.kind \in {"bare", "cut"}

Configured(f) ==
  LET read      == {n \in DOMAIN f : \A m \in 1 .. n : ~Stops(f[m])}
      sets(k, i) == {n \in read : f[n].kind = "entry" /\ f[n].key = k /\ f[n].entry = i}
  IN  [k \in 0 .. NumButtons |->
         [i \in 0 .. 2 |-> IF sets(k, i) = {} THEN Unset ELSE f[Max(sets(k, i))].path]]

Window == pc' = "window" /\ expired' = FALSE
Unmount == mounted' = IF source \in HddSource THEN NoParty ELSE mounted

(* The file is read, is cut short, or does not fit in memory: then it is   *)
(* not closed either, and its partition cannot be unmounted.               *)
ReadFile ==
  /\ pc = "parse"
  /\ \/ /\ file' \in Configs /\ line' = 1 /\ bound' = Configured(file')
        /\ config_buf' = TRUE /\ pc' = "lines" /\ UNCHANGED <<expired, mounted>>
     \/ config_buf' = TRUE /\ Unmount /\ Window /\ UNCHANGED <<fileVars, bound>>
     \/ Window /\ UNCHANGED <<config_buf, mounted, fileVars, bound>>
  /\ UNCHANGED <<envVars, old_pad, x, source, paths, tryVars, cur, part, pads, cd, handed>>

LineIs(kinds) == pc = "lines" /\ line <= Len(file) /\ file[line].kind \in kinds

(* Mutant: a later line does not replace an earlier one.                   *)
ParseEntryFirst ==
  /\ LineIs({"entry"}) /\ line' = line + 1
  /\ LET l == file[line] IN
       paths' = [paths EXCEPT ![l.key][l.entry] = IF @ = Unset THEN l.path ELSE @]
  /\ UNCHANGED <<envVars, pc, expired, old_pad, x, source, file, bound, tryVars, cur, hddVars, resVars, handed>>

ParseEntry ==
  /\ LineIs({"entry"}) /\ line' = line + 1
  /\ LET l == file[line] IN paths' = [paths EXCEPT ![l.key][l.entry] = l.path]
  /\ UNCHANGED <<envVars, pc, expired, old_pad, x, source, file, bound, tryVars, cur, hddVars, resVars, handed>>

(* A module is looked up and loaded at once, and may mount its partition.  *)
ParseModule ==
  /\ LineIs({"irx"}) /\ line' = line + 1
  /\ Mount(Checked(file[line].path, source))
  /\ UNCHANGED <<envVars, pc, expired, old_pad, x, source, file, bound, paths, tryVars, cur, resVars, handed>>

ParseOther ==
  /\ LineIs({"other", "skip"}) /\ line' = line + 1
  /\ UNCHANGED <<envVars, pc, expired, old_pad, x, source, file, bound, paths, tryVars, cur, hddVars, resVars, handed>>

(* A line with no '=' or no value ends the parsing as the end of the file  *)
(* does.  No step is taken on a foreign line: get_CNF_string stays in it.  *)
ParseEnds ==
  /\ pc = "lines" /\ (line > Len(file) \/ LineIs({"bare", "cut"}))
  /\ Unmount /\ Window
  /\ UNCHANGED <<envVars, old_pad, cfgVars, paths, tryVars, cur, part, resVars, handed>>

Defaults ==
  /\ pc = "defaults"
  /\ paths' = [k \in 0 .. NumButtons |->
                 [i \in 0 .. 2 |-> IF k <= NumDefaults
                                   THEN Checked(DefaultPaths[k][i], source) ELSE Unset]]
  /\ bound' = [k \in 0 .. NumButtons |->
                 [i \in 0 .. 2 |-> IF k <= NumDefaults THEN DefaultPaths[k][i] ELSE Unset]]
  /\ Window
  /\ UNCHANGED <<envVars, old_pad, x, source, fileVars, tryVars, cur, hddVars, resVars, handed>>

-----------------------------------------------------------------------------
(* The key window and the AUTO entries.                                    *)

(* The pad bits the loop looks at, and the button whose path a row holds.  *)
NumRows == IF source = NoSource THEN NumDefaults ELSE NumButtons
ButtonOf(k) == IF source = NoSource THEN DefaultFirst + k - 1 ELSE k

(* Mutants: the mask does not start at L2; the loop goes on after a match. *)
KeyPollNoOffset ==
  /\ pc = "window" /\ ~expired
  /\ \E R \in SUBSET PadPorts :
       LET pressed == (1 .. NumRows) \cap ReadRaw(R) IN
         /\ pressed # {}
         /\ key' = Min(pressed) /\ j' = 0 /\ sampled' = ReadRaw(R)
  /\ pc' = "resolve"
  /\ UNCHANGED <<envVars, expired, old_pad, cfgVars, paths, cur, hddVars, resVars, handed>>

KeyPollLast ==
  /\ pc = "window" /\ ~expired
  /\ \E R \in SUBSET PadPorts :
       LET pressed == {k \in 1 .. NumRows : ButtonOf(k) \in ReadRaw(R)} IN
         /\ pressed # {}
         /\ key' = Max(pressed) /\ j' = 0 /\ sampled' = ReadRaw(R)
  /\ pc' = "resolve"
  /\ UNCHANGED <<envVars, expired, old_pad, cfgVars, paths, cur, hddVars, resVars, handed>>

KeyPoll ==
  /\ pc = "window" /\ ~expired
  /\ \E R \in SUBSET PadPorts :
       LET pressed == {k \in 1 .. NumRows : ButtonOf(k) \in ReadRaw(R)} IN
         /\ pressed # {}
         /\ key' = Min(pressed) /\ j' = 0 /\ sampled' = ReadRaw(R)
  /\ pc' = "resolve"
  /\ UNCHANGED <<envVars, expired, old_pad, cfgVars, paths, cur, hddVars, resVars, handed>>

WindowEnds ==
  /\ pc = "window" /\ expired
  /\ key' = 0 /\ j' = 0 /\ sampled' = {} /\ pc' = "resolve"
  /\ UNCHANGED <<envVars, expired, old_pad, cfgVars, paths, cur, hddVars, resVars, handed>>

(* CheckPath(KEYPATHS[key][j]) on a path: the string is changed in place.  *)
CheckFile ==
  /\ pc = "resolve" /\ paths[key][j].dev # "$"
  /\ LET p == Checked(paths[key][j], source) IN
       /\ paths' = [paths EXCEPT ![key][j] = p]
       /\ cur' = p
       /\ Mount(p)
       /\ IF p.kelf THEN HandTo("kelf", p, NoParty) /\ pads' = FALSE
                    ELSE pc' = "exist" /\ UNCHANGED <<handed, pads>>
  /\ UNCHANGED <<envVars, expired, old_pad, cfgVars, tryVars, config_buf, cd>>

(* and on a command, some of which come back with the command itself       *)
CheckCommand ==
  /\ pc = "resolve" /\ paths[key][j].dev = "$"
  /\ cur' = paths[key][j]
  /\ LET c == paths[key][j].file IN
       \/ c = "CDVD" /\ pc' = "disc" /\ UNCHANGED <<resVars, handed>>
       \/ c = "CREDITS" /\ pc' = "credits" /\ UNCHANGED <<resVars, handed>>
       \/ c = "HDDCHECKER" /\ pc' = "exist" /\ UNCHANGED <<resVars, handed>>
       \/ c = "OSDSYS" /\ CleanUp /\ HandTo("osdsys", cur', NoParty)
  /\ UNCHANGED <<envVars, expired, old_pad, cfgVars, paths, tryVars, hddVars>>

(* A disc is inserted: it is booted, or its handler returns an error.      *)
DiscBoots ==
  /\ pc = "disc"
  /\ CleanUp /\ HandTo("disc", cur, NoParty)
  /\ UNCHANGED <<envVars, expired, old_pad, cfgVars, paths, tryVars, cur, hddVars>>

(* Mutant: the handler cleans up before it knows that the disc boots.      *)
DiscFailsClean ==
  /\ pc = "disc"
  /\ pc' = "exist" /\ CleanUp
  /\ UNCHANGED <<envVars, expired, old_pad, cfgVars, paths, tryVars, cur, hddVars, handed>>

DiscFails ==
  /\ pc = "disc"
  /\ pc' = "exist"
  /\ UNCHANGED <<envVars, expired, old_pad, cfgVars, paths, tryVars, cur, hddVars, resVars, handed>>

Launch ==
  /\ pc = "exist" /\ Exists(cur, mounted)
  /\ CleanUp /\ pc' = "load"
  /\ UNCHANGED <<envVars, expired, old_pad, cfgVars, paths, tryVars, cur, hddVars, handed>>

(***************************************************************************)
(* RunLoaderElf(EXECPATHS[j], MPART), after CleanUp.  A configured path is *)
(* a string in the text that has just been freed: what is read there may   *)
(* be the path still, or what has been written over it.  The default paths *)
(* and the path of an entry that is not set are constants of the program.  *)
(***************************************************************************)
InConfig(k, i) == source # NoSource /\ bound[k][i] # Unset

RunLoaderElf ==
  /\ pc = "load"
  /\ \/ HandTo("elf", cur, part)
     \/ InConfig(key, j) /\ HandTo("elf", Overwritten, part)
  /\ UNCHANGED <<envVars, expired, old_pad, cfgVars, paths, tryVars, cur, hddVars, resVars>>

(* Mutants: a fourth entry is tried; the window opens again after AUTO.    *)
NotFoundFourth ==
  /\ pc = "exist" /\ ~Exists(cur, mounted)
  /\ IF j < 3 THEN j' = j + 1 /\ pc' = "resolve"
     ELSE j' = 0 /\ pc' = (IF key = 0 THEN "end" ELSE "window")
  /\ UNCHANGED <<envVars, expired, old_pad, cfgVars, paths, key, sampled, cur, hddVars, resVars, handed>>

NotFoundAgain ==
  /\ pc = "exist" /\ ~Exists(cur, mounted)
  /\ IF j < 2 THEN j' = j + 1 /\ pc' = "resolve" ELSE j' = 0 /\ pc' = "window"
  /\ UNCHANGED <<envVars, expired, old_pad, cfgVars, paths, key, sampled, cur, hddVars, resVars, handed>>

NotFound ==
  /\ pc = "exist" /\ ~Exists(cur, mounted)
  /\ IF j < 2 THEN j' = j + 1 /\ pc' = "resolve"
     ELSE j' = 0 /\ pc' = (IF key = 0 THEN "end" ELSE "window")
  /\ UNCHANGED <<envVars, expired, old_pad, cfgVars, paths, key, sampled, cur, hddVars, resVars, handed>>

(* Mutant: the end polls for newly pressed buttons, as the rescue window.  *)
EndPollNew ==
  /\ pc = "end"
  /\ \E R \in SUBSET PadPorts :
       /\ old_pad' = [p \in PadPorts |-> IF p \in R THEN held[p] ELSE old_pad[p]]
       /\ pc' = IF {R1, Start} \subseteq ReadNew(R) THEN "emergency" ELSE "end"
  /\ UNCHANGED <<envVars, expired, cfgVars, paths, tryVars, cur, hddVars, resVars, handed>>

(* The loop at the end of main, once a second *)
EndPoll ==
  /\ pc = "end"
  /\ \E R \in SUBSET PadPorts : {R1, Start} \subseteq ReadRaw(R)
  /\ pc' = "emergency"
  /\ UNCHANGED <<envVars, expired, old_pad, cfgVars, paths, tryVars, cur, hddVars, resVars, handed>>

-----------------------------------------------------------------------------

Init ==
  /\ held \in [PadPorts -> {{}, {R1, Start}}] /\ present \in SUBSET Files
  /\ pc = "rescue" /\ expired = FALSE /\ old_pad = [p \in PadPorts |-> {}]
  /\ x = Cardinality(DOMAIN Sources) - 1 /\ source = NoSource
  /\ file = <<>> /\ line = 1
  /\ paths = AllUnset /\ bound = AllUnset
  /\ key = 0 /\ j = 0 /\ sampled = {} /\ cur = Unset
  /\ part = NoParty /\ mounted = NoParty
  /\ pads = TRUE /\ config_buf = FALSE /\ cd = TRUE
  /\ handed = Nobody

Environment ==
  \/ \E p \in PadPorts, b \in Buttons : Press(p, b)
  \/ \E f \in Files : Plug(f)

Program ==
  \/ RescuePoll \/ RescueEnds \/ EmergencyTry
  \/ Probe \/ ReadFile \/ Defaults
  \/ ParseEntry \/ ParseModule \/ ParseOther \/ ParseEnds
  \/ KeyPoll \/ WindowEnds \/ CheckFile \/ CheckCommand
  \/ Launch \/ RunLoaderElf \/ NotFound \/ EndPoll

Disc == DiscBoots \/ DiscFails

Stopped == Done /\ UNCHANGED vars

Next == Environment \/ Expire \/ Program \/ Disc \/ Stopped

Spec == Init /\ [][Next]_vars

(***************************************************************************)
(* The program takes its next step, and time passes.  No user presses a    *)
(* button, no device appears and no disc is inserted for certain.          *)
(***************************************************************************)
FairSpec == Spec /\ WF_vars(Program) /\ WF_vars(Expire)

-----------------------------------------------------------------------------

Tables == [0 .. NumButtons -> [0 .. 2 -> Paths]]

TypeOK ==
  /\ held \in [PadPorts -> SUBSET Buttons] /\ present \subseteq Files
  /\ old_pad \in [PadPorts -> SUBSET Buttons] /\ sampled \subseteq Buttons
  /\ pc \in {"rescue", "emergency", "search", "parse", "lines", "defaults", "window",
             "resolve", "exist", "disc", "load", "credits", "end", "handover"}
  /\ x \in DOMAIN Sources /\ source \in DOMAIN Sources \cup {NoSource}
  /\ file \in Configs \cup {<<>>} /\ line \in 1 .. Len(file) + 1
  /\ paths \in Tables /\ bound \in Tables /\ cur \in Paths
  /\ key \in 0 .. NumButtons /\ j \in 0 .. 2
  /\ part \in Parties \cup {NoParty} /\ mounted \in Parties \cup {NoParty}
  /\ {expired, pads, config_buf, cd} \subseteq BOOLEAN
  /\ handed.via \in {"nobody", "elf", "kelf", "osdsys", "disc", "rescue"}

(***************************************************************************)
(* While main polls the pads they are open, and while it looks up and      *)
(* tries the paths of KEYPATHS the text of the configuration they point    *)
(* into is allocated, whatever was tried before and came back (CleanUp     *)
(* closes and frees both).  The one use of a path that this leaves out is  *)
(* the last: at "load" RunLoaderElf reads it when its text has been freed. *)
(***************************************************************************)
ResourcesHeld ==
  /\ pc \in {"rescue", "window", "end"} => pads
  /\ pc = "lines" => config_buf
  /\ pc \in {"resolve", "exist", "disc"} /\ bound # AllUnset /\ source # NoSource => config_buf

(***************************************************************************)
(* Every way out closes the pads; all but $RUNKELF: also leave libcdvd and *)
(* free the configuration.                                                 *)
(***************************************************************************)
HandoverIsClean ==
  handed # Nobody => /\ ~pads
                     /\ handed.via # "kelf" => ~cd /\ ~config_buf

(***************************************************************************)
(* What is started is what the user bound to the key that was down: the    *)
(* first of the buttons down that the loop looks at, with the paths of the *)
(* last lines for it in the configuration or, at the other offset, among   *)
(* the default paths; and the AUTO entries only when the window has passed.*)
(* Of a path from the configuration, which is freed before it is read, the *)
(* loader may find something else; of a default path, or of any path that  *)
(* is not started by RunLoaderElf, never.                                  *)
(***************************************************************************)
SameFile(p, b) ==
  p.file = b.file /\ (p.dev = b.dev \/ (b.dev \in DOMAIN SecondSource /\ p.dev \in Slots(b.dev)))

LaunchIsBound ==
  handed.via \in {"elf", "kelf", "osdsys", "disc"} =>
    /\ \/ SameFile(handed.path, bound[handed.key][j])
       \/ handed.via = "elf" /\ InConfig(handed.key, j) /\ handed.path = Overwritten
    /\ IF handed.key = 0 THEN expired
       ELSE /\ ButtonOf(handed.key) \in sampled
            /\ \A k \in 1 .. handed.key - 1 : ButtonOf(k) \notin sampled

(***************************************************************************)
(* A program on the hard disk is started from the partition its path       *)
(* CheckPath returned names, and is told that one, though PART and pfs0:   *)
(* are shared by every path that was checked before.                       *)
(***************************************************************************)
PartitionIsOwn ==
  handed.via = "elf" /\ cur.dev \in Parties => handed.party = cur.dev /\ mounted = cur.dev

(***************************************************************************)
(* The boot comes to rest: it hands over, waits for a disc, shows the      *)
(* credits, is in the rescue mode or polls for it at the end of main.      *)
(***************************************************************************)
BootSettles ==
  <>[](pc \in {"handover", "disc", "credits", "emergency", "end"})

(***************************************************************************)
(* It does so without going in circles.  Once the time of a window is over *)
(* every step of main and of a disc's handler leaves less to do: sources   *)
(* to probe, lines to read, paths of a key or of AUTO to try.  Within the  *)
(* key window a step may start over, with the paths of a key.              *)
(***************************************************************************)
Trying == pc \in {"resolve", "exist", "disc"}

Stage ==
  CASE pc = "rescue"               -> 9
    [] pc = "search"               -> 8
    [] pc \in {"parse", "defaults"} -> 7
    [] pc = "lines"                -> 6
    [] Trying /\ key # 0           -> 5
    [] pc = "window"               -> 4
    [] Trying /\ key = 0           -> 3
    [] pc = "end"                  -> 2
    [] pc = "emergency"            -> 1
    [] OTHER                       -> 0

LeftInStage ==
  CASE pc = "search"  -> x
    [] pc = "lines"   -> Len(file) + 1 - line
    [] pc = "resolve" -> 3 * (2 - j) + 2
    [] pc = "disc"    -> 3 * (2 - j) + 1
    [] pc = "exist"   -> 3 * (2 - j)
    [] pc = "load"    -> 1
    [] OTHER          -> 0

LeavesLess == Stage' < Stage \/ (Stage' = Stage /\ LeftInStage' < LeftInStage)

BootAdvances ==
  [][Program \/ Disc => LeavesLess \/ (pc \in {"rescue", "window"} /\ ~expired)]_vars

(***************************************************************************)
(* "We must skip a comment line": the parsing of a configuration ends,     *)
(* whatever its comments say.                                              *)
(***************************************************************************)
CommentsAreSkipped == []<>(pc # "lines")

(***************************************************************************)
(* "press R1+START to enter emergency mode": holding both at the end of    *)
(* main leads there; and "doing infinite attempts to boot": a RESCUE.ELF   *)
(* that stays is started.                                                  *)
(***************************************************************************)
EmergencyIsReachable ==
  []<>~(pc = "end" /\ {R1, Start} \subseteq ReadRaw(PadPorts))

RescueIsStarted ==
  []<>~(pc = "emergency" /\ Exists(Rescue, NoParty))

=============================================================================
