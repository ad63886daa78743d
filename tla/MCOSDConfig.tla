---------------------------- MODULE MCOSDConfig ----------------------------
(* TLC instances of OSDConfig.                                             *)
EXTENDS OSDConfig

Console(r, o, l, m, d) == [rom |-> r, osd |-> o, lang |-> l, mecha |-> m, data |-> d]
Says(l, n)    == [ps1 |-> "zero", osd |-> l, lang |-> n, mg |-> l]
Plain(r, o, n) == Console(r, o, n, FALSE, Cold.RegionData)

(* Consoles whose OSDVER names a language of their region, and two others. *)
Named   == {Plain("J", "J", "jpn"), Plain("A", "A", "eng"), Plain("A", "H", "eng")}
Unnamed == {Plain("A", "A", "xxx"), Plain("J", "none", "xxx")}

(* No OSDVER, or one that names the region, or one that leaves it to the   *)
(* MECHACON, which may not know or may answer something unheard of.        *)
AnyConsole ==
  {Console(r, o, n, m, Says(l, n)) : r \in {"A", "C", "E", "H", "J", "X"},
     o \in {"none", "?", "X", "A", "J", "K"}, l \in {"A", "H", "J", "R", "X"},
     n \in {"jpn", "eng", "kor", "rus", "xxx"}, m \in BOOLEAN}
  \cup {Console("none", "?", "eng", FALSE, Says("A", "eng"))}

AllConsoles == Named \cup Unnamed \cup AnyConsole

(* The unknown timezones come with a PlayStation setting whose undefined   *)
(* bits are not all 0.                                                     *)
SomeBlocks ==
  {[ps1drv |-> IF z = 144 THEN {0, 3} ELSE {4}, unused |-> 7, language |-> l, japLanguage |-> j, extendedLanguage |-> e, version |-> 1, timezone |-> z,
    screenType |-> s, osdInit |-> 0, unknownB13_01 |-> 5] :
     l \in {0, 1, 9}, j \in {0, 1}, e \in {0, 1}, z \in {5, 144}, s \in {1, 3}}

(* The five consoles have any block, and their settings are changed; any   *)
(* console has one block and keeps it.                                     *)
Few == Named \cup Unnamed

OneBlock == [ps1drv |-> {4}, unused |-> 7, language |-> 0, japLanguage |-> 1, extendedLanguage |-> 1, version |-> 1, timezone |-> 5,
             screenType |-> 1, osdInit |-> 0, unknownB13_01 |-> 5]

(* Smooth textures, and all bits of the byte.                              *)
SomePSConfigs == {{4}, 0 .. 7}

MCInit == Init /\ (console \in Few \/ nvm = OneBlock)
MCNext == Next /\ (console \in Few \/ sets' = sets)
MCSpec == MCInit /\ [][MCNext]_vars
=============================================================================
