--------------------------- MODULE MCDiscHandler ---------------------------
(* TLC instances of DiscHandler.  One of the PlayStation 2 discs has an ID *)
(* in SYSTEM.CNF that is not the drive's, and two have IDs that differ in  *)
(* the last character alone.                                               *)
EXTENDS DiscHandler

Disc(k, n, b, l) == [kind |-> k, id |-> n, boot2 |-> b, lines |-> l]

Ps1Game  == Disc("ps1", "SLPS_1", "none", <<"other", "other">>)
Ps2Game  == Disc("ps2", "SLPS_2.1", "SLPS_2.1", <<"BOOT2", "other">>)
Ps2Twin  == Disc("ps2", "SLPS_2.2", "SLPS_2.2", <<"BOOT2">>)
Ps2Other == Disc("ps2", "SLPS_3", "SLPS_3", <<"other", "BOOT2">>)
Ps2Copy  == Disc("ps2", "SLPS_4", "SLPS_2.1", <<"BOOT2">>)
Ps2Empty == Disc("ps2", "SLPS_5", "none", << >>)
Ps2Short == Disc("ps2", "SLPS_6", "none", <<"other">>)
Ps2Late  == Disc("ps2", "SLPS_7", "SLPS_7", <<"other", "other", "BOOT2">>)
Movie    == Disc("dvd", "none", "none", << >>)
Audio    == Disc("cdda", "none", "none", << >>)

AllDiscs == {Ps1Game, Ps2Game, Ps2Twin, Ps2Other, Ps2Copy, Ps2Empty, Ps2Short, Movie, Audio}
Ps1Discs == {Ps1Game}
LateDisc == {Ps2Late}
Movies   == {Movie}

GameNames == {"none", "SLPS_1", "SLPS_2.1", "SLPS_2.2"} \cup {"SLPS_3", "SLPS_4", "SLPS_5", "SLPS_6", "SLPS_7"}
Stems == [n \in GameNames |-> IF n \in {"SLPS_2.1", "SLPS_2.2"} THEN "SLPS_2." ELSE n]

(* Players, in the ROM of a console and on a card.                         *)
Id(a, b, r)  == [major |-> a, minor |-> b, dot |-> TRUE, region |-> r]
NoDot        == [major |-> 3, minor |-> 0, dot |-> FALSE, region |-> "none"]
Rom(i, t)    == [id |-> i, text |-> t]
Card(i, t, e) == [id |-> i, text |-> t, elf |-> e]

Console(l, a, b, e) == [letter |-> l, local |-> a, plain |-> b, early |-> e]

Lettered == Console("E", Rom(Id(2, 1, "E"), "rom"), NoFile, FALSE)
Old      == Console("nul", NoFile, Rom(Id(2, 1, "J"), "rom"), FALSE)
Unclear  == Console("unknown", NoFile, Rom(NoDot, "rom"), FALSE)
First    == Console("unknown", NoFile, NoFile, TRUE)
Bare     == Console("nul", NoFile, NoFile, FALSE)
OneConsole  == {Lettered}
OldConsole  == {Old}
AllConsoles == {Lettered, Old, Unclear, First, Bare}

Empty    == Card(NoFile, NoFile, FALSE)
NewMajor == Card(Id(3, 0, "E"), "3.0", TRUE)
NewMinor == Card(Id(2, 2, "E"), "2.2", TRUE)
SameOne  == Card(Id(2, 1, "E"), "2.1", TRUE)
OldMinor == Card(Id(1, 9, "E"), "1.9", TRUE)
NoElf    == Card(Id(3, 1, "E"), "3.1", FALSE)
NoText   == Card(Id(3, 2, "E"), NoFile, TRUE)
Dotless  == Card(NoDot, "3.3", TRUE)
NoCards  == {Empty}
AllCards == {Empty, NewMajor, NewMinor, SameOne, OldMinor, NoElf, NoText, Dotless}

(* The choice of a player matters to DVDs only, and is tried with one that *)
(* stays in the drive; the other discs with one console without cards.     *)
OneDvd   == drive = Movie /\ ~trayEject
Plain(c) == console = Lettered /\ c = [p \in Ports |-> Empty]
MCInit == Init /\ (OneDvd \/ Plain(cards))
MCNext == Next /\ (upsets' > 0 => drive' = Movie /\ ~trayEject /\ changes' = 0)
               /\ (changes' > 0 => upsets' = 0 /\ Plain(cards'))
MCSpec == MCInit /\ [][MCNext]_vars /\ WF_vars(Program) /\ WF_vars(AlarmCallback)
=============================================================================
