---------------------------- MODULE MCOSDRegion ----------------------------
(* TLC instance of OSDRegion: an export console whose OSDVER names no      *)
(* language of the program's list.                                         *)
EXTENDS OSDRegion

OneConsole == {[rom |-> "A", osd |-> "A", lang |-> "xxx", mecha |-> FALSE, data |-> Cold.RegionData]}
=============================================================================
