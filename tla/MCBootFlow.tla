----------------------------- MODULE MCBootFlow -----------------------------
(* TLC instances of BootFlow: small configurations, and their files.       *)
EXTENDS BootFlow, TLC

Path(d, f)     == [dev |-> d, file |-> f, kelf |-> FALSE]
Command(c)     == Path("$", c)
Kelf(d, f)     == [dev |-> d, file |-> f, kelf |-> TRUE]
Row(a, b, c)   == (0 :> a) @@ (1 :> b) @@ (2 :> c)
Entry(k, i, p) == Line("entry", k, i, p)
Other(kind)    == Line(kind, 0, 0, Unset)

(* The buttons are START, L2 and R1; L2 and R1 have default paths.         *)
Defaults3 ==
  (0 :> Row(Path("mc?", "ULE"), Unset, Path("mass", "BOOT"))) @@
  (1 :> Row(Path("mc?", "OPL"), Unset, Unset)) @@
  (2 :> Row(Path("mass", "RESCUE.ELF"), Path("mc?", "ULE"), Unset))

(* The hard disk has the configuration on its own partition.               *)
AllSources == (0 :> Path("mc0", "INI")) @@ (1 :> Path("mc1", "INI")) @@ (2 :> Path("sysconf", "INI"))
              @@ (3 :> Path("mmce0", "INI")) @@ (4 :> Path("mmce1", "INI")) @@ (5 :> Path("cwd", "INI"))
HddIndex   == {2}
Second     == ("mc?" :> 1) @@ ("mmce?" :> 3)
AllFiles   == {<<"mc1", "INI">>, <<"mc0", "ULE">>, <<"mass", "RESCUE.ELF">>,
               <<"sysconf", "INI">>, <<"sysconf", "ULE">>, <<"games", "ULE">>}

CardText ==
  <<Other("skip"), Entry(0, 0, Path("mass", "BOOT")), Entry(0, 1, Path("mc?", "ULE")),
    Entry(0, 2, Command("CREDITS")), Entry(1, 0, Command("CDVD")), Entry(1, 1, Command("OSDSYS")),
    Entry(2, 1, Path("mass", "RESCUE.ELF")), Entry(2, 1, Path("mc?", "ULE")),
    Entry(3, 0, Path("mmce?", "ULE")), Entry(3, 1, Command("HDDCHECKER")),
    Entry(3, 2, Kelf("mc?", "ULE")), Other("bare"), Entry(2, 0, Path("mass", "RESCUE.ELF"))>>

HddText ==
  <<Line("irx", 0, 0, Path("games", "IRX")), Entry(0, 0, Path("games", "ULE")),
    Entry(0, 1, Path("hdd", "ULE")), Entry(0, 2, Path("sysconf", "ULE")),
    Entry(1, 0, Path("sysconf", "OPL")), Entry(1, 1, Path("games", "OPL")),
    Entry(1, 2, Path("games", "ULE")), Other("other"),
    Entry(2, 0, Path("sysconf", "ULE")), Entry(2, 1, Kelf("games", "ULE")),
    Entry(2, 2, Path("", "")), Other("cut")>>

Texts == {CardText, HddText}

(* Nobody takes a configuration away after the search for it: nothing      *)
(* would read it again.  (A partition vanishes with the last of its files, *)
(* which for "sysconf" is then its other one only if it had no INI.)       *)
Settled == {f \in AllFiles : f[2] = "INI"}
MCNext  == Next /\ (pc \in {"rescue", "search"} \/ present \cap Settled = present' \cap Settled)
MCSpec  == Init /\ [][MCNext]_vars /\ WF_vars(Program) /\ WF_vars(Expire)

(* A comment in a language that is not written in ASCII.                   *)
CommentText == {<<Other("skip"), Other("foreign"), Entry(0, 0, Path("mass", "BOOT"))>>}
CardFiles   == {<<"mc1", "INI">>, <<"mass", "BOOT">>}
=============================================================================
