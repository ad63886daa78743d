--------------------------- MODULE MCHistorySave ---------------------------
(* TLC instances of HistorySave: the cards that are in the slots at first. *)
EXTENDS HistorySave, TLC

CONSTANTS
  Past,   \* a game launched before the first run
  Fewer   \* the games that a behaviour with failures launches

Blanks(k) == [i \in 0 .. k - 1 |-> Table!Wiped]
Played == [Blanks(MaxEntries) EXCEPT ![0] = Table!NewRecord(Past, 1)]

Fresh   == [kind |-> "usable", folder |-> FALSE, history |-> NoFile,
            archive |-> {}, icon |-> "absent"]
None    == [Fresh EXCEPT !.kind = "none"]
Used    == [Fresh EXCEPT !.folder = TRUE, !.history = Played, !.icon = "written"]
Torn    == [Used EXCEPT !.history = << >>]
Refused == [Fresh EXCEPT !.kind = "refused"]
RefusedUsed == [Used EXCEPT !.kind = "refused"]

Pair(a, b) == (0 :> a) @@ (1 :> b)
Pairs(s) == {Pair(a, b) : a, b \in s}

AnyCards    == Pairs({None, Fresh, Used, Torn, Refused, RefusedUsed})
OneRefuses  == {Pair(RefusedUsed, Fresh)}

(* A failure needs no more than two games to do its worst, a table that    *)
(* is full needs one more than it has slots.                               *)
MCNext == Next /\ (faults' > 0 => {game'} \cup recorded' \subseteq Fewer)
MCSpec == Init /\ [][MCNext]_vars
=============================================================================
