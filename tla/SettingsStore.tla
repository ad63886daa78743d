--------------------------- MODULE SettingsStore ---------------------------
(***************************************************************************)
(* What OSDConfig.c promises of the settings: they are in the EEPROM, and  *)
(* in memory once they are loaded; a save stores what is in memory and     *)
(* carries over the rest, a load finds all that was stored, and nothing    *)
(* else touches the EEPROM.  The PlayStation setting is the exception: it  *)
(* is a byte with two defined bits, of which the EEPROM gets only those.   *)
(* OSDConfig implements it with bit fields, caches and an old format.      *)
(***************************************************************************)
EXTENDS Naturals

CONSTANTS
  Settings,     \* records of settings, one of them ps1drv, a set of bits
  Defined,      \* the bits of ps1drv that have a meaning
  Nothing       \* no settings in memory

VARIABLES
  stored,       \* the EEPROM: the settings, whether they are valid, the bits of ps1drv
                \* that have no meaning, and what else it holds
  memory        \* the settings in memory, or Nothing

storeVars == <<stored, memory>>

Load == memory' = stored.settings /\ UNCHANGED stored

(* One setting is changed, whatever may be done to choose its value.       *)
Change ==
  /\ memory # Nothing /\ memory' \in Settings
  /\ \E field \in DOMAIN memory : \A other \in DOMAIN memory \ {field} : memory'[other] = memory[other]
  /\ UNCHANGED stored

Save(valid) ==
  /\ memory # Nothing
  /\ stored' = [settings |-> [memory EXCEPT !.ps1drv = @ \cap Defined], valid |-> valid,
                 others |-> stored.others, undefined |-> {}]
  /\ UNCHANGED memory

Lose == memory' = Nothing /\ UNCHANGED stored

Init == stored.settings \in Settings /\ stored.valid \in 0 .. 1 /\ memory = Nothing
Next == Load \/ Change \/ Lose \/ \E valid \in 0 .. 1 : Save(valid)
Spec == Init /\ [][Next]_storeVars
=============================================================================
