--------------------------- MODULE SettingsValues ----------------------------
(***************************************************************************)
(* The values of the settings file of settings.go: the update switch and   *)
(* one other field, whose values stand for all the others.                 *)
(***************************************************************************)
CONSTANTS
  Panels,       \* values of the other setting
  Default,      \* its default
  None,         \* no switch is waiting to be applied
  Missing,      \* no settings file
  Damaged       \* a settings file that does not parse or validate

ASSUME DefaultAssumption == Default \in Panels
ASSUME MarksAssumption ==
  /\ None \notin BOOLEAN
  /\ Missing # Damaged
  /\ {Missing, Damaged} \cap [check : BOOLEAN, panel : Panels] = {}

Settings == [check : BOOLEAN, panel : Panels]
Defaults == [check |-> TRUE, panel |-> Default]
=============================================================================
