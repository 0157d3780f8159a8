----------------------------- MODULE ServiceUnit -----------------------------
(***************************************************************************)
(* "Generate service unit": ServiceUnitButton                              *)
(* (web/admin/src/ServiceUnitButton.tsx), which shows the unit and writes  *)
(* it once confirmed, with the handlers it calls                           *)
(* (internal/admin/admin_service_unit.go, internal/deploy/                 *)
(* service_unit.go).  The unit is rendered anew when it is written; no     *)
(* lock is held over the steps of a request.                               *)
(*                                                                         *)
(* One unit file, and the applications that name it.  Service names are    *)
(* unique, but with and without the suffix .service two of them are one    *)
(* unit.  An administrator of the machine may write or remove the file by  *)
(* hand.                                                                   *)
(***************************************************************************)
EXTENDS Naturals

CONSTANTS
  Sharing,              \* The applications whose service names are this unit.
  Absent, ByHand, Torn, \* No file, one without the marker, one half written.
  NoUnit,
  MaxUnitActs           \* Bound: what operators and the administrator do.

Units == [app : Sharing, version : 0 .. MaxUnitActs]

ASSUME UnitAssumption ==
  /\ MaxUnitActs \in Nat
  /\ {Absent, ByHand, Torn, NoUnit} \cap Units = {}
  /\ Absent \notin {ByHand, Torn} /\ ByHand # Torn

VARIABLES
  version,    \* The settings of each application: how often they were saved.
  file, loaded, enabled,   \* On the machine: the file, and systemd.
  dialog,     \* unit: what each application's dialog shows.
  previews, applies,       \* The requests, one of each kind at a time.
  told,       \* What the operator had reviewed of the last apply that succeeded.
  muddled,    \* Whose unit may not be the reviewed one, see ReviewedIsLoaded.
  kept,       \* The file was written by hand with no apply between check and write.
  unitActs    \* Counts towards MaxUnitActs.

machineVars == <<file, loaded, enabled>>
unitVars == <<version, machineVars, dialog, previews, applies, told, muddled, kept, unitActs>>

Idle == [at |-> "no", unit |-> NoUnit, reviewed |-> NoUnit]

UnitInit ==
  /\ version = [a \in Sharing |-> 0]
  /\ file \in {Absent, ByHand} /\ loaded = file /\ enabled = FALSE
  /\ dialog = [a \in Sharing |-> NoUnit]
  /\ previews = [a \in Sharing |-> Idle] /\ applies = [a \in Sharing |-> Idle]
  /\ told = NoUnit /\ muddled = {} /\ kept = (file = ByHand) /\ unitActs = 0

UnitAct == unitActs < MaxUnitActs /\ unitActs' = unitActs + 1

(* The variables and arguments are left out when they cannot be read,      *)
(* which muddled records in place of what is left out.                     *)
Render(a) == [app |-> a, version |-> version[a]]

-----------------------------------------------------------------------------
(* The preview.                                                            *)

Preview(a) ==
  /\ dialog[a] = NoUnit /\ previews[a] = Idle /\ UnitAct
  /\ previews' = [previews EXCEPT ![a].at = "sent"]
  /\ muddled' = IF applies[a] = Idle THEN muddled \ {a} ELSE muddled
  /\ UNCHANGED <<version, machineVars, dialog, applies, told, kept>>

ServePreview(a) ==
  /\ previews[a].at = "sent"
  /\ \/ \E runtime \in BOOLEAN :
          /\ previews' = [previews EXCEPT ![a].at = "done", ![a].unit = Render(a)]
          /\ muddled' = IF runtime THEN muddled ELSE muddled \cup {a}
     \/ previews' = [previews EXCEPT ![a].at = "failed"] /\ UNCHANGED muddled
  /\ UNCHANGED <<version, machineVars, dialog, applies, told, kept, unitActs>>

PreviewArrives(a) ==
  /\ previews[a].at \in {"done", "failed"}
  /\ previews' = [previews EXCEPT ![a] = Idle]
  /\ dialog' = IF previews[a].at = "done" THEN [dialog EXCEPT ![a] = previews[a].unit] ELSE dialog
  /\ UNCHANGED <<version, machineVars, applies, told, muddled, kept, unitActs>>

(* Also while the unit is being written.                                   *)
CloseUnit(a) ==
  /\ dialog[a] # NoUnit /\ dialog' = [dialog EXCEPT ![a] = NoUnit]
  /\ UNCHANGED <<version, machineVars, previews, applies, told, muddled, kept, unitActs>>

-----------------------------------------------------------------------------
(* ApplyServiceUnit.                                                       *)

Reach(a, at) == applies' = [applies EXCEPT ![a].at = at]
InApply == {a \in Sharing : applies[a].at \in {"read", "written", "reloaded"}}

Confirm(a) ==
  /\ dialog[a] # NoUnit /\ applies[a] = Idle
  /\ applies' = [applies EXCEPT ![a] = [at |-> "sent", unit |-> NoUnit, reviewed |-> dialog[a]]]
  /\ UNCHANGED <<version, machineVars, dialog, previews, told, muddled, kept, unitActs>>

(* Variant: a file that is there is not looked at.                         *)
ReadUnitUnseen(a) ==
  /\ applies[a].at = "sent"
  /\ \E runtime \in BOOLEAN :
       /\ applies' = [applies EXCEPT ![a].at = "read", ![a].unit = Render(a)]
       /\ muddled' = muddled \cup (IF runtime THEN {} ELSE {a})
                       \cup (IF InApply # {} THEN InApply \cup {a} ELSE {})
  /\ UNCHANGED <<version, machineVars, dialog, previews, told, kept, unitActs>>

(* A file without the marker is refused.  What is left of a file of our    *)
(* own whose writing failed has the marker, if its first line was written, *)
(* or it is refused too.                                                   *)
ReadUnit(a) ==
  /\ applies[a].at = "sent"
  /\ \/ /\ file # ByHand
        /\ \E runtime \in BOOLEAN :
             /\ applies' = [applies EXCEPT ![a].at = "read", ![a].unit = Render(a)]
             /\ muddled' = muddled \cup (IF runtime THEN {} ELSE {a})
                             \cup (IF InApply # {} THEN InApply \cup {a} ELSE {})
     \/ Reach(a, "failed") /\ UNCHANGED muddled
  /\ UNCHANGED <<version, machineVars, dialog, previews, told, kept, unitActs>>

(* Variant: an error of the write is not looked at.                        *)
WriteUnitAnyway(a) ==
  /\ applies[a].at = "read" /\ told' = NoUnit
  /\ Reach(a, "written") /\ file' \in {applies[a].unit, file, Torn}
  /\ UNCHANGED <<version, loaded, enabled, dialog, previews, muddled, kept, unitActs>>

WriteUnit(a) ==
  /\ applies[a].at = "read" /\ told' = NoUnit
  /\ \/ Reach(a, "written") /\ file' = applies[a].unit
     \/ Reach(a, "failed") /\ file' \in {file, Torn}
  /\ UNCHANGED <<version, loaded, enabled, dialog, previews, muddled, kept, unitActs>>

ReloadUnits(a) ==
  /\ applies[a].at = "written"
  /\ \/ Reach(a, "reloaded") /\ loaded' = file
     \/ Reach(a, "failed") /\ UNCHANGED loaded
  /\ UNCHANGED <<version, file, enabled, dialog, previews, told, muddled, kept, unitActs>>

EnableUnit(a) ==
  /\ applies[a].at = "reloaded"
  /\ \/ /\ Reach(a, "done") /\ enabled' = TRUE
        /\ told' = IF a \in muddled THEN NoUnit ELSE applies[a].reviewed
     \/ Reach(a, "failed") /\ UNCHANGED <<enabled, told>>
  /\ UNCHANGED <<version, file, loaded, dialog, previews, muddled, kept, unitActs>>

(* Success closes the dialog, also one that was opened since.              *)
Applied(a) ==
  /\ applies[a].at \in {"done", "failed"}
  /\ applies' = [applies EXCEPT ![a] = Idle]
  /\ dialog' = IF applies[a].at = "done" THEN [dialog EXCEPT ![a] = NoUnit] ELSE dialog
  /\ UNCHANGED <<version, machineVars, previews, told, muddled, kept, unitActs>>

-----------------------------------------------------------------------------
(* What others do meanwhile.                                               *)

SaveSettings(a) ==
  /\ UnitAct /\ version' = [version EXCEPT ![a] = @ + 1]
  /\ muddled' = IF dialog[a] # NoUnit \/ previews[a] # Idle \/ applies[a] # Idle
                THEN muddled \cup {a} ELSE muddled
  /\ UNCHANGED <<machineVars, dialog, previews, applies, told, kept>>

(* What is written between the check and the write of an apply is lost.    *)
WriteByHand ==
  /\ UnitAct /\ file' = ByHand /\ told' = NoUnit
  /\ kept' = \A a \in Sharing : applies[a].at # "read"
  /\ muddled' = muddled \cup InApply
  /\ UNCHANGED <<version, loaded, enabled, dialog, previews, applies>>

RemoveByHand ==
  /\ UnitAct /\ file' = Absent /\ told' = NoUnit /\ kept' = FALSE
  /\ muddled' = muddled \cup InApply
  /\ UNCHANGED <<version, loaded, enabled, dialog, previews, applies>>

UnitNext ==
  \/ \E a \in Sharing :
       \/ Preview(a) \/ ServePreview(a) \/ PreviewArrives(a) \/ CloseUnit(a)
       \/ Confirm(a) \/ ReadUnit(a) \/ WriteUnit(a) \/ ReloadUnits(a) \/ EnableUnit(a)
       \/ Applied(a) \/ SaveSettings(a)
  \/ WriteByHand \/ RemoveByHand

-----------------------------------------------------------------------------

UnitTypeOK ==
  LET Maybe == Units \cup {NoUnit}
      Requests == [at : {"no", "sent", "read", "written", "reloaded", "done", "failed"},
                   unit : Maybe, reviewed : Maybe]
  IN  /\ version \in [Sharing -> 0 .. MaxUnitActs] /\ unitActs \in 0 .. MaxUnitActs
      /\ {file, loaded} \subseteq Units \cup {Absent, ByHand, Torn}
      /\ dialog \in [Sharing -> Maybe] /\ told \in Maybe
      /\ {previews, applies} \subseteq [Sharing -> Requests]
      /\ muddled \subseteq Sharing /\ {enabled, kept} \subseteq BOOLEAN

(***************************************************************************)
(* PreviewServiceUnit's comment: nothing is applied that was not shown.    *)
(* After an apply that succeeded, the file and systemd have the unit that  *)
(* was reviewed, as long as nobody changed the settings between the two,   *)
(* both could read the variables and arguments, and no other apply or hand *)
(* was at the file meanwhile; muddled excludes these, and each of them can *)
(* indeed put another unit in place than the one that was confirmed.       *)
(***************************************************************************)
ReviewedIsLoaded ==
  told # NoUnit => file = told /\ loaded = told /\ enabled

(***************************************************************************)
(* errRefuseOverwrite: a unit written by hand stays, whichever             *)
(* applications name it and however many are being applied, unless it was  *)
(* put there between the check and the write of one.                       *)
(***************************************************************************)
HandWrittenIsKept == kept => file = ByHand

=============================================================================
