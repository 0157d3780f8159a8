---------------------------- MODULE AppFormPage ----------------------------
(***************************************************************************)
(* AppForm (web/admin/src/AppForm.tsx), the form that edits or registers   *)
(* an application.                                                         *)
(*                                                                         *)
(* An application is stored in three parts, each with requests of its own. *)
(* The form asks for all three when it opens and again whenever the router *)
(* renders, because the effect depends on navigate and the router makes    *)
(* that anew; what comes replaces what the operator typed.  A submission   *)
(* saves the parts one after the other and nothing disables its button.    *)
(***************************************************************************)
EXTENDS Naturals

CONSTANTS
  PartValues, Blank, \* What each part can be; Blank is an empty editor.
  Saved,          \* What an application may be when the form opens.
  MaxEdits, MaxSubmits, MaxRenders   \* Bounds.

Parts == {"app", "env", "args"}
Contents == {c \in [Parts -> (UNION {PartValues[part] : part \in Parts}) \cup {Blank}] :
               \A part \in Parts : c[part] \in PartValues[part] \cup {Blank}}

ASSUME FormAssumption ==
  /\ Blank \notin UNION {PartValues[part] : part \in Parts}
  /\ Saved \subseteq {c \in Contents : c["app"] # Blank}
  /\ {MaxEdits, MaxSubmits, MaxRenders} \subseteq Nat

VARIABLES
  editing,    \* The form has an id.
  view,       \* "form", "created" with the webhook snippet, or "left".
  stored,     \* On the server.
  form,       \* The fields, envText and argsText.
  formLoads,  \* Parts that were asked for.
  submits,    \* The submissions that run.
  done,       \* What the submission that ended the form had sent.
  edits, sent, renders,   \* Count towards the bounds.
  opened,     \* What was stored when the form opened.
  filled,     \* Parts whose stored value was put into the form.
  touched,    \* Parts the operator edited.
  early,      \* Parts that were submitted before they were filled.
  clashed     \* Two submissions ran at once.

historyOfForm == <<opened, filled, touched, early, clashed>>
counts == <<edits, sent, renders>>
formVars == <<editing, view, form, formLoads, submits, done, stored, counts, historyOfForm>>

Empty == [part \in Parts |-> Blank]

(* Typing into a new application's form meets nothing else: it starts with *)
(* whatever was typed.                                                     *)
FormInit ==
  /\ editing \in BOOLEAN /\ view = "form"
  /\ stored \in IF editing THEN Saved ELSE {Empty}
  /\ form \in IF editing THEN {Empty} ELSE Contents
  /\ submits = {} /\ done = Empty
  /\ formLoads = IF editing THEN Parts ELSE {}
  /\ edits = 0 /\ sent = 0 /\ renders = 0
  /\ opened = stored /\ filled = {} /\ touched = {part \in Parts : form[part] # Blank}
  /\ early = {} /\ clashed = FALSE

-----------------------------------------------------------------------------
(* Loading.  Two requests for a part that wait together are one, and an    *)
(* answer carries what is stored when it arrives.                          *)

PartArrives(part) ==
  /\ view = "form" /\ formLoads' = formLoads \ {part}
  /\ form' = [form EXCEPT ![part] = stored[part]]
  /\ filled' = filled \cup {part}
  /\ UNCHANGED <<editing, view, submits, done, stored, counts,
                 opened, touched, early, clashed>>

(* Variant: an error empties the editor.                                   *)
PartFailsToEmpty(part) ==
  /\ view = "form" /\ formLoads' = formLoads \ {part}
  /\ view' = IF part = "app" THEN "left" ELSE view
  /\ form' = [form EXCEPT ![part] = Blank]
  /\ UNCHANGED <<editing, submits, done, stored, counts, historyOfForm>>

(* Without the application there is no form; the editors stay as they are. *)
PartFails(part) ==
  /\ view = "form" /\ formLoads' = formLoads \ {part}
  /\ view' = IF part = "app" THEN "left" ELSE view
  /\ UNCHANGED <<editing, form, submits, done, stored, counts, historyOfForm>>

(* A message appears or is dismissed: the effect runs again.               *)
RouterRenders ==
  /\ renders < MaxRenders /\ renders' = renders + 1
  /\ formLoads' = IF editing THEN Parts ELSE formLoads

Dismiss ==
  /\ view = "form" /\ RouterRenders
  /\ UNCHANGED <<editing, view, form, submits, done, stored, edits, sent, historyOfForm>>

-----------------------------------------------------------------------------
(* Editing and submitting.                                                 *)

Edit(part, value) ==
  /\ view = "form" /\ edits < MaxEdits /\ edits' = edits + 1
  /\ value # form[part] /\ form' = [form EXCEPT ![part] = value]
  /\ touched' = touched \cup {part}
  /\ UNCHANGED <<editing, view, formLoads, submits, done, stored, sent, renders,
                 opened, filled, early, clashed>>

(* The fields of the application are required.                             *)
Submit ==
  /\ view = "form" /\ sent < MaxSubmits /\ sent' = sent + 1
  /\ form["app"] # Blank
  /\ submits' = submits \cup {[id |-> sent', body |-> form, at |-> "app"]}
  /\ clashed' = (clashed \/ submits # {})
  /\ early' = IF editing THEN early \cup (Parts \ filled) ELSE early
  /\ UNCHANGED <<editing, view, form, formLoads, done, stored, edits, renders,
                 opened, filled, touched>>

(* A new application's empty editors are not saved.                        *)
After(s) ==
  IF s.at = "app" /\ (editing \/ s.body["env"] # Blank) THEN "env"
  ELSE IF s.at # "args" /\ (editing \/ s.body["args"] # Blank) THEN "args"
  ELSE "end"

(* The last answer leaves an edit form and shows a new one's snippet.      *)
Proceed(s) ==
  LET next == After(s)
  IN  IF next = "end"
      THEN /\ submits' = submits \ {s}
           /\ IF view = "form"
              THEN view' = (IF editing THEN "left" ELSE "created") /\ done' = s.body
              ELSE UNCHANGED <<view, done>>
      ELSE /\ submits' = (submits \ {s}) \cup {[s EXCEPT !.at = next]}
           /\ UNCHANGED <<view, done>>

(* A second application of one binary path, service name or secret is      *)
(* refused.                                                                *)
AlreadyThere(s) == s.at = "app" /\ ~editing /\ stored["app"] # Blank

SavePart(s) ==
  /\ ~AlreadyThere(s)
  /\ stored' = [stored EXCEPT ![s.at] = s.body[s.at]]
  /\ Proceed(s)
  /\ UNCHANGED <<editing, form, formLoads, counts, historyOfForm>>

(* Variant: an error of an editor's request does not end the submission.   *)
SaveFailsSoftly(s) ==
  /\ IF s.at = "env" THEN Proceed(s)
                     ELSE submits' = submits \ {s} /\ UNCHANGED <<view, done>>
  /\ \/ UNCHANGED stored
     \/ ~AlreadyThere(s) /\ stored' = [stored EXCEPT ![s.at] = s.body[s.at]]
  /\ UNCHANGED <<editing, form, formLoads, counts, historyOfForm>>

(* An error ends the submission where it is, whether or not the server had *)
(* saved the part before the answer was lost.                              *)
SaveFails(s) ==
  /\ submits' = submits \ {s}
  /\ \/ UNCHANGED stored
     \/ ~AlreadyThere(s) /\ stored' = [stored EXCEPT ![s.at] = s.body[s.at]]
  /\ UNCHANGED <<editing, view, form, formLoads, done, counts, historyOfForm>>

DismissSnippet ==
  /\ view = "created" /\ view' = "left"
  /\ UNCHANGED <<editing, form, formLoads, submits, done, stored, counts, historyOfForm>>

FormNext ==
  \/ \E part \in formLoads : PartArrives(part) \/ PartFails(part)
  \/ \E part \in Parts : \E value \in PartValues[part] \cup {Blank} : Edit(part, value)
  \/ Dismiss \/ Submit \/ DismissSnippet
  \/ \E s \in submits : SavePart(s) \/ SaveFails(s)

-----------------------------------------------------------------------------

FormTypeOK ==
  /\ editing \in BOOLEAN /\ view \in {"form", "created", "left"}
  /\ stored \in Contents /\ form \in Contents /\ done \in Contents /\ opened \in Contents
  /\ formLoads \subseteq Parts
  /\ submits \subseteq [id : 1 .. MaxSubmits, body : Contents, at : Parts]
  /\ edits \in 0 .. MaxEdits /\ sent \in 0 .. MaxSubmits /\ renders \in 0 .. MaxRenders
  /\ filled \cup touched \cup early \subseteq Parts /\ clashed \in BOOLEAN

(***************************************************************************)
(* The form is left with "App updated", or replaced by the snippet of a    *)
(* new application, only when all three parts are stored as they were      *)
(* submitted; an error in between keeps the form.  Two submissions at once *)
(* may mix.                                                                *)
(***************************************************************************)
DoneMeansSaved == done # Empty /\ ~clashed => stored = done

(***************************************************************************)
(* An editor that nobody touched and that was filled before the form was   *)
(* submitted does not change what is stored, however often the form is     *)
(* loaded again and fails to.  One submitted before it was filled wipes    *)
(* its part, which early excludes.                                         *)
(***************************************************************************)
UntouchedIsKept ==
  \A part \in Parts \ (touched \cup early) : stored[part] = opened[part]

=============================================================================
