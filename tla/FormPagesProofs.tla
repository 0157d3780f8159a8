-------------------------- MODULE FormPagesProofs ---------------------------
(***************************************************************************)
(* The invariants of the pages that are filled in and saved: the form of   *)
(* an application, the account, the tokens and the service unit, and of    *)
(* the registry they change; for any number of submissions, renderings,    *)
(* operators, saves, edits by hand, writes and webhooks.                   *)
(***************************************************************************)
EXTENDS AppFormPage, AccountPages, TokenSettings, ServiceUnit, AppRegistry, TLAPS

-----------------------------------------------------------------------------
(* The form.                                                               *)

Submissions == [id : 1 .. MaxSubmits, body : Contents, at : Parts]

(* While one submission runs, what it has passed is stored as it sent it,  *)
(* and of a new application nothing else is stored.                        *)
PassedIsStored ==
  ~clashed =>
    /\ \A s, t \in submits : s = t
    /\ \A s \in submits : /\ s.body["app"] # Blank
                          /\ s.at # "app" => stored["app"] = s.body["app"]
                          /\ s.at = "args" => stored["env"] = s.body["env"]
                          /\ ~editing /\ s.at = "env" => stored["args"] = Blank
    /\ ~editing /\ stored["app"] = Blank => stored = Empty
    /\ done # Empty => submits = {} /\ view # "form" /\ stored = done

(* What the operator left alone is everywhere what it was.                 *)
LeftAlone ==
  /\ \A part \in Parts \ (touched \cup early) :
       /\ stored[part] = opened[part]
       /\ \A s \in submits : s.body[part] = opened[part]
       /\ editing /\ part \in filled => form[part] = opened[part]
       /\ ~editing => form[part] = Blank /\ opened[part] = Blank
  /\ ~editing => formLoads = {}

FormInv == FormTypeOK /\ PassedIsStored /\ LeftAlone

LEMMA ValuesOfPart ==
  ASSUME NEW part \in Parts, NEW v \in PartValues[part] \cup {Blank}
  PROVE  v \in (UNION {PartValues[p] : p \in Parts}) \cup {Blank}
<1>1. CASE v = Blank
  BY <1>1
<1>2. CASE v \in PartValues[part]
  <2>1. PartValues[part] \in {PartValues[p] : p \in Parts}
    OBVIOUS
  <2> QED BY <1>2, <2>1
<1> QED BY <1>1, <1>2

LEMMA ContentsFacts ==
  ASSUME NEW c \in Contents
  PROVE  /\ c = [part \in Parts |-> c[part]]
         /\ \A part \in Parts : c[part] \in PartValues[part] \cup {Blank}
         /\ \A part \in Parts : \A v \in PartValues[part] \cup {Blank} : [c EXCEPT ![part] = v] \in Contents
<1>1. /\ c \in [Parts -> (UNION {PartValues[part] : part \in Parts}) \cup {Blank}]
      /\ \A part \in Parts : c[part] \in PartValues[part] \cup {Blank}
  BY DEF Contents
<1>2. ASSUME NEW part \in Parts, NEW v \in PartValues[part] \cup {Blank}
      PROVE  [c EXCEPT ![part] = v] \in Contents
  <2> DEFINE d == [c EXCEPT ![part] = v]
  <2>1. d \in [Parts -> (UNION {PartValues[p] : p \in Parts}) \cup {Blank}]
    BY <1>1, ValuesOfPart
  <2>2. \A p \in Parts : d[p] \in PartValues[p] \cup {Blank}
    BY <1>1
  <2> QED BY <2>1, <2>2 DEF Contents
<1> QED BY <1>1, <1>2

LEMMA EmptyContents == Empty \in Contents
<1>1. \A part \in Parts : Empty[part] = Blank
  BY DEF Empty
<1>2. Empty \in [Parts -> (UNION {PartValues[part] : part \in Parts}) \cup {Blank}]
  BY ValuesOfPart DEF Empty
<1> QED BY <1>1, <1>2 DEF Contents

LEMMA FormBounds == MaxEdits \in Nat /\ MaxSubmits \in Nat /\ MaxRenders \in Nat
  BY FormAssumption

LEMMA FormInitInv == FormInit => FormInv
<1> SUFFICES ASSUME FormInit PROVE FormInv
  OBVIOUS
<1>1. stored \in Contents /\ form \in Contents /\ (~editing => stored = Empty)
  <2>1. CASE editing
    BY <2>1, EmptyContents, FormAssumption DEF FormInit
  <2>2. CASE ~editing
    BY <2>2, EmptyContents DEF FormInit
  <2> QED BY <2>1, <2>2
<1>2. FormTypeOK
  <2>1. /\ editing \in BOOLEAN /\ view \in {"form", "created", "left"}
        /\ formLoads \subseteq Parts /\ submits \subseteq Submissions
        /\ filled \cup touched \cup early \subseteq Parts /\ clashed \in BOOLEAN
    BY DEF FormInit
  <2>2. edits \in 0 .. MaxEdits /\ sent \in 0 .. MaxSubmits /\ renders \in 0 .. MaxRenders
    BY FormBounds DEF FormInit
  <2> QED BY <1>1, <2>1, <2>2, EmptyContents DEF FormInit, FormTypeOK, Submissions
<1>3. PassedIsStored
  BY <1>1 DEF FormInit, PassedIsStored
<1>4. LeftAlone
  <2>1. \A part \in Parts \ touched : form[part] = Blank
    BY DEF FormInit
  <2> QED BY <1>1, <2>1 DEF FormInit, LeftAlone, Empty
<1> QED BY <1>2, <1>3, <1>4 DEF FormInv

LEMMA DoneFromInv == FormInv => DoneMeansSaved
  BY DEF FormInv, PassedIsStored, DoneMeansSaved

LEMMA KeptFromInv == FormInv => UntouchedIsKept
  BY DEF FormInv, LeftAlone, UntouchedIsKept

LEMMA FormStep == FormInv /\ [FormNext]_formVars => FormInv'
<1> SUFFICES ASSUME FormInv, [FormNext]_formVars PROVE FormInv'
  OBVIOUS
<1>0. FormTypeOK /\ PassedIsStored /\ LeftAlone
  BY DEF FormInv
<1>1. ASSUME NEW part \in formLoads, PartArrives(part) PROVE FormInv'
  <2>1. part \in Parts /\ form' = [form EXCEPT ![part] = stored[part]]
    BY <1>0, <1>1 DEF PartArrives, FormTypeOK
  <2>2. form' \in Contents
    BY <1>0, <2>1, ContentsFacts DEF FormTypeOK
  <2>3. FormTypeOK' /\ PassedIsStored'
    BY <1>0, <1>1, <2>2 DEF PartArrives, counts, FormTypeOK, PassedIsStored
  <2>4. LeftAlone'
    <3>1. form'[part] = stored[part] /\ \A p \in Parts \ {part} : form'[p] = form[p]
      BY <1>0, <2>1, ContentsFacts DEF FormTypeOK
    <3>2. editing
      BY <1>0 DEF LeftAlone
    <3> QED BY <1>0, <1>1, <3>1, <3>2 DEF PartArrives, LeftAlone
  <2> QED BY <2>3, <2>4 DEF FormInv
<1>2. ASSUME NEW part \in formLoads, PartFails(part) PROVE FormInv'
  BY <1>0, <1>2 DEF PartFails, counts, historyOfForm, FormInv, FormTypeOK, PassedIsStored, LeftAlone
<1>3. ASSUME NEW part \in Parts, NEW value \in PartValues[part] \cup {Blank}, Edit(part, value)
      PROVE FormInv'
  <2>1. form' \in Contents /\ \A p \in Parts \ {part} : form'[p] = form[p]
    BY <1>0, <1>3, ContentsFacts DEF Edit, FormTypeOK
  <2>2. FormTypeOK' /\ PassedIsStored'
    BY <1>0, <1>3, <2>1, FormBounds DEF Edit, FormTypeOK, PassedIsStored
  <2>3. LeftAlone'
    BY <1>0, <1>3, <2>1 DEF Edit, LeftAlone
  <2> QED BY <2>2, <2>3 DEF FormInv
<1>4. CASE Dismiss
  <2>1. FormTypeOK'
    BY <1>0, <1>4, FormBounds DEF Dismiss, RouterRenders, historyOfForm, FormTypeOK
  <2> QED BY <1>0, <1>4, <2>1 DEF Dismiss, RouterRenders, historyOfForm, FormInv, PassedIsStored, LeftAlone
<1>5. CASE Submit
  <2> DEFINE new == [id |-> sent + 1, body |-> form, at |-> "app"]
  <2>1. submits' = submits \cup {new} /\ new \in Submissions /\ sent + 1 \in 1 .. MaxSubmits
    BY <1>0, <1>5, FormBounds DEF Submit, FormTypeOK, Submissions, Parts
  <2>2. clashed' \in BOOLEAN /\ early' \subseteq Parts
    BY <1>0, <1>5 DEF Submit, FormTypeOK
  <2>3. FormTypeOK'
    BY <1>0, <1>5, <2>1, <2>2 DEF Submit, FormTypeOK, Submissions
  <2>4. PassedIsStored'
    <3> SUFFICES ASSUME ~clashed' PROVE PassedIsStored'
      BY DEF PassedIsStored
    <3>1. ~clashed /\ submits' = {new} /\ UNCHANGED <<editing, stored, done, view>>
      BY <1>5, <2>1 DEF Submit
    <3>2. done = Empty /\ form["app"] # Blank
      BY <1>0, <1>5, <3>1 DEF Submit, PassedIsStored
    <3> QED BY <1>0, <3>1, <3>2 DEF PassedIsStored
  <2>5. LeftAlone'
    BY <1>0, <1>5, <2>1 DEF Submit, LeftAlone
  <2> QED BY <2>3, <2>4, <2>5 DEF FormInv
<1>6. CASE DismissSnippet
  BY <1>0, <1>6 DEF DismissSnippet, counts, historyOfForm, FormInv, FormTypeOK, PassedIsStored, LeftAlone
<1>7. ASSUME NEW s \in submits, SavePart(s) PROVE FormInv'
  <2>1. s \in Submissions /\ s.at \in Parts /\ s.body \in Contents
    BY <1>0 DEF FormTypeOK, Submissions
  <2>2. /\ stored' \in Contents /\ stored'[s.at] = s.body[s.at]
        /\ \A p \in Parts \ {s.at} : stored'[p] = stored[p]
    BY <1>0, <1>7, <2>1, ContentsFacts DEF SavePart, FormTypeOK
  <2>3. UNCHANGED <<editing, form, formLoads, counts, historyOfForm>> /\ Proceed(s) /\ ~AlreadyThere(s)
    BY <1>7 DEF SavePart
  <2>4. \/ /\ After(s) = "end" /\ submits' = submits \ {s}
           /\ \/ view = "form" /\ view' \in {"left", "created"} /\ done' = s.body
              \/ view # "form" /\ view' = view /\ done' = done
        \/ /\ After(s) # "end" /\ submits' = (submits \ {s}) \cup {[s EXCEPT !.at = After(s)]}
           /\ view' = view /\ done' = done
    BY <2>3 DEF Proceed
  <2>5. /\ After(s) \in {"env", "args", "end"}
        /\ After(s) = "env" => s.at = "app"
        /\ After(s) = "args" => s.at # "args" /\ (s.at = "app" => ~editing /\ s.body["env"] = Blank)
        /\ After(s) = "end" /\ s.at = "app" => ~editing /\ s.body["env"] = Blank /\ s.body["args"] = Blank
        /\ After(s) = "end" /\ s.at = "env" => ~editing /\ s.body["args"] = Blank
    <3>1. CASE s.at = "app"
      BY <3>1 DEF After
    <3>2. CASE s.at = "env"
      BY <3>2 DEF After
    <3>3. CASE s.at = "args"
      BY <3>3 DEF After
    <3> QED BY <2>1, <3>1, <3>2, <3>3 DEF Parts
  <2>6. After(s) # "end" => [s EXCEPT !.at = After(s)] = [id |-> s.id, body |-> s.body, at |-> After(s)]
    BY <2>1 DEF Submissions
  <2>7. FormTypeOK'
    <3>1. submits' \subseteq Submissions
      BY <1>0, <2>1, <2>4, <2>5, <2>6 DEF FormTypeOK, Submissions, Parts
    <3>2. view' \in {"form", "created", "left"} /\ done' \in Contents
      BY <1>0, <2>1, <2>4 DEF FormTypeOK
    <3> QED BY <1>0, <2>2, <2>3, <3>1, <3>2 DEF FormTypeOK, Submissions, counts, historyOfForm
  <2>8. PassedIsStored'
    <3> SUFFICES ASSUME ~clashed PROVE PassedIsStored'
      BY <2>3 DEF historyOfForm, PassedIsStored
    <3>1. submits = {s} /\ done = Empty /\ s.body["app"] # Blank
      BY <1>0 DEF PassedIsStored
    <3>2. ~editing /\ s.at = "app" => stored = Empty
      BY <1>0, <2>3 DEF AlreadyThere, PassedIsStored
    <3>3. stored'["app"] = s.body["app"]
      BY <1>0, <2>1, <2>2 DEF PassedIsStored, Parts
    <3>4. s.at # "app" => stored'["env"] = s.body["env"]
      BY <1>0, <2>1, <2>2 DEF PassedIsStored, Parts
    <3>5. ~editing /\ s.at = "app" => stored'["env"] = Blank /\ stored'["args"] = Blank
      BY <2>2, <3>2 DEF Empty, Parts
    <3>6. ~editing /\ s.at = "env" => stored'["args"] = Blank
      BY <1>0, <2>2 DEF PassedIsStored, Parts
    <3>7. CASE After(s) = "end"
      <4>1. \A p \in Parts : stored'[p] = s.body[p]
        BY <2>1, <2>2, <2>5, <3>3, <3>4, <3>5, <3>6, <3>7 DEF Parts
      <4>2. stored' = s.body
        BY <2>1, <2>2, <4>1, ContentsFacts
      <4> QED BY <2>3, <2>4, <3>1, <3>3, <3>7, <4>2 DEF PassedIsStored
    <3>8. CASE After(s) # "end"
      <4>1. submits' = {[id |-> s.id, body |-> s.body, at |-> After(s)]} /\ done' = Empty
        BY <2>4, <2>6, <3>1, <3>8
      <4> QED BY <2>3, <2>5, <3>1, <3>3, <3>4, <3>5, <4>1, <3>8 DEF PassedIsStored
    <3> QED BY <3>7, <3>8
  <2>9. LeftAlone'
    <3>1. \A t \in submits' : \E u \in submits : t.body = u.body
      BY <2>4, <2>6
    <3>2. UNCHANGED <<editing, form, formLoads, opened, filled, touched, early>>
      BY <2>3 DEF historyOfForm
    <3>3. ASSUME NEW p \in Parts \ (touched \cup early) PROVE stored'[p] = opened[p]
      BY <1>0, <2>2, <3>3 DEF LeftAlone
    <3> QED BY <1>0, <3>1, <3>2, <3>3 DEF LeftAlone
  <2> QED BY <2>7, <2>8, <2>9 DEF FormInv
<1>8. ASSUME NEW s \in submits, SaveFails(s) PROVE FormInv'
  <2>1. s.at \in Parts /\ s.body \in Contents
    BY <1>0 DEF FormTypeOK, Submissions
  <2>2. /\ submits' = submits \ {s}
        /\ UNCHANGED <<editing, view, form, formLoads, done, counts, historyOfForm>>
    BY <1>8 DEF SaveFails
  <2> DEFINE put == [stored EXCEPT ![s.at] = s.body[s.at]]
  <2>0. /\ put \in Contents /\ put[s.at] = s.body[s.at]
        /\ \A p \in Parts \ {s.at} : put[p] = stored[p]
    BY <1>0, <2>1, ContentsFacts DEF FormTypeOK
  <2>3. \/ stored' = stored
        \/ /\ ~AlreadyThere(s) /\ stored' \in Contents /\ stored'[s.at] = s.body[s.at]
           /\ \A p \in Parts \ {s.at} : stored'[p] = stored[p]
    BY <1>8, <2>0 DEF SaveFails
  <2>4. FormTypeOK'
    <3>1. stored' \in Contents
      BY <1>0, <2>3 DEF FormTypeOK
    <3> QED BY <1>0, <2>2, <3>1 DEF FormTypeOK, counts, historyOfForm
  <2>5. PassedIsStored'
    <3> SUFFICES ASSUME ~clashed PROVE PassedIsStored'
      BY <2>2 DEF historyOfForm, PassedIsStored
    <3>1. submits = {s} /\ submits' = {} /\ done = Empty /\ done' = Empty /\ s.body["app"] # Blank
      BY <1>0, <2>2 DEF PassedIsStored
    <3>2. ~editing /\ stored'["app"] = Blank => stored' = Empty
      BY <1>0, <2>1, <2>3, <3>1 DEF PassedIsStored, Parts
    <3> QED BY <2>2, <3>1, <3>2 DEF PassedIsStored
  <2>6. LeftAlone'
    <3>1. UNCHANGED <<editing, form, formLoads, opened, filled, touched, early>>
      BY <2>2 DEF historyOfForm
    <3>2. ASSUME NEW p \in Parts \ (touched \cup early) PROVE stored'[p] = opened[p]
      BY <1>0, <2>3, <3>2 DEF LeftAlone
    <3> QED BY <1>0, <2>2, <3>1, <3>2 DEF LeftAlone
  <2> QED BY <2>4, <2>5, <2>6 DEF FormInv
<1>9. CASE UNCHANGED formVars
  BY <1>0, <1>9 DEF formVars, counts, historyOfForm, FormInv, FormTypeOK, PassedIsStored, LeftAlone
<1> QED BY <1>1, <1>2, <1>3, <1>4, <1>5, <1>6, <1>7, <1>8, <1>9 DEF FormNext

-----------------------------------------------------------------------------
(* The account.                                                            *)

(* A served answer may be old, but the seeded password never comes back:   *)
(* an answer that says it is replaced stays true.                          *)
ReplacedForGood ==
  /\ account # NoAccount /\ ~account.must => ~user.must
  /\ \A p \in accountProbes : p.served => p.answer \in Users /\ (~p.answer.must => ~user.must)

AccountInv == AccountTypeOK /\ ReplacedForGood

LEMMA AccountInitInv == AccountInit => AccountInv
<1> SUFFICES ASSUME AccountInit PROVE AccountInv
  OBVIOUS
<1>1. {accountLoaded, accepted} \subseteq BOOLEAN /\ busy \subseteq Forms /\ changesSent \in 0 .. MaxChanges
  <2>1. accountLoaded = FALSE /\ accepted = FALSE
    BY DEF AccountInit
  <2>2. 0 \in 0 .. MaxChanges
    BY AccountAssumption
  <2> QED BY <2>1, <2>2 DEF AccountInit
<1>2. accountProbes \subseteq [served : BOOLEAN, answer : Users \cup {NoAccount}]
  BY DEF AccountInit, NewProbe
<1>3. user \in Users /\ account \in Users \cup {NoAccount} /\ changes = {}
  BY AccountAssumption DEF AccountInit, Users
<1>4. AccountTypeOK
  BY <1>1, <1>2, <1>3 DEF AccountTypeOK
<1>5. ReplacedForGood
  BY DEF AccountInit, ReplacedForGood, NewProbe
<1> QED BY <1>4, <1>5 DEF AccountInv

LEMMA GateFromInv == AccountInv => GateHolds
  BY DEF AccountInv, AccountTypeOK, ReplacedForGood, GateHolds, Screen, Users

LEMMA AccountStep == AccountInv /\ [AccountNext]_accountVars => AccountInv'
<1> SUFFICES ASSUME AccountInv, [AccountNext]_accountVars PROVE AccountInv'
  OBVIOUS
<1> USE DEF AccountInv, AccountTypeOK, ReplacedForGood, Users, accountVars
<1>1. ASSUME NEW p \in accountProbes, ServeAccount(p) PROVE AccountInv'
  <2>1. [served |-> TRUE, answer |-> user] \in [served : BOOLEAN, answer : Users \cup {NoAccount}]
    OBVIOUS
  <2> QED BY <1>1, <2>1 DEF ServeAccount
<1>2. ASSUME NEW p \in accountProbes, AccountArrives(p) PROVE AccountInv'
  <2>1. accepted' \in BOOLEAN /\ accountLoaded' \in BOOLEAN
    BY <1>2 DEF AccountArrives
  <2> QED BY <1>2, <2>1, AccountAssumption DEF AccountArrives
<1>3. ASSUME NEW f \in Forms, NEW name \in Names, SubmitForm(f, name) PROVE AccountInv'
  <2>1. changesSent' \in 0 .. MaxChanges
    BY <1>3, AccountAssumption DEF SubmitForm
  <2>2. changes' \subseteq [form : Forms, name : Names, answer : {"none", "ok", "error"}]
    BY <1>3 DEF SubmitForm
  <2> QED BY <1>3, <2>1, <2>2 DEF SubmitForm
<1>4. ASSUME NEW c \in changes, ServeChange(c) PROVE AccountInv'
  <2>1. changes' \subseteq [form : Forms, name : Names, answer : {"none", "ok", "error"}]
    BY <1>4 DEF ServeChange
  <2>2. user' \in Users /\ (~user.must => ~user'.must)
    BY <1>4 DEF ServeChange, Changed
  <2> QED BY <1>4, <2>1, <2>2 DEF ServeChange
<1>5. ASSUME NEW c \in changes, Answered(c) PROVE AccountInv'
  <2>1. accepted' \in BOOLEAN /\ changes' \subseteq changes /\ busy' \subseteq Forms
    BY <1>5 DEF Answered
  <2>2. accountProbes' \subseteq accountProbes \cup {NewProbe}
    BY <1>5 DEF Answered
  <2>3. NewProbe \in [served : BOOLEAN, answer : Users \cup {NoAccount}] /\ ~NewProbe.served
    BY DEF NewProbe
  <2> QED BY <1>5, <2>1, <2>2, <2>3 DEF Answered
<1>6. CASE UNCHANGED accountVars
  BY <1>6
<1> QED BY <1>1, <1>2, <1>3, <1>4, <1>5, <1>6 DEF AccountNext, AccountAnswers

(* What GateOpens rests on: a page that was told of the new password asks  *)
(* for the account, and will be answered that it need not be replaced.     *)
AcceptedIsAsked ==
  /\ \A c \in changes : c.answer = "ok" /\ c.form # "username" => ~user.must
  /\ accepted => ~user.must /\ \E p \in accountProbes : p.served => ~p.answer.must

LEMMA AcceptedInit == AccountInit => AcceptedIsAsked
  BY DEF AccountInit, AcceptedIsAsked

LEMMA AcceptedStep == AccountInv /\ AcceptedIsAsked /\ [AccountNext]_accountVars => AcceptedIsAsked'
<1> SUFFICES ASSUME AccountInv, AcceptedIsAsked, [AccountNext]_accountVars PROVE AcceptedIsAsked'
  OBVIOUS
<1>0. AccountTypeOK /\ AccountTypeOK'
  BY AccountStep DEF AccountInv
<1>1. ASSUME NEW p \in accountProbes, ServeAccount(p) PROVE AcceptedIsAsked'
  <2> DEFINE served == [served |-> TRUE, answer |-> user]
  <2>1. served.answer = user /\ served \in accountProbes' /\ accountProbes \ {p} \subseteq accountProbes'
    BY <1>1 DEF ServeAccount
  <2>2. UNCHANGED <<user, changes, accepted>>
    BY <1>1 DEF ServeAccount
  <2> HIDE DEF served
  <2> QED BY <2>1, <2>2 DEF AcceptedIsAsked
<1>2. ASSUME NEW p \in accountProbes, AccountArrives(p) PROVE AcceptedIsAsked'
  <2>1. UNCHANGED <<user, changes>> /\ accountProbes' = accountProbes \ {p} /\ p.served
    BY <1>2 DEF AccountArrives
  <2>2. ~p.answer.must => ~accepted'
    BY <1>2, AccountAssumption DEF AccountArrives, Screen, Users
  <2>3. accepted' => accepted
    BY <1>2 DEF AccountArrives
  <2> QED BY <2>1, <2>2, <2>3 DEF AcceptedIsAsked
<1>3. ASSUME NEW f \in Forms, NEW name \in Names, SubmitForm(f, name) PROVE AcceptedIsAsked'
  BY <1>3 DEF SubmitForm, AcceptedIsAsked
<1>4. ASSUME NEW c \in changes, ServeChange(c) PROVE AcceptedIsAsked'
  <2>1. ~user.must => ~user'.must
    BY <1>0, <1>4 DEF ServeChange, Changed, AccountTypeOK, Users
  <2>2. UNCHANGED <<accountProbes, accepted>>
    BY <1>4 DEF ServeChange
  <2>3. PICK answer \in {"ok", "error"} : changes' = (changes \ {c}) \cup {[c EXCEPT !.answer = answer]}
    BY <1>4 DEF ServeChange
  <2>4. /\ c \in [form : Forms, name : Names, answer : {"none", "ok", "error"}]
        /\ [c EXCEPT !.answer = answer].answer = answer /\ [c EXCEPT !.answer = answer].form = c.form
    BY <1>0 DEF AccountTypeOK
  <2>5. answer = "ok" /\ c.form # "username" => ~user'.must
    BY <1>0, <1>4, <2>3, <2>4 DEF ServeChange, Changed, AccountTypeOK, Users
  <2> QED BY <2>1, <2>2, <2>3, <2>4, <2>5 DEF AcceptedIsAsked
<1>5. ASSUME NEW c \in changes, Answered(c) PROVE AcceptedIsAsked'
  <2>1. UNCHANGED user /\ changes' = changes \ {c}
    BY <1>5 DEF Answered
  <2>2. accountProbes \subseteq accountProbes'
    BY <1>5 DEF Answered
  <2>3. c.form = "force" /\ c.answer = "ok" => ~user.must /\ NewProbe \in accountProbes'
    BY <1>5 DEF Answered, AcceptedIsAsked
  <2>4. ~NewProbe.served
    BY DEF NewProbe
  <2>5. accepted' => accepted \/ (c.form = "force" /\ c.answer = "ok")
    BY <1>5 DEF Answered
  <2> QED BY <2>1, <2>2, <2>3, <2>4, <2>5 DEF AcceptedIsAsked
<1>6. CASE UNCHANGED accountVars
  BY <1>6 DEF accountVars, AcceptedIsAsked
<1> QED BY <1>1, <1>2, <1>3, <1>4, <1>5, <1>6 DEF AccountNext, AccountAnswers

-----------------------------------------------------------------------------
(* The tokens.                                                             *)

(* A mask is in a page's input only as it was shown, so that it is never   *)
(* what is sent; a request that was read holds what is to be stored.       *)
MasksAreShown ==
  /\ ~dbToken.masked /\ ~envToken.masked
  /\ \A o \in Operators : input[o].masked => input[o] = saved[o]
  /\ \A s \in saves : ~s.token.masked

(* As long as no two saves were in progress at once, the one that is has   *)
(* stored what it will apply.                                              *)
OneSave ==
  ~crossed =>
    /\ \A s, t \in InHandler : s = t
    /\ \A s \in saves : s.at = "stored" => s.token = dbToken
    /\ (\A s \in saves : s.at # "stored") => live = Effective(dbToken)

SettingsInv == SettingsTypeOK /\ MasksAreShown /\ OneSave

LEMMA TextType ==
  /\ NoText.masked = FALSE
  /\ \A t \in Tokens \cup EnvTokens : Plain(t) \in Text /\ Plain(t).masked = FALSE
  /\ \A text \in Text \cup {NoText} : Mask(text) \in Text \cup {NoText} /\ (Mask(text) = NoText \/ Mask(text).masked)
  BY DEF NoText, Plain, Text, Mask

LEMMA SettingsInitInv == SettingsInit => SettingsInv
<1> SUFFICES ASSUME SettingsInit PROVE SettingsInv
  OBVIOUS
<1>1. /\ envToken \in Text \cup {NoText} /\ dbToken \in Text \cup {NoText}
      /\ ~envToken.masked /\ ~dbToken.masked
  BY TextType DEF SettingsInit
<1>2. settingsSent \in 0 .. MaxSaves /\ typed \in 0 .. MaxTyped /\ crossed \in BOOLEAN /\ saves = {} /\ ready = {}
  <2>1. 0 \in 0 .. MaxSaves /\ 0 \in 0 .. MaxTyped
    BY TokenAssumption
  <2> QED BY <2>1 DEF SettingsInit
<1>3. SettingsTypeOK
  BY <1>1, <1>2 DEF SettingsInit, SettingsTypeOK, Effective
<1>4. MasksAreShown /\ OneSave
  BY <1>1, <1>2, TextType DEF SettingsInit, MasksAreShown, OneSave, InHandler
<1> QED BY <1>3, <1>4 DEF SettingsInv

LEMMA TokensFromInv == SettingsInv => MaskNeverStored /\ LiveIsStored
  BY DEF SettingsInv, MasksAreShown, OneSave, MaskNeverStored, LiveIsStored, InHandler

(* What a page shows is one text, in both places.                          *)
LEMMA ShowStep ==
  ASSUME SettingsInv, NEW o \in Operators, NEW text \in Text \cup {NoText}, Show(o, text)
  PROVE  /\ {input', saved'} \subseteq [Operators -> Text \cup {NoText}]
         /\ \A p \in Operators : input'[p].masked => input'[p] = saved'[p]
  BY DEF SettingsInv, SettingsTypeOK, MasksAreShown, Show

LEMMA SettingsStep == SettingsInv /\ [SettingsNext]_settingsVars => SettingsInv'
<1> SUFFICES ASSUME SettingsInv, [SettingsNext]_settingsVars PROVE SettingsInv'
  OBVIOUS
<1> USE DEF settingsVars, pageTokens
<1>0. SettingsTypeOK /\ MasksAreShown /\ OneSave
  BY DEF SettingsInv
<1>t. DEFINE Request == [id : 1 .. MaxSaves, by : Operators, token : Text \cup {NoText},
                         at : {"sent", "read", "stored", "done", "failed"}]
<1>1. ASSUME NEW o \in Operators, ConfigArrives(o) PROVE SettingsInv'
  <2>1. PICK text \in {Mask(Effective(dbToken)), NoText} : Show(o, text)
    BY <1>1 DEF ConfigArrives
  <2>2. text \in Text \cup {NoText}
    BY <1>0, TextType DEF SettingsTypeOK, Effective
  <2>3. /\ {input', saved'} \subseteq [Operators -> Text \cup {NoText}]
        /\ \A p \in Operators : input'[p].masked => input'[p] = saved'[p]
    BY <2>1, <2>2, ShowStep
  <2> QED BY <1>0, <1>1, <2>3 DEF ConfigArrives, SettingsInv, SettingsTypeOK, MasksAreShown, OneSave,
                                  InHandler, Effective
<1>2. ASSUME NEW o \in Operators, NEW text \in {Plain(t) : t \in Tokens} \cup {NoText}, Type(o, text)
      PROVE SettingsInv'
  <2>1. text \in Text \cup {NoText} /\ ~text.masked /\ typed' \in 0 .. MaxTyped
    BY <1>0, <1>2, TextType, TokenAssumption DEF Type, SettingsTypeOK
  <2>2. input' \in [Operators -> Text \cup {NoText}] /\ saved' = saved
        /\ \A p \in Operators : input'[p].masked => input'[p] = saved'[p]
    BY <1>0, <1>2, <2>1 DEF Type, SettingsTypeOK, MasksAreShown
  <2> QED BY <1>0, <1>2, <2>1, <2>2 DEF Type, SettingsInv, SettingsTypeOK, MasksAreShown, OneSave,
                                  InHandler, Effective
<1>3. ASSUME NEW o \in Operators, SubmitToken(o) PROVE SettingsInv'
  <2> DEFINE new == [id |-> settingsSent', by |-> o, token |-> NextToken(o), at |-> "sent"]
  <2>1. settingsSent' \in 1 .. MaxSaves /\ NextToken(o) \in Text \cup {NoText} /\ ~NextToken(o).masked
    BY <1>0, <1>3, TextType, TokenAssumption DEF SubmitToken, SettingsTypeOK, NextToken, MasksAreShown
  <2>2. saves' = saves \cup {new} /\ new \in Request /\ ~new.token.masked /\ new.at = "sent"
    BY <1>3, <2>1 DEF SubmitToken
  <2>3. SettingsTypeOK'
    BY <1>0, <1>3, <2>1, <2>2 DEF SubmitToken, SettingsTypeOK
  <2>4. MasksAreShown'
    BY <1>0, <1>3, <2>2 DEF SubmitToken, MasksAreShown
  <2>5. OneSave'
    <3>1. InHandler' = InHandler
      BY <2>2 DEF InHandler
    <3> QED BY <1>0, <1>3, <2>2, <3>1 DEF SubmitToken, OneSave, Effective
  <2> QED BY <2>3, <2>4, <2>5 DEF SettingsInv
<1>4. ASSUME NEW s \in saves, TokenAnswered(s) PROVE SettingsInv'
  <2>1. /\ {input', saved'} \subseteq [Operators -> Text \cup {NoText}]
        /\ \A p \in Operators : input'[p].masked => input'[p] = saved'[p]
    <3>1. CASE s.at = "done"
      <4>1. s.by \in Operators /\ Mask(Effective(s.token)) \in Text \cup {NoText}
        BY <1>0, TextType DEF SettingsTypeOK, Effective
      <4> QED BY <1>4, <3>1, <4>1, ShowStep DEF TokenAnswered
    <3>2. CASE s.at # "done"
      BY <1>0, <1>4, <3>2 DEF TokenAnswered, SettingsTypeOK, MasksAreShown
    <3> QED BY <3>1, <3>2
  <2>2. saves' = saves \ {s} /\ InHandler' = InHandler /\ s.at # "stored"
    BY <1>4 DEF TokenAnswered, InHandler
  <2>3. SettingsTypeOK'
    BY <1>0, <1>4, <2>1, <2>2 DEF TokenAnswered, SettingsTypeOK
  <2>4. MasksAreShown' /\ OneSave'
    BY <1>0, <1>4, <2>1, <2>2 DEF TokenAnswered, MasksAreShown, OneSave, Effective
  <2> QED BY <2>3, <2>4 DEF SettingsInv
<1>5. ASSUME NEW s \in saves, ReadCurrent(s) PROVE SettingsInv'
  <2>1. PICK token \in {dbToken, s.token} :
           saves' = (saves \ {s}) \cup {[s EXCEPT !.at = "read", !.token = token]}
    BY <1>5 DEF ReadCurrent
  <2> DEFINE new == [s EXCEPT !.at = "read", !.token = token]
  <2>2. new \in Request /\ ~new.token.masked /\ new.at = "read"
    BY <1>0 DEF SettingsTypeOK, MasksAreShown
  <2>3. SettingsTypeOK'
    BY <1>0, <1>5, <2>1, <2>2 DEF ReadCurrent, SettingsTypeOK
  <2>4. MasksAreShown'
    BY <1>0, <1>5, <2>1, <2>2 DEF ReadCurrent, MasksAreShown
  <2>5. OneSave'
    <3> SUFFICES ASSUME ~crossed' PROVE OneSave'
      BY DEF OneSave
    <3>1. ~crossed /\ InHandler = {}
      BY <1>5 DEF ReadCurrent
    <3>2. InHandler' = {new}
      BY <2>1, <2>2, <3>1 DEF InHandler
    <3>3. \A r \in saves : r.at # "stored"
      BY <3>1 DEF InHandler
    <3> QED BY <1>0, <1>5, <2>1, <2>2, <3>1, <3>2, <3>3 DEF ReadCurrent, OneSave, Effective
  <2> QED BY <2>3, <2>4, <2>5 DEF SettingsInv
<1>6. ASSUME NEW s \in saves, StoreToken(s) PROVE SettingsInv'
  <2>1. PICK at \in {"stored", "failed"} :
           /\ saves' = (saves \ {s}) \cup {[s EXCEPT !.at = at]}
           /\ dbToken' = IF at = "stored" THEN s.token ELSE dbToken
    BY <1>6 DEF StoreToken, To
  <2> DEFINE new == [s EXCEPT !.at = at]
  <2>2. new \in Request /\ new.token = s.token /\ new.at = at /\ ~s.token.masked /\ s.token \in Text \cup {NoText}
    BY <1>0 DEF SettingsTypeOK, MasksAreShown
  <2>3. SettingsTypeOK'
    BY <1>0, <1>6, <2>1, <2>2 DEF StoreToken, SettingsTypeOK
  <2>4. MasksAreShown'
    BY <1>0, <1>6, <2>1, <2>2 DEF StoreToken, MasksAreShown
  <2>5. OneSave'
    <3> SUFFICES ASSUME ~crossed PROVE OneSave'
      BY <1>6 DEF OneSave, StoreToken
    <3>1. \A r \in saves : r.at \in {"read", "stored"} => r = s
      BY <1>0, <1>6 DEF OneSave, InHandler, StoreToken
    <3>2. (\A r \in saves : r.at # "stored") /\ live = Effective(dbToken)
      BY <1>0, <1>6, <3>1 DEF StoreToken, OneSave
    <3>3. \A r \in saves' : r.at \in {"read", "stored"} => r = new
      BY <2>1, <3>1
    <3> QED BY <1>6, <2>1, <2>2, <3>2, <3>3 DEF StoreToken, OneSave, InHandler, Effective
  <2> QED BY <2>3, <2>4, <2>5 DEF SettingsInv
<1>7. ASSUME NEW s \in saves, ApplyToken(s) PROVE SettingsInv'
  <2> DEFINE new == [s EXCEPT !.at = "done"]
  <2>1. saves' = (saves \ {s}) \cup {new} /\ new \in Request /\ ~new.token.masked /\ new.at = "done"
    BY <1>0, <1>7 DEF ApplyToken, To, SettingsTypeOK, MasksAreShown
  <2>2. live' \in Text \cup {NoText}
    BY <1>0, <1>7 DEF ApplyToken, SettingsTypeOK, Effective
  <2>3. SettingsTypeOK'
    BY <1>0, <1>7, <2>1, <2>2 DEF ApplyToken, SettingsTypeOK
  <2>4. MasksAreShown'
    BY <1>0, <1>7, <2>1 DEF ApplyToken, MasksAreShown
  <2>5. OneSave'
    <3> SUFFICES ASSUME ~crossed PROVE OneSave'
      BY <1>7 DEF OneSave, ApplyToken
    <3>1. \A r \in saves : r.at \in {"read", "stored"} => r = s
      BY <1>0, <1>7 DEF OneSave, InHandler, ApplyToken
    <3>2. s.token = dbToken
      BY <1>0, <1>7 DEF OneSave, ApplyToken
    <3> QED BY <1>7, <2>1, <3>1, <3>2 DEF ApplyToken, OneSave, InHandler, Effective
  <2> QED BY <2>3, <2>4, <2>5 DEF SettingsInv
<1>8. CASE UNCHANGED settingsVars
  BY <1>0, <1>8 DEF SettingsInv, SettingsTypeOK, MasksAreShown, OneSave, InHandler, Effective
<1> QED BY <1>1, <1>2, <1>3, <1>4, <1>5, <1>6, <1>7, <1>8 DEF SettingsNext

-----------------------------------------------------------------------------
(* The service unit.                                                       *)

(* An apply that has checked the file has found none written by hand.      *)
KeptUnread == kept => file = ByHand /\ \A a \in Sharing : applies[a].at # "read"

(* What an application's dialog shows, and what its apply was told and has *)
(* rendered, is what its settings say.                                     *)
ReviewedIsCurrent(a) ==
  /\ previews[a].at = "done" => previews[a].unit = Render(a)
  /\ dialog[a] # NoUnit => dialog[a] = Render(a)
  /\ applies[a].at # "no" => applies[a].reviewed = Render(a)
  /\ a \in InApply => applies[a].unit = Render(a)

(* Its apply is alone at the file, and has done what it says.              *)
AloneAtFile(a) ==
  a \in InApply =>
    /\ InApply = {a}
    /\ applies[a].at \in {"written", "reloaded"} => file = applies[a].unit
    /\ applies[a].at = "reloaded" => loaded = applies[a].unit

Unmuddled == \A a \in Sharing \ muddled : ReviewedIsCurrent(a) /\ AloneAtFile(a)

RenderedIsUnit == \A a \in InApply : applies[a].unit \in Units

VersionsAreActs == \A a \in Sharing : version[a] <= unitActs

UnitInv ==
  /\ UnitTypeOK /\ VersionsAreActs /\ RenderedIsUnit
  /\ ReviewedIsLoaded /\ KeptUnread /\ Unmuddled

LEMMA UnitInitInv == UnitInit => UnitInv
<1> SUFFICES ASSUME UnitInit PROVE UnitInv
  OBVIOUS
<1>1. 0 \in 0 .. MaxUnitActs
  BY UnitAssumption
<1>2. {enabled, kept} \subseteq BOOLEAN /\ {file, loaded} \subseteq Units \cup {Absent, ByHand, Torn}
  BY DEF UnitInit
<1>3. UnitTypeOK
  BY <1>1, <1>2 DEF UnitInit, UnitTypeOK, Idle
<1>4. VersionsAreActs /\ ReviewedIsLoaded
  BY DEF UnitInit, VersionsAreActs, ReviewedIsLoaded
<1>6. KeptUnread /\ RenderedIsUnit
  <2>1. kept => file = ByHand
    BY DEF UnitInit
  <2>2. \A a \in Sharing : applies[a].at = "no"
    BY DEF UnitInit, Idle
  <2> QED BY <2>1, <2>2 DEF KeptUnread, RenderedIsUnit, InApply
<1>5. Unmuddled
  BY DEF UnitInit, Unmuddled, ReviewedIsCurrent, AloneAtFile, InApply, Idle
<1> QED BY <1>3, <1>4, <1>5, <1>6 DEF UnitInv

LEMMA HandWrittenFromInv == UnitInv => HandWrittenIsKept
  BY DEF UnitInv, KeptUnread, HandWrittenIsKept

LEMMA RenderType == ASSUME UnitTypeOK, NEW a \in Sharing PROVE Render(a) \in Units /\ Render(a) # NoUnit
  BY UnitAssumption DEF UnitTypeOK, Render, Units

LEMMA UnitStep == UnitInv /\ [UnitNext]_unitVars => UnitInv'
<1> SUFFICES ASSUME UnitInv, [UnitNext]_unitVars PROVE UnitInv'
  OBVIOUS
<1> USE DEF unitVars, machineVars
<1>0. UnitTypeOK /\ VersionsAreActs /\ RenderedIsUnit /\ ReviewedIsLoaded /\ KeptUnread /\ Unmuddled
  BY DEF UnitInv
<1> DEFINE Maybe == Units \cup {NoUnit}
           Requests == [at : {"no", "sent", "read", "written", "reloaded", "done", "failed"},
                        unit : Maybe, reviewed : Maybe]
<1>1. ASSUME NEW a \in Sharing, Preview(a) PROVE UnitInv'
  <2>1. UnitTypeOK' /\ VersionsAreActs'
    <3>1. previews' \in [Sharing -> Requests]
      <4>1. previews \in [Sharing -> Requests] /\ previews[a] \in Requests
        BY <1>0 DEF UnitTypeOK
      <4>2. [previews[a] EXCEPT !.at = "sent"] \in Requests
        BY <1>0, <4>1, RenderType DEF UnitTypeOK
      <4> QED BY <1>1, <4>1, <4>2 DEF Preview
    <3>2. unitActs' \in 0 .. MaxUnitActs /\ unitActs <= unitActs'
      BY <1>0, <1>1, UnitAssumption DEF Preview, UnitAct, UnitTypeOK
    <3> QED BY <1>0, <1>1, <3>1, <3>2 DEF Preview, UnitTypeOK, VersionsAreActs
  <2>2. ReviewedIsLoaded'
    BY <1>0, <1>1 DEF Preview, UnitAct, Reach, Idle, UnitTypeOK, ReviewedIsLoaded, Unmuddled, ReviewedIsCurrent, AloneAtFile, InApply
  <2>3. KeptUnread' /\ RenderedIsUnit'
    BY <1>0, <1>1, UnitAssumption, RenderType
    DEF Preview, UnitAct, Reach, Idle, UnitTypeOK, KeptUnread, RenderedIsUnit, InApply
  <2>4. Unmuddled'
    BY <1>0, <1>1 DEF Preview, UnitAct, Reach, Idle, UnitTypeOK, Unmuddled, ReviewedIsCurrent, AloneAtFile, InApply, Render
  <2> QED BY <2>1, <2>2, <2>3, <2>4 DEF UnitInv
<1>2. ASSUME NEW a \in Sharing, ServePreview(a) PROVE UnitInv'
  <2>1. UnitTypeOK' /\ VersionsAreActs'
    <3>1. previews' \in [Sharing -> Requests]
      <4>1. previews \in [Sharing -> Requests] /\ previews[a] \in Requests
        BY <1>0 DEF UnitTypeOK
      <4>2. [previews[a] EXCEPT !.at = "done", !.unit = Render(a)] \in Requests
        BY <1>0, <4>1, RenderType DEF UnitTypeOK
      <4>3. [previews[a] EXCEPT !.at = "failed"] \in Requests
        BY <1>0, <4>1, RenderType DEF UnitTypeOK
      <4> QED BY <1>2, <4>1, <4>2, <4>3 DEF ServePreview
    <3>2. unitActs' \in 0 .. MaxUnitActs /\ unitActs <= unitActs'
      BY <1>0, <1>2, UnitAssumption DEF ServePreview, UnitAct, UnitTypeOK
    <3> QED BY <1>0, <1>2, <3>1, <3>2 DEF ServePreview, UnitTypeOK, VersionsAreActs
  <2>2. ReviewedIsLoaded'
    BY <1>0, <1>2 DEF ServePreview, UnitAct, Reach, Idle, UnitTypeOK, ReviewedIsLoaded, Unmuddled, ReviewedIsCurrent, AloneAtFile, InApply
  <2>3. KeptUnread' /\ RenderedIsUnit'
    BY <1>0, <1>2, UnitAssumption, RenderType
    DEF ServePreview, UnitAct, Reach, Idle, UnitTypeOK, KeptUnread, RenderedIsUnit, InApply
  <2>4. Unmuddled'
    BY <1>0, <1>2 DEF ServePreview, UnitAct, Reach, Idle, UnitTypeOK, Unmuddled, ReviewedIsCurrent, AloneAtFile, InApply, Render
  <2> QED BY <2>1, <2>2, <2>3, <2>4 DEF UnitInv
<1>3. ASSUME NEW a \in Sharing, PreviewArrives(a) PROVE UnitInv'
  <2>1. UnitTypeOK' /\ VersionsAreActs'
    <3>1. previews' \in [Sharing -> Requests]
      <4>1. previews \in [Sharing -> Requests] /\ previews[a] \in Requests
        BY <1>0 DEF UnitTypeOK
      <4>2. Idle \in Requests
        BY <1>0, <4>1, RenderType DEF UnitTypeOK, Idle
      <4> QED BY <1>3, <4>1, <4>2 DEF PreviewArrives
    <3>2. unitActs' \in 0 .. MaxUnitActs /\ unitActs <= unitActs'
      BY <1>0, <1>3, UnitAssumption DEF PreviewArrives, UnitAct, UnitTypeOK
    <3> QED BY <1>0, <1>3, <3>1, <3>2 DEF PreviewArrives, UnitTypeOK, VersionsAreActs
  <2>2. ReviewedIsLoaded'
    BY <1>0, <1>3 DEF PreviewArrives, UnitAct, Reach, Idle, UnitTypeOK, ReviewedIsLoaded, Unmuddled, ReviewedIsCurrent, AloneAtFile, InApply
  <2>3. KeptUnread' /\ RenderedIsUnit'
    BY <1>0, <1>3, UnitAssumption, RenderType
    DEF PreviewArrives, UnitAct, Reach, Idle, UnitTypeOK, KeptUnread, RenderedIsUnit, InApply
  <2>4. Unmuddled'
    BY <1>0, <1>3 DEF PreviewArrives, UnitAct, Reach, Idle, UnitTypeOK, Unmuddled, ReviewedIsCurrent, AloneAtFile, InApply, Render
  <2> QED BY <2>1, <2>2, <2>3, <2>4 DEF UnitInv
<1>4. ASSUME NEW a \in Sharing, CloseUnit(a) PROVE UnitInv'
  <2>1. UnitTypeOK' /\ VersionsAreActs'
    BY <1>0, <1>4, RenderType, UnitAssumption DEF CloseUnit, UnitAct, Reach, Idle, UnitTypeOK, VersionsAreActs
  <2>2. ReviewedIsLoaded'
    BY <1>0, <1>4 DEF CloseUnit, UnitAct, Reach, Idle, UnitTypeOK, ReviewedIsLoaded, Unmuddled, ReviewedIsCurrent, AloneAtFile, InApply
  <2>3. KeptUnread' /\ RenderedIsUnit'
    BY <1>0, <1>4, UnitAssumption, RenderType
    DEF CloseUnit, UnitAct, Reach, Idle, UnitTypeOK, KeptUnread, RenderedIsUnit, InApply
  <2>4. Unmuddled'
    BY <1>0, <1>4 DEF CloseUnit, UnitAct, Reach, Idle, UnitTypeOK, Unmuddled, ReviewedIsCurrent, AloneAtFile, InApply, Render
  <2> QED BY <2>1, <2>2, <2>3, <2>4 DEF UnitInv
<1>5. ASSUME NEW a \in Sharing, Confirm(a) PROVE UnitInv'
  <2>1. UnitTypeOK' /\ VersionsAreActs'
    <3>1. applies' \in [Sharing -> Requests]
      <4>1. applies \in [Sharing -> Requests] /\ applies[a] \in Requests
        BY <1>0 DEF UnitTypeOK
      <4>2. [at |-> "sent", unit |-> NoUnit, reviewed |-> dialog[a]] \in Requests
        BY <1>0, <4>1, RenderType DEF UnitTypeOK
      <4> QED BY <1>5, <4>1, <4>2 DEF Confirm
    <3>2. unitActs' \in 0 .. MaxUnitActs /\ unitActs <= unitActs'
      BY <1>0, <1>5, UnitAssumption DEF Confirm, UnitAct, UnitTypeOK
    <3> QED BY <1>0, <1>5, <3>1, <3>2 DEF Confirm, UnitTypeOK, VersionsAreActs
  <2>2. ReviewedIsLoaded'
    BY <1>0, <1>5 DEF Confirm, UnitAct, Reach, Idle, UnitTypeOK, ReviewedIsLoaded, Unmuddled, ReviewedIsCurrent, AloneAtFile, InApply
  <2>3. KeptUnread' /\ RenderedIsUnit'
    BY <1>0, <1>5, UnitAssumption, RenderType
    DEF Confirm, UnitAct, Reach, Idle, UnitTypeOK, KeptUnread, RenderedIsUnit, InApply
  <2>4. Unmuddled'
    BY <1>0, <1>5 DEF Confirm, UnitAct, Reach, Idle, UnitTypeOK, Unmuddled, ReviewedIsCurrent, AloneAtFile, InApply, Render
  <2> QED BY <2>1, <2>2, <2>3, <2>4 DEF UnitInv
<1>6. ASSUME NEW a \in Sharing, ReadUnit(a) PROVE UnitInv'
  <2>1. UnitTypeOK' /\ VersionsAreActs'
    <3>0. applies \in [Sharing -> Requests] /\ applies[a] \in Requests
      BY <1>0 DEF UnitTypeOK
    <3>1. applies' \in [Sharing -> Requests]
      <4>1. [applies[a] EXCEPT !.at = "read", !.unit = Render(a)] \in Requests
        BY <1>0, <3>0, RenderType
      <4>2. [applies[a] EXCEPT !.at = "failed"] \in Requests
        BY <3>0
      <4> QED BY <1>6, <3>0, <4>1, <4>2 DEF ReadUnit, Reach
    <3>2. muddled' \subseteq Sharing
      BY <1>0, <1>6 DEF ReadUnit, UnitTypeOK, InApply
    <3> QED BY <1>0, <1>6, <3>1, <3>2 DEF ReadUnit, UnitTypeOK, VersionsAreActs
  <2>2. ReviewedIsLoaded'
    BY <1>0, <1>6 DEF ReadUnit, UnitAct, Reach, Idle, UnitTypeOK, ReviewedIsLoaded, Unmuddled, ReviewedIsCurrent, AloneAtFile, InApply
  <2>3. KeptUnread' /\ RenderedIsUnit'
    <3>1. /\ \A b \in Sharing \ {a} : applies'[b] = applies[b]
          /\ \/ applies'[a].at = "failed"
             \/ applies'[a].at = "read" /\ applies'[a].unit = Render(a) /\ file # ByHand
      BY <1>0, <1>6 DEF ReadUnit, Reach, UnitTypeOK
    <3>2. kept' = kept
      BY <1>6 DEF ReadUnit
    <3> QED BY <1>0, <1>6, <3>1, <3>2, RenderType DEF ReadUnit, KeptUnread, RenderedIsUnit, InApply
  <2>4. Unmuddled'
    <3>0. /\ UNCHANGED <<version, file, loaded, dialog, previews>> /\ muddled \subseteq muddled'
          /\ \A b \in Sharing \ {a} : applies'[b] = applies[b]
          /\ applies'[a].reviewed = applies[a].reviewed /\ applies[a].at = "sent"
      BY <1>0, <1>6 DEF ReadUnit, Reach, UnitTypeOK
    <3>1. a \notin InApply
      BY <3>0 DEF InApply
    <3>2. CASE applies'[a].at = "failed"
      <4>1. InApply' = InApply
        BY <3>0, <3>1, <3>2 DEF InApply
      <4> QED BY <1>0, <3>0, <3>1, <3>2, <4>1 DEF Unmuddled, ReviewedIsCurrent, AloneAtFile, Render
    <3>3. CASE applies'[a].at = "read" /\ applies'[a].unit = Render(a) /\ (InApply # {} => InApply \cup {a} \subseteq muddled')
      <4>1. InApply' = InApply \cup {a}
        BY <3>0, <3>3 DEF InApply
      <4>2. \A b \in Sharing \ muddled' : ReviewedIsCurrent(b)'
        BY <1>0, <3>0, <3>1, <3>3, <4>1 DEF Unmuddled, ReviewedIsCurrent, Render
      <4>3. \A b \in Sharing \ muddled' : AloneAtFile(b)'
        BY <3>3, <4>1 DEF AloneAtFile
      <4> QED BY <4>2, <4>3 DEF Unmuddled
    <3> QED BY <1>0, <1>6, <3>2, <3>3 DEF ReadUnit, Reach, UnitTypeOK
  <2> QED BY <2>1, <2>2, <2>3, <2>4 DEF UnitInv
<1>7. ASSUME NEW a \in Sharing, WriteUnit(a) PROVE UnitInv'
  <2>1. UnitTypeOK' /\ VersionsAreActs'
    <3>1. applies' \in [Sharing -> Requests]
      <4>1. applies \in [Sharing -> Requests]
        BY <1>0 DEF UnitTypeOK
      <4>2. \A at \in {"written", "failed"} : [applies[a] EXCEPT !.at = at] \in Requests
        BY <4>1
      <4> QED BY <1>7, <4>1, <4>2 DEF WriteUnit, Reach
    <3>2. file' \in Units \cup {Absent, ByHand, Torn} /\ told' = NoUnit
      BY <1>0, <1>7 DEF WriteUnit, UnitTypeOK, RenderedIsUnit, InApply
    <3> QED BY <1>0, <1>7, <3>1, <3>2 DEF WriteUnit, UnitTypeOK, VersionsAreActs
  <2>2. ReviewedIsLoaded'
    BY <1>0, <1>7 DEF WriteUnit, UnitAct, Reach, Idle, UnitTypeOK, ReviewedIsLoaded, Unmuddled, ReviewedIsCurrent, AloneAtFile, InApply
  <2>3. KeptUnread' /\ RenderedIsUnit'
    <3>1. /\ \A b \in Sharing \ {a} : applies'[b] = applies[b]
          /\ applies'[a].at \in {"written", "failed"} /\ applies'[a].unit = applies[a].unit
      BY <1>0, <1>7 DEF WriteUnit, Reach, UnitTypeOK
    <3>2. kept' = kept
      BY <1>7 DEF WriteUnit
    <3> QED BY <1>0, <1>7, <3>1, <3>2 DEF WriteUnit, KeptUnread, RenderedIsUnit, InApply
  <2>4. Unmuddled'
    BY <1>0, <1>7 DEF WriteUnit, UnitAct, Reach, Idle, UnitTypeOK, Unmuddled, ReviewedIsCurrent, AloneAtFile, InApply, Render
  <2> QED BY <2>1, <2>2, <2>3, <2>4 DEF UnitInv
<1>8. ASSUME NEW a \in Sharing, ReloadUnits(a) PROVE UnitInv'
  <2>1. UnitTypeOK' /\ VersionsAreActs'
    <3>1. applies' \in [Sharing -> Requests]
      <4>1. applies \in [Sharing -> Requests]
        BY <1>0 DEF UnitTypeOK
      <4>2. \A at \in {"reloaded", "failed"} : [applies[a] EXCEPT !.at = at] \in Requests
        BY <4>1
      <4> QED BY <1>8, <4>1, <4>2 DEF ReloadUnits, Reach
    <3> QED BY <1>0, <1>8, <3>1 DEF ReloadUnits, UnitTypeOK, VersionsAreActs
  <2>2. ReviewedIsLoaded'
    BY <1>0, <1>8 DEF ReloadUnits, UnitAct, Reach, Idle, UnitTypeOK, ReviewedIsLoaded, Unmuddled, ReviewedIsCurrent, AloneAtFile, InApply
  <2>3. KeptUnread' /\ RenderedIsUnit'
    <3>1. /\ \A b \in Sharing \ {a} : applies'[b] = applies[b]
          /\ applies'[a].at \in {"reloaded", "failed"} /\ applies'[a].unit = applies[a].unit
      BY <1>0, <1>8 DEF ReloadUnits, Reach, UnitTypeOK
    <3>2. kept' = kept
      BY <1>8 DEF ReloadUnits
    <3> QED BY <1>0, <1>8, <3>1, <3>2 DEF ReloadUnits, KeptUnread, RenderedIsUnit, InApply
  <2>4. Unmuddled'
    BY <1>0, <1>8 DEF ReloadUnits, UnitAct, Reach, Idle, UnitTypeOK, Unmuddled, ReviewedIsCurrent, AloneAtFile, InApply, Render
  <2> QED BY <2>1, <2>2, <2>3, <2>4 DEF UnitInv
<1>9. ASSUME NEW a \in Sharing, EnableUnit(a) PROVE UnitInv'
  <2>1. UnitTypeOK' /\ VersionsAreActs'
    <3>1. applies' \in [Sharing -> Requests]
      <4>1. applies \in [Sharing -> Requests]
        BY <1>0 DEF UnitTypeOK
      <4>2. \A at \in {"done", "failed"} : [applies[a] EXCEPT !.at = at] \in Requests
        BY <4>1
      <4> QED BY <1>9, <4>1, <4>2 DEF EnableUnit, Reach
    <3>2. enabled' \in BOOLEAN /\ told' \in Units \cup {NoUnit}
      BY <1>0, <1>9 DEF EnableUnit, UnitTypeOK
    <3> QED BY <1>0, <1>9, <3>1, <3>2 DEF EnableUnit, UnitTypeOK, VersionsAreActs
  <2>2. ReviewedIsLoaded'
    BY <1>0, <1>9 DEF EnableUnit, UnitAct, Reach, Idle, UnitTypeOK, ReviewedIsLoaded, Unmuddled, ReviewedIsCurrent, AloneAtFile, InApply
  <2>3. KeptUnread' /\ RenderedIsUnit'
    <3>1. /\ \A b \in Sharing \ {a} : applies'[b] = applies[b]
          /\ applies'[a].at \in {"done", "failed"}
      BY <1>0, <1>9 DEF EnableUnit, Reach, UnitTypeOK
    <3> QED BY <1>0, <1>9, <3>1 DEF EnableUnit, KeptUnread, RenderedIsUnit, InApply
  <2>4. Unmuddled'
    <3>1. /\ UNCHANGED <<version, file, loaded, dialog, previews, muddled>>
          /\ \A b \in Sharing \ {a} : applies'[b] = applies[b]
          /\ applies'[a].at \in {"done", "failed"} /\ applies'[a].reviewed = applies[a].reviewed
      BY <1>0, <1>9 DEF EnableUnit, Reach, UnitTypeOK
    <3>2. a \in InApply /\ InApply' = InApply \ {a}
      BY <1>9, <3>1 DEF EnableUnit, InApply
    <3>3. \A b \in Sharing \ muddled : ReviewedIsCurrent(b)'
      BY <1>0, <1>9, <3>1, <3>2 DEF EnableUnit, Unmuddled, ReviewedIsCurrent, Render
    <3>4. \A b \in Sharing \ muddled : b \notin InApply'
      BY <1>0, <3>2 DEF Unmuddled, AloneAtFile
    <3> QED BY <3>1, <3>3, <3>4 DEF Unmuddled, AloneAtFile
  <2> QED BY <2>1, <2>2, <2>3, <2>4 DEF UnitInv
<1>10. ASSUME NEW a \in Sharing, Applied(a) PROVE UnitInv'
  <2>1. UnitTypeOK' /\ VersionsAreActs'
    <3>1. applies' \in [Sharing -> Requests]
      <4>1. applies \in [Sharing -> Requests] /\ applies[a] \in Requests
        BY <1>0 DEF UnitTypeOK
      <4>2. Idle \in Requests
        BY <1>0, <4>1, RenderType DEF UnitTypeOK, Idle
      <4> QED BY <1>10, <4>1, <4>2 DEF Applied
    <3>2. unitActs' \in 0 .. MaxUnitActs /\ unitActs <= unitActs'
      BY <1>0, <1>10, UnitAssumption DEF Applied, UnitAct, UnitTypeOK
    <3> QED BY <1>0, <1>10, <3>1, <3>2 DEF Applied, UnitTypeOK, VersionsAreActs
  <2>2. ReviewedIsLoaded'
    BY <1>0, <1>10 DEF Applied, UnitAct, Reach, Idle, UnitTypeOK, ReviewedIsLoaded, Unmuddled, ReviewedIsCurrent, AloneAtFile, InApply
  <2>3. KeptUnread' /\ RenderedIsUnit'
    BY <1>0, <1>10, UnitAssumption, RenderType
    DEF Applied, UnitAct, Reach, Idle, UnitTypeOK, KeptUnread, RenderedIsUnit, InApply
  <2>4. Unmuddled'
    BY <1>0, <1>10 DEF Applied, UnitAct, Reach, Idle, UnitTypeOK, Unmuddled, ReviewedIsCurrent, AloneAtFile, InApply, Render
  <2> QED BY <2>1, <2>2, <2>3, <2>4 DEF UnitInv
<1>11. ASSUME NEW a \in Sharing, SaveSettings(a) PROVE UnitInv'
  <2>1. UnitTypeOK' /\ VersionsAreActs'
    BY <1>0, <1>11, RenderType, UnitAssumption DEF SaveSettings, UnitAct, Reach, Idle, UnitTypeOK, VersionsAreActs
  <2>2. ReviewedIsLoaded'
    BY <1>0, <1>11 DEF SaveSettings, UnitAct, Reach, Idle, UnitTypeOK, ReviewedIsLoaded, Unmuddled, ReviewedIsCurrent, AloneAtFile, InApply
  <2>3. KeptUnread' /\ RenderedIsUnit'
    BY <1>0, <1>11, UnitAssumption, RenderType
    DEF SaveSettings, UnitAct, Reach, Idle, UnitTypeOK, KeptUnread, RenderedIsUnit, InApply
  <2>4. Unmuddled'
    BY <1>0, <1>11 DEF SaveSettings, UnitAct, Reach, Idle, UnitTypeOK, Unmuddled, ReviewedIsCurrent, AloneAtFile, InApply, Render
  <2> QED BY <2>1, <2>2, <2>3, <2>4 DEF UnitInv
<1>12. CASE WriteByHand
  <2>1. UnitTypeOK' /\ VersionsAreActs'
    <3>1. unitActs' \in 0 .. MaxUnitActs /\ unitActs <= unitActs'
      BY <1>0, <1>12, UnitAssumption DEF WriteByHand, UnitAct, UnitTypeOK
    <3>2. kept' \in BOOLEAN
      BY <1>12 DEF WriteByHand
    <3>3. muddled' \subseteq Sharing
      BY <1>0, <1>12 DEF WriteByHand, UnitTypeOK, InApply
    <3> QED BY <1>0, <1>12, <3>1, <3>2, <3>3 DEF WriteByHand, UnitTypeOK, VersionsAreActs
  <2>2. ReviewedIsLoaded'
    BY <1>0, <1>12 DEF WriteByHand, UnitAct, Reach, Idle, UnitTypeOK, ReviewedIsLoaded, Unmuddled, ReviewedIsCurrent, AloneAtFile, InApply
  <2>3. KeptUnread' /\ RenderedIsUnit'
    BY <1>0, <1>12, UnitAssumption, RenderType
    DEF WriteByHand, UnitAct, Reach, Idle, UnitTypeOK, KeptUnread, RenderedIsUnit, InApply
  <2>4. Unmuddled'
    BY <1>0, <1>12 DEF WriteByHand, UnitAct, Reach, Idle, UnitTypeOK, Unmuddled, ReviewedIsCurrent, AloneAtFile, InApply, Render
  <2> QED BY <2>1, <2>2, <2>3, <2>4 DEF UnitInv
<1>13. CASE RemoveByHand
  <2>1. UnitTypeOK' /\ VersionsAreActs'
    <3>1. unitActs' \in 0 .. MaxUnitActs /\ unitActs <= unitActs'
      BY <1>0, <1>13, UnitAssumption DEF RemoveByHand, UnitAct, UnitTypeOK
    <3>2. kept' \in BOOLEAN
      BY <1>13 DEF RemoveByHand
    <3>3. muddled' \subseteq Sharing
      BY <1>0, <1>13 DEF RemoveByHand, UnitTypeOK, InApply
    <3> QED BY <1>0, <1>13, <3>1, <3>2, <3>3 DEF RemoveByHand, UnitTypeOK, VersionsAreActs
  <2>2. ReviewedIsLoaded'
    BY <1>0, <1>13 DEF RemoveByHand, UnitAct, Reach, Idle, UnitTypeOK, ReviewedIsLoaded, Unmuddled, ReviewedIsCurrent, AloneAtFile, InApply
  <2>3. KeptUnread' /\ RenderedIsUnit'
    BY <1>0, <1>13, UnitAssumption, RenderType
    DEF RemoveByHand, UnitAct, Reach, Idle, UnitTypeOK, KeptUnread, RenderedIsUnit, InApply
  <2>4. Unmuddled'
    BY <1>0, <1>13 DEF RemoveByHand, UnitAct, Reach, Idle, UnitTypeOK, Unmuddled, ReviewedIsCurrent, AloneAtFile, InApply, Render
  <2> QED BY <2>1, <2>2, <2>3, <2>4 DEF UnitInv
<1>14. CASE UNCHANGED unitVars
  BY <1>0, <1>14 DEF UnitInv, UnitTypeOK, VersionsAreActs, RenderedIsUnit, ReviewedIsLoaded, KeptUnread, Unmuddled,
                     ReviewedIsCurrent, AloneAtFile, InApply, Render
<1> QED BY <1>1, <1>2, <1>3, <1>4, <1>5, <1>6, <1>7, <1>8, <1>9, <1>10, <1>11, <1>12, <1>13, <1>14 DEF UnitNext

-----------------------------------------------------------------------------
(* The registry's snapshot.  What is published or being built is the table *)
(* as it is, or a replaced one of which no write since has returned; and a *)
(* webhook that looks may be answered from each of these.                  *)

Served == {Current} \cup Replaced
Asking == {h \in Handlers : step[h] \in {"lookup", "locked", "queried"}}

AskersHavePresented == \A h \in Asking : presented[h] \in Secrets
BuilderHoldsLock ==
  /\ \A h \in Handlers : step[h] \in {"locked", "queried"} <=> cacheLock = h
  /\ \A h \in Handlers : /\ step[h] = "queried" => building # NoTable
                         /\ step[h] = "locked" => building = NoTable
  /\ cacheLock = Nobody => building = NoTable
SnapshotIsServed == {hashCache, building} \subseteq Served \cup {NoTable}
AskersMayBeServed == \A h \in Asking : Served \subseteq allowed[h]

RegistryInv ==
  /\ RegistryTypeOK /\ AskersHavePresented /\ BuilderHoldsLock
  /\ SnapshotIsServed /\ AskersMayBeServed /\ AnswersAreCurrent

LEMMA CurrentType == Current \in Tables
<1>1. \A s \in Secrets : AppOf(s) \in Registrable \cup {Nobody}
  BY DEF AppOf
<1> QED BY <1>1 DEF Current, Tables

LEMMA SameRows == rowOf' = rowOf => Current' = Current
  BY DEF Current, AppOf, HasSecret

LEMMA RegistryInitInv == RegistryInit => RegistryInv
  BY RegistryAssumption
  DEF RegistryInit, RegistryInv, RegistryTypeOK, AskersHavePresented, BuilderHoldsLock,
      SnapshotIsServed, AskersMayBeServed, AnswersAreCurrent, Asking

(* A write keeps the table it replaces among those that may be served.     *)
LEMMA CommittedKeepsInv ==
  ASSUME RegistryInv, NEW h \in Handlers, NEW rows \in [Registrable -> Row \cup {NoRow}],
         Committed(h, rows)
  PROVE  RegistryInv'
<1>1. /\ step \in [Handlers -> {"idle", "lookup", "locked", "queried", "answered", "written"}]
      /\ allowed \in [Handlers -> SUBSET Tables]
      /\ past \subseteq [table : Tables, by : SUBSET Handlers] /\ Current \in Tables /\ Current' \in Tables
  <2>1. Current' \in Tables
    <3>1. \A s \in Secrets : AppOf(s)' \in Registrable \cup {Nobody}
      BY DEF AppOf
    <3> QED BY <3>1 DEF Current, Tables
  <2> QED BY <2>1, CurrentType DEF RegistryInv, RegistryTypeOK
<1>2. /\ step[h] = "idle" /\ step' = [step EXCEPT ![h] = "written"] /\ Asking' = Asking
      /\ UNCHANGED <<hashCache, cacheLock, building, presented, verdict>>
  BY <1>1 DEF Committed, Enter, readerVars, Asking
<1>3. /\ past' \subseteq [table : Tables, by : SUBSET Handlers]
      /\ Served' = Served \cup {Current'}
  <2> DEFINE Late(p) == [p EXCEPT !.by = @ \cup {h}]
             new == [table |-> Current, by |-> {h}]
  <2>1. past' = {Late(p) : p \in past} \cup {new}
    BY DEF Committed
  <2>2. \A p \in past : /\ Late(p) \in [table : Tables, by : SUBSET Handlers]
                        /\ Late(p).table = p.table
    BY <1>1
  <2>3. new \in [table : Tables, by : SUBSET Handlers] /\ new.table = Current
    BY <1>1
  <2>4. Replaced' = Replaced \cup {Current}
    <3> HIDE DEF Late, new
    <3> QED BY <2>1, <2>2, <2>3 DEF Replaced
  <2>5. past' \subseteq [table : Tables, by : SUBSET Handlers]
    <3> HIDE DEF Late, new
    <3> QED BY <2>1, <2>2, <2>3
  <2> QED BY <2>4, <2>5 DEF Served
<1>4. /\ allowed' \in [Handlers -> SUBSET Tables]
      /\ \A g \in Handlers : allowed[g] \subseteq allowed'[g]
      /\ \A g \in Handlers : allowed[g] # {} => Current' \in allowed'[g]
  BY <1>1 DEF Committed
<1>5. RegistryTypeOK'
  <2>1. writes' \in 0 .. MaxWrites /\ rowOf' = rows
    BY RegistryAssumption DEF Committed, RegistryInv, RegistryTypeOK
  <2> QED BY <1>1, <1>2, <1>3, <1>4, <2>1 DEF RegistryInv, RegistryTypeOK
<1>6. AskersMayBeServed'
  <2>1. \A g \in Asking : Served \subseteq allowed[g] /\ allowed[g] # {}
    BY DEF RegistryInv, AskersMayBeServed, Served
  <2> QED BY <1>2, <1>3, <1>4, <2>1 DEF AskersMayBeServed, Asking
<1>7. SnapshotIsServed' /\ AskersHavePresented' /\ BuilderHoldsLock'
  BY <1>1, <1>2, <1>3
  DEF RegistryInv, RegistryTypeOK, SnapshotIsServed, AskersHavePresented, BuilderHoldsLock, Asking
<1>8. AnswersAreCurrent'
  BY <1>1, <1>2, <1>4 DEF RegistryInv, AnswersAreCurrent
<1> QED BY <1>5, <1>6, <1>7, <1>8 DEF RegistryInv

LEMMA RegistryStep == RegistryInv /\ [RegistryNext]_registryVars => RegistryInv'
<1> SUFFICES ASSUME RegistryInv, [RegistryNext]_registryVars PROVE RegistryInv'
  OBVIOUS
<1> USE RegistryAssumption
<1>0. RegistryTypeOK /\ AskersHavePresented /\ BuilderHoldsLock /\ SnapshotIsServed /\ AskersMayBeServed
      /\ AnswersAreCurrent /\ Current \in Tables
  BY CurrentType DEF RegistryInv
<1>1. ASSUME NEW h \in Handlers, NEW s \in Secrets, Present(h, s) PROVE RegistryInv'
  <2>1. Current' = Current /\ Replaced' = Replaced /\ Served \subseteq Tables
    BY <1>0, <1>1, SameRows DEF Present, Replaced, Served, RegistryTypeOK
  <2>2. RegistryTypeOK'
    BY <1>0, <1>1, <2>1 DEF Present, Enter, RegistryTypeOK, Served
  <2>3. AskersHavePresented' /\ BuilderHoldsLock' /\ SnapshotIsServed'
    BY <1>0, <1>1, <2>1
    DEF Present, Enter, RegistryTypeOK, AskersHavePresented, BuilderHoldsLock, SnapshotIsServed, Asking, Served
  <2>4. AskersMayBeServed' /\ AnswersAreCurrent'
    BY <1>0, <1>1, <2>1
    DEF Present, Enter, RegistryTypeOK, AskersMayBeServed, AnswersAreCurrent, Asking, Served
  <2> QED BY <2>2, <2>3, <2>4 DEF RegistryInv
<1>2. ASSUME NEW h \in Handlers, HashHit(h) PROVE RegistryInv'
  <2>1. Current' = Current /\ Replaced' = Replaced /\ h \in Asking
    BY <1>2, SameRows DEF HashHit, AnswerFrom, Replaced, Asking
  <2>2. hashCache \in Tables /\ hashCache \in allowed[h]
    BY <1>0, <1>2, <2>1 DEF HashHit, RegistryTypeOK, SnapshotIsServed, AskersMayBeServed
  <2>3. presented[h] \in Secrets /\ hashCache[presented[h]] \in Registrable \cup {Nobody}
    BY <1>0, <2>1, <2>2 DEF AskersHavePresented, Tables
  <2>4. RegistryTypeOK'
    BY <1>0, <1>2, <2>3 DEF HashHit, AnswerFrom, Enter, RegistryTypeOK
  <2>5. AskersHavePresented' /\ BuilderHoldsLock' /\ SnapshotIsServed' /\ AskersMayBeServed'
    BY <1>0, <1>2, <2>1
    DEF HashHit, AnswerFrom, Enter, RegistryTypeOK, AskersHavePresented, BuilderHoldsLock,
        SnapshotIsServed, AskersMayBeServed, Asking, Served
  <2>6. AnswersAreCurrent'
    BY <1>0, <1>2, <2>2 DEF HashHit, AnswerFrom, Enter, RegistryTypeOK, AnswersAreCurrent
  <2> QED BY <2>4, <2>5, <2>6 DEF RegistryInv
<1>3. ASSUME NEW h \in Handlers, LockMiss(h) PROVE RegistryInv'
  <2>1. Current' = Current /\ Replaced' = Replaced /\ presented' = presented /\ verdict' = verdict
    BY <1>3, SameRows DEF LockMiss, readerVars, Replaced
  <2>2. RegistryTypeOK'
    BY <1>0, <1>3, <2>1 DEF LockMiss, Enter, RegistryTypeOK
  <2>3. AskersHavePresented' /\ BuilderHoldsLock' /\ SnapshotIsServed'
    BY <1>0, <1>3, <2>1
    DEF LockMiss, Enter, RegistryTypeOK, AskersHavePresented, BuilderHoldsLock, SnapshotIsServed, Asking, Served
  <2>4. AskersMayBeServed' /\ AnswersAreCurrent'
    BY <1>0, <1>3, <2>1
    DEF LockMiss, Enter, RegistryTypeOK, AskersMayBeServed, AnswersAreCurrent, Asking, Served
  <2> QED BY <2>2, <2>3, <2>4 DEF RegistryInv
<1>4. ASSUME NEW h \in Handlers, QueryApps(h) PROVE RegistryInv'
  <2>1. Current' = Current /\ Replaced' = Replaced /\ presented' = presented /\ verdict' = verdict
    BY <1>4, SameRows DEF QueryApps, readerVars, Replaced
  <2>2. RegistryTypeOK'
    BY <1>0, <1>4, <2>1 DEF QueryApps, Enter, RegistryTypeOK
  <2>3. AskersHavePresented' /\ BuilderHoldsLock' /\ SnapshotIsServed'
    BY <1>0, <1>4, <2>1
    DEF QueryApps, Enter, RegistryTypeOK, AskersHavePresented, BuilderHoldsLock, SnapshotIsServed, Asking, Served
  <2>4. AskersMayBeServed' /\ AnswersAreCurrent'
    BY <1>0, <1>4, <2>1
    DEF QueryApps, Enter, RegistryTypeOK, AskersMayBeServed, AnswersAreCurrent, Asking, Served
  <2> QED BY <2>2, <2>3, <2>4 DEF RegistryInv
<1>5. ASSUME NEW h \in Handlers, QueryAppsFails(h) PROVE RegistryInv'
  <2>1. Current' = Current /\ Replaced' = Replaced /\ verdict' = verdict
    BY <1>5, SameRows DEF QueryAppsFails, Replaced
  <2>2. RegistryTypeOK'
    BY <1>0, <1>5 DEF QueryAppsFails, Enter, RegistryTypeOK
  <2>3. AskersHavePresented' /\ SnapshotIsServed' /\ AskersMayBeServed' /\ AnswersAreCurrent'
    BY <1>0, <1>5, <2>1
    DEF QueryAppsFails, Enter, RegistryTypeOK, AskersHavePresented, SnapshotIsServed, AskersMayBeServed,
        AnswersAreCurrent, Asking, Served
  <2>4. BuilderHoldsLock'
    BY <1>0, <1>5 DEF QueryAppsFails, Enter, RegistryTypeOK, BuilderHoldsLock
  <2> QED BY <2>2, <2>3, <2>4 DEF RegistryInv
<1>6. ASSUME NEW h \in Handlers, PublishHashes(h) PROVE RegistryInv'
  <2>1. Current' = Current /\ Replaced' = Replaced /\ h \in Asking
    BY <1>6, SameRows DEF PublishHashes, AnswerFrom, Replaced, Asking
  <2>2. building \in Tables /\ building \in allowed[h]
    BY <1>0, <1>6, <2>1
    DEF PublishHashes, RegistryTypeOK, SnapshotIsServed, AskersMayBeServed, BuilderHoldsLock
  <2>3. presented[h] \in Secrets /\ building[presented[h]] \in Registrable \cup {Nobody}
    BY <1>0, <2>1, <2>2 DEF AskersHavePresented, Tables
  <2>4. RegistryTypeOK'
    BY <1>0, <1>6, <2>2, <2>3 DEF PublishHashes, AnswerFrom, Enter, RegistryTypeOK
  <2>5. AskersHavePresented' /\ BuilderHoldsLock' /\ SnapshotIsServed' /\ AskersMayBeServed'
    BY <1>0, <1>6, <2>1
    DEF PublishHashes, AnswerFrom, Enter, RegistryTypeOK, AskersHavePresented, BuilderHoldsLock,
        SnapshotIsServed, AskersMayBeServed, Asking, Served
  <2>6. AnswersAreCurrent'
    BY <1>0, <1>6, <2>2 DEF PublishHashes, AnswerFrom, Enter, RegistryTypeOK, AnswersAreCurrent
  <2> QED BY <2>4, <2>5, <2>6 DEF RegistryInv
<1>7. ASSUME NEW h \in Handlers, Admit(h) PROVE RegistryInv'
  <2>1. Current' = Current /\ Replaced' = Replaced
    BY <1>7, SameRows DEF Admit, Replaced
  <2>2. RegistryTypeOK'
    BY <1>0, <1>7 DEF Admit, Enter, RegistryTypeOK
  <2>3. AskersHavePresented' /\ SnapshotIsServed' /\ AskersMayBeServed' /\ AnswersAreCurrent' /\ BuilderHoldsLock'
    BY <1>0, <1>7, <2>1
    DEF Admit, Enter, RegistryTypeOK, AskersHavePresented, SnapshotIsServed, AskersMayBeServed,
        AnswersAreCurrent, BuilderHoldsLock, Asking, Served
  <2> QED BY <2>2, <2>3 DEF RegistryInv
<1>8. ASSUME NEW h \in Handlers, NEW a \in Registrable, NEW s \in Secrets,
             Create(h, a, s) \/ (\E flag \in BOOLEAN : Change(h, a, s, flag))
      PROVE  RegistryInv'
  <2>1. PICK rows \in [Registrable -> Row \cup {NoRow}] : Committed(h, rows)
    <3>1. \A r \in Row \cup {NoRow} : [rowOf EXCEPT ![a] = r] \in [Registrable -> Row \cup {NoRow}]
      BY <1>0 DEF RegistryTypeOK
    <3>2. \A flag \in BOOLEAN : [secret |-> s, enabled |-> flag] \in Row
      BY DEF Row
    <3> QED BY <1>8, <3>1, <3>2 DEF Create, Change
  <2> QED BY <2>1, CommittedKeepsInv
<1>9. ASSUME NEW h \in Handlers, NEW a \in Registrable, Delete(h, a) PROVE RegistryInv'
  <2>1. [rowOf EXCEPT ![a] = NoRow] \in [Registrable -> Row \cup {NoRow}]
    BY <1>0 DEF RegistryTypeOK
  <2> QED BY <1>9, <2>1, CommittedKeepsInv DEF Delete
<1>10. ASSUME NEW h \in Handlers, Drop(h) PROVE RegistryInv'
  <2>1. /\ Current' = Current /\ Replaced' \subseteq Replaced
        /\ presented' = presented /\ verdict' = verdict /\ building = NoTable
    BY <1>0, <1>10, SameRows DEF Drop, readerVars, Replaced, BuilderHoldsLock
  <2>2. RegistryTypeOK'
    BY <1>0, <1>10, <2>1 DEF Drop, Enter, RegistryTypeOK
  <2>3. Asking' = Asking
    BY <1>0, <1>10 DEF Drop, Enter, RegistryTypeOK, Asking
  <2>4. AskersHavePresented' /\ SnapshotIsServed' /\ AskersMayBeServed' /\ BuilderHoldsLock'
    BY <1>0, <1>10, <2>1, <2>3
    DEF Drop, Enter, RegistryTypeOK, AskersHavePresented, SnapshotIsServed, AskersMayBeServed,
        BuilderHoldsLock, Served
  <2>5. AnswersAreCurrent'
    BY <1>0, <1>10, <2>1 DEF Drop, Enter, RegistryTypeOK, AnswersAreCurrent
  <2> QED BY <2>2, <2>4, <2>5 DEF RegistryInv
<1>11. CASE UNCHANGED registryVars
  BY <1>0, <1>11, SameRows
  DEF registryVars, readerVars, RegistryInv, RegistryTypeOK, AskersHavePresented, SnapshotIsServed,
      AskersMayBeServed, AnswersAreCurrent, BuilderHoldsLock, Asking, Served, Replaced
<1> QED
  BY <1>1, <1>2, <1>3, <1>4, <1>5, <1>6, <1>7, <1>8, <1>9, <1>10, <1>11 DEF RegistryNext

=============================================================================
