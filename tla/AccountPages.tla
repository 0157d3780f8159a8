---------------------------- MODULE AccountPages ----------------------------
(***************************************************************************)
(* The account of the admin page: App (web/admin/src/App.tsx), which asks  *)
(* for it before it shows anything and shuts the page on the seeded        *)
(* password, and the forms of Account.tsx, with the handlers they call     *)
(* (internal/admin/admin_account.go).                                      *)
(***************************************************************************)
EXTENDS Naturals

CONSTANTS
  Names, DefaultName,
  NoAccount,
  MaxChanges   \* Bound: submissions.

ASSUME AccountAssumption ==
  /\ DefaultName \in Names /\ MaxChanges \in Nat
  /\ NoAccount \notin [name : Names, must : BOOLEAN]

VARIABLES
  user,           \* On the server: username and mustChangePassword.
  account,        \* App's account.
  accountLoaded,
  accountProbes,  \* Requests for the account.
  busy,           \* Forms with a request that runs.
  changes,        \* Those requests.
  changesSent,    \* Counts them, see MaxChanges.
  accepted        \* The page was told of a new password and has not opened since.

accountVars == <<user, account, accountLoaded, accountProbes, busy, changes,
                 changesSent, accepted>>

Users == [name : Names, must : BOOLEAN]
Forms == {"force", "password", "username"}
NewProbe == [served |-> FALSE, answer |-> NoAccount]

AccountInit ==
  /\ user = [name |-> DefaultName, must |-> TRUE]
  /\ account = NoAccount /\ accountLoaded = FALSE /\ accountProbes = {NewProbe}
  /\ busy = {} /\ changes = {} /\ changesSent = 0 /\ accepted = FALSE

(* What App renders.                                                       *)
Screen ==
  IF ~accountLoaded THEN "nothing"
  ELSE IF account # NoAccount /\ account.must THEN "force" ELSE "pages"

-----------------------------------------------------------------------------
(* refreshAccount.                                                         *)

ServeAccount(p) ==
  /\ ~p.served
  /\ accountProbes' = (accountProbes \ {p}) \cup {[served |-> TRUE, answer |-> user]}
  /\ UNCHANGED <<user, account, accountLoaded, busy, changes, changesSent, accepted>>

(* An error leaves no account, and the pages are shown.                    *)
AccountArrives(p) ==
  /\ p.served /\ accountProbes' = accountProbes \ {p}
  /\ account' \in {p.answer, NoAccount} /\ accountLoaded' = TRUE
  /\ accepted' = (accepted /\ Screen' = "force")
  /\ UNCHANGED <<user, busy, changes, changesSent>>

-----------------------------------------------------------------------------
(* The forms.                                                              *)

OnScreen(f) == Screen = IF f = "force" THEN "force" ELSE "pages"

(* Variant: the page unlocks itself when the new password is sent.         *)
SubmitFormAndUnlock(f, name) ==
  /\ OnScreen(f) /\ f \notin busy /\ changesSent < MaxChanges
  /\ changesSent' = changesSent + 1 /\ busy' = busy \cup {f}
  /\ changes' = changes \cup {[form |-> f, name |-> name, answer |-> "none"]}
  /\ account' = IF f = "force" THEN [account EXCEPT !.must = FALSE] ELSE account
  /\ UNCHANGED <<user, accountLoaded, accountProbes, accepted>>

SubmitForm(f, name) ==
  /\ OnScreen(f) /\ f \notin busy /\ changesSent < MaxChanges
  /\ changesSent' = changesSent + 1 /\ busy' = busy \cup {f}
  /\ changes' = changes \cup {[form |-> f, name |-> name, answer |-> "none"]}
  /\ UNCHANGED <<user, account, accountLoaded, accountProbes, accepted>>

Changed(c) ==
  IF c.form = "username" THEN [user EXCEPT !.name = c.name] ELSE [user EXCEPT !.must = FALSE]

(* The change is made and answered, made with its answer lost, or refused. *)
ServeChange(c) ==
  /\ c.answer = "none"
  /\ \E answer \in {"ok", "error"} :
       changes' = (changes \ {c}) \cup {[c EXCEPT !.answer = answer]}
  /\ \/ user' = Changed(c)
     \/ user' = user /\ \A d \in changes' : d.form = c.form => d.answer = "error"
  /\ UNCHANGED <<account, accountLoaded, accountProbes, busy, changesSent, accepted>>

(* Variant: the form does not tell App.                                    *)
AnsweredQuietly(c) ==
  /\ c.answer # "none" /\ changes' = changes \ {c} /\ busy' = busy \ {c.form}
  /\ accepted' = (accepted \/ (c.form = "force" /\ c.answer = "ok"))
  /\ UNCHANGED <<user, account, accountLoaded, accountProbes, changesSent>>

(* onDone and onUpdated ask for the account again; finally ends busy.      *)
Answered(c) ==
  /\ c.answer # "none" /\ changes' = changes \ {c} /\ busy' = busy \ {c.form}
  /\ accepted' = (accepted \/ (c.form = "force" /\ c.answer = "ok"))
  /\ accountProbes' = IF c.answer = "ok" /\ c.form # "password"
                      THEN accountProbes \cup {NewProbe} ELSE accountProbes
  /\ UNCHANGED <<user, account, accountLoaded, changesSent>>

AccountAnswers ==
  \/ \E p \in accountProbes : ServeAccount(p) \/ AccountArrives(p)
  \/ \E c \in changes : ServeChange(c) \/ Answered(c)

AccountNext ==
  AccountAnswers \/ \E f \in Forms, name \in Names : SubmitForm(f, name)

-----------------------------------------------------------------------------

AccountTypeOK ==
  /\ user \in Users /\ account \in Users \cup {NoAccount}
  /\ {accountLoaded, accepted} \subseteq BOOLEAN
  /\ accountProbes \subseteq [served : BOOLEAN, answer : Users \cup {NoAccount}]
  /\ busy \subseteq Forms /\ changesSent \in 0 .. MaxChanges
  /\ changes \subseteq [form : Forms, name : Names, answer : {"none", "ok", "error"}]

(***************************************************************************)
(* App.tsx:178-180: the pages stay unmounted until the seeded password is  *)
(* replaced on the server.  An account that could not be asked for opens   *)
(* them all the same.                                                      *)
(***************************************************************************)
GateHolds == Screen = "pages" /\ account # NoAccount => ~user.must

(***************************************************************************)
(* Once the page was told that the password is replaced, it opens.  An     *)
(* older answer about the account that arrives after that shuts it again   *)
(* until the next.                                                         *)
(***************************************************************************)
GateOpens == accepted ~> ~accepted

=============================================================================
