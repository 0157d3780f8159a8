--------------------------- MODULE TokenSettings ---------------------------
(***************************************************************************)
(* The pages that keep a token: GitHubSettings.tsx and TelegramSettings.tsx *)
(* of web/admin/src, with the handlers they call (internal/admin's         *)
(* admin_github.go and admin_telegram.go).  The server shows a token only  *)
(* masked, and keeps what it has when it is sent nothing or the mask.      *)
(* Several operators have the page open; a request is read, stored and     *)
(* applied to the running client in three steps, with no lock over them.   *)
(*                                                                         *)
(* A text is a token, masked or not.  Two tokens of this model never look  *)
(* the same masked.  The other fields of the Telegram page are sent as     *)
(* they are and have no rule of their own.                                 *)
(***************************************************************************)
EXTENDS Naturals, FiniteSets

CONSTANTS
  Operators, Tokens, EnvTokens,
  NoToken,
  MaxSaves,   \* Bound: submissions.
  MaxTyped    \* Bound: changes of the input.

ASSUME TokenAssumption ==
  /\ NoToken \notin Tokens \cup EnvTokens /\ Tokens \cap EnvTokens = {}
  /\ {MaxSaves, MaxTyped} \subseteq Nat

VARIABLES
  envToken,   \* GITHUB_TOKEN; none on the page of Telegram.
  dbToken,    \* The token in the database.
  live,       \* The token the client works with.
  input, saved,   \* token and savedToken of each page.
  ready,      \* Pages that have loaded.
  saves,      \* The requests to save.
  settingsSent, typed,   \* Count towards the bounds.
  crossed     \* Two saves were in progress at once.

pageTokens == <<input, saved, ready>>
settingsVars == <<envToken, dbToken, live, pageTokens, saves, settingsSent, typed, crossed>>

Text == [raw : Tokens \cup EnvTokens, masked : BOOLEAN]
Plain(t) == [raw |-> t, masked |-> FALSE]
NoText == [raw |-> NoToken, masked |-> FALSE]

(* maskBotToken.                                                           *)
Mask(text) == IF text = NoText THEN NoText ELSE [text EXCEPT !.masked = TRUE]

Effective(token) == IF token = NoText THEN envToken ELSE token

SettingsInit ==
  /\ envToken \in {NoText} \cup {Plain(t) : t \in EnvTokens}
  /\ dbToken \in {NoText} \cup {Plain(t) : t \in Tokens} /\ live = Effective(dbToken)
  /\ input = [o \in Operators |-> NoText] /\ saved = [o \in Operators |-> NoText]
  /\ ready = {} /\ saves = {} /\ settingsSent = 0 /\ typed = 0 /\ crossed = FALSE

-----------------------------------------------------------------------------
(* The page.                                                               *)

Show(o, text) ==
  /\ input' = [input EXCEPT ![o] = text] /\ saved' = [saved EXCEPT ![o] = text]

(* The first request; on an error the form is shown empty.                 *)
ConfigArrives(o) ==
  /\ o \notin ready /\ ready' = ready \cup {o}
  /\ \E text \in {Mask(Effective(dbToken)), NoText} : Show(o, text)
  /\ UNCHANGED <<envToken, dbToken, live, saves, settingsSent, typed, crossed>>

Type(o, text) ==
  /\ o \in ready /\ typed < MaxTyped /\ typed' = typed + 1
  /\ text # input[o] /\ input' = [input EXCEPT ![o] = text]
  /\ UNCHANGED <<envToken, dbToken, live, saved, ready, saves, settingsSent, crossed>>

(* Variant: what is in the input is sent.                                  *)
NextTokenAlways(o) == input[o]

(* A token that was not changed is not sent.                               *)
NextToken(o) == IF input[o] = saved[o] THEN NoText ELSE input[o]

SubmitToken(o) ==
  /\ o \in ready /\ settingsSent < MaxSaves /\ settingsSent' = settingsSent + 1
  /\ saves' = saves \cup {[id |-> settingsSent', by |-> o, token |-> NextToken(o), at |-> "sent"]}
  /\ UNCHANGED <<envToken, dbToken, live, pageTokens, typed, crossed>>

(* The page shows the answer, whatever was typed since.                    *)
TokenAnswered(s) ==
  /\ s.at \in {"done", "failed"} /\ saves' = saves \ {s}
  /\ IF s.at = "done" THEN Show(s.by, Mask(Effective(s.token))) ELSE UNCHANGED <<input, saved>>
  /\ UNCHANGED <<envToken, dbToken, live, ready, settingsSent, typed, crossed>>

-----------------------------------------------------------------------------
(* The handler.                                                            *)

To(s, at) == saves' = (saves \ {s}) \cup {[s EXCEPT !.at = at]}
InHandler == {s \in saves : s.at \in {"read", "stored"}}

(* Blank and the mask stand for the token that is stored now.              *)
ReadCurrent(s) ==
  LET kept == s.token \in {NoText, Mask(dbToken), Mask(envToken)}
  IN  /\ s.at = "sent"
      /\ saves' = (saves \ {s}) \cup
           {[s EXCEPT !.at = "read", !.token = IF kept THEN dbToken ELSE s.token]}
      /\ crossed' = (crossed \/ InHandler # {})
      /\ UNCHANGED <<envToken, dbToken, live, pageTokens, settingsSent, typed>>

(* Variant: the client has the token before it is stored.                  *)
StoreTokenAfterApply(s) ==
  /\ s.at = "read"
  /\ live' = Effective(s.token)
  /\ \/ To(s, "done") /\ dbToken' = s.token
     \/ To(s, "failed") /\ UNCHANGED dbToken
  /\ UNCHANGED <<envToken, pageTokens, settingsSent, typed, crossed>>

StoreToken(s) ==
  /\ s.at = "read"
  /\ \/ To(s, "stored") /\ dbToken' = s.token
     \/ To(s, "failed") /\ UNCHANGED dbToken
  /\ UNCHANGED <<envToken, live, pageTokens, settingsSent, typed, crossed>>

(* apply, under a mutex of its own.                                        *)
ApplyToken(s) ==
  /\ s.at = "stored"
  /\ live' = Effective(s.token) /\ To(s, "done")
  /\ UNCHANGED <<envToken, dbToken, pageTokens, settingsSent, typed, crossed>>

SettingsNext ==
  \/ \E o \in Operators : \/ ConfigArrives(o) \/ SubmitToken(o)
                          \/ \E t \in Tokens : Type(o, Plain(t))
                          \/ Type(o, NoText)
  \/ \E s \in saves : ReadCurrent(s) \/ StoreToken(s) \/ ApplyToken(s) \/ TokenAnswered(s)

-----------------------------------------------------------------------------

SettingsTypeOK ==
  /\ envToken \in Text \cup {NoText} /\ dbToken \in Text \cup {NoText}
  /\ live \in Text \cup {NoText}
  /\ {input, saved} \subseteq [Operators -> Text \cup {NoText}] /\ ready \subseteq Operators
  /\ saves \subseteq [id : 1 .. MaxSaves, by : Operators, token : Text \cup {NoText},
                      at : {"sent", "read", "stored", "done", "failed"}]
  /\ settingsSent \in 0 .. MaxSaves /\ typed \in 0 .. MaxTyped /\ crossed \in BOOLEAN

(***************************************************************************)
(* What is stored is a token and never the mask of one, also when a page   *)
(* shows the mask of a token another operator has replaced since.          *)
(***************************************************************************)
MaskNeverStored == ~dbToken.masked

(***************************************************************************)
(* The client works with the token in the database, or with the one of the *)
(* environment when there is none; a save that fails changes neither.  Two *)
(* saves at once may store in one order and apply in the other, after      *)
(* which the two differ until the next save or restart.                    *)
(***************************************************************************)
LiveIsStored == InHandler = {} /\ ~crossed => live = Effective(dbToken)

=============================================================================
