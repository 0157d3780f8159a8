------------------------------- MODULE AdminUI -------------------------------
(***************************************************************************)
(* The pages of AdminRouter (web/admin/src/App.tsx:124-147), one of which  *)
(* is mounted at a time: a behaviour is a visit of one page.  Leaving it   *)
(* drops its state, and an answer that arrives later does nothing to it,   *)
(* except that a submission of AppForm still navigates when it ends.       *)
(* On no page, webhooks arrive while applications are changed.             *)
(***************************************************************************)
EXTENDS LogViews, HistoryPage, AppsPage, AppFormPage, ServiceUnit, TokenSettings, AccountPages, EditorText, AppRegistry

VARIABLE visit   \* The page.

uiVars == <<visit, logVars, historyVars, appsVars, formVars, unitVars, settingsVars, accountVars, registryVars, written>>

Pages == {"logs", "history", "apps", "form", "unit", "settings", "account", "text", "webhook"}

(* What differs at the start differs on the page that is visited only.     *)
UIInit ==
  /\ visit \in Pages
  /\ LogsInit /\ HistoryInit /\ AppsInit /\ FormInit /\ UnitInit /\ SettingsInit /\ AccountInit /\ RegistryInit
  /\ visit # "apps" => registry = [a \in Listable |-> "enabled"]
  /\ visit # "form" => ~editing /\ form = Empty
  /\ visit # "unit" => file = Absent
  /\ visit # "settings" => {envToken, dbToken} = {NoText}
  /\ visit # "webhook" => rowOf = [a \in Registrable |-> NoRow]
  /\ written \in IF visit = "text"
                 THEN [args : ArgLists, env : {<<>>}] \cup [args : {<<>>}, env : EnvLists]
                 ELSE {[args |-> <<>>, env |-> <<>>]}

On(page, action, others) == visit = page /\ action /\ UNCHANGED <<visit, written, others>>

Logs == On("logs", LogsNext,
           <<historyVars, appsVars, formVars, unitVars, settingsVars, accountVars, registryVars>>)
History == On("history", HistoryNext,
              <<logVars, appsVars, formVars, unitVars, settingsVars, accountVars, registryVars>>)
AppList == On("apps", AppsNext,
              <<logVars, historyVars, formVars, unitVars, settingsVars, accountVars, registryVars>>)
Form == On("form", FormNext,
           <<logVars, historyVars, appsVars, unitVars, settingsVars, accountVars, registryVars>>)
Unit == On("unit", UnitNext,
           <<logVars, historyVars, appsVars, formVars, settingsVars, accountVars, registryVars>>)
Settings == On("settings", SettingsNext,
               <<logVars, historyVars, appsVars, formVars, unitVars, accountVars, registryVars>>)
Account == On("account", AccountNext,
              <<logVars, historyVars, appsVars, formVars, unitVars, settingsVars, registryVars>>)
Webhooks == On("webhook", RegistryNext,
               <<logVars, historyVars, appsVars, formVars, unitVars, settingsVars, accountVars>>)

UINext == Logs \/ History \/ AppList \/ Form \/ Unit \/ Settings \/ Account \/ Webhooks

(* A timer fires and a request is answered, if only by an error.  A step   *)
(* of UINext that is one of these leaves the other pages alone.            *)
TimerOf(j) == visit = "history" /\ \E t \in timers : t.job = j /\ TimerFires(t)
RowsAnswer == visit = "history" /\ \E l \in loads : CountRows(l) \/ ListRows(l) \/ RowsArrive(l)
ServiceAnswer(a) == visit = "apps" /\ StatusArrives(a)
AccountAnswer == visit = "account" /\ AccountAnswers

UISpec ==
  /\ UIInit /\ [][UINext]_uiVars
  /\ \A j \in RetryJobs : WF_historyVars(TimerOf(j))
  /\ WF_historyVars(RowsAnswer)
  /\ \A a \in Listable : WF_appsVars(ServiceAnswer(a))
  /\ WF_accountVars(AccountAnswer)

UITypeOK ==
  /\ visit \in Pages
  /\ LogsTypeOK /\ HistoryTypeOK /\ AppsTypeOK /\ FormTypeOK /\ UnitTypeOK /\ SettingsTypeOK /\ AccountTypeOK
  /\ TextTypeOK /\ RegistryTypeOK

=============================================================================
