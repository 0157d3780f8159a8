--------------------------- MODULE AdminUIProofs ----------------------------
(***************************************************************************)
(* What the pages keep in every visit.  A step of AdminUI is a step of the *)
(* visited page, or of the registry, and leaves the state of the others    *)
(* alone, so that the invariant of each module holds of a visit.           *)
(***************************************************************************)
EXTENDS AdminUI, ListPagesProofs, FormPagesProofs, EditorTextProofs

LEMMA UIInitFacts == UIInit => LogsInit /\ HistoryInit /\ AppsInit /\ FormInit /\ UnitInit /\ SettingsInit
                         /\ AccountInit /\ RegistryInit
  BY DEF UIInit

LEMMA UIStep ==
  [UINext]_uiVars => /\ [LogsNext]_logVars /\ [HistoryNext]_historyVars /\ [AppsNext]_appsVars
                     /\ [FormNext]_formVars /\ [UnitNext]_unitVars /\ [SettingsNext]_settingsVars
                     /\ [AccountNext]_accountVars /\ [RegistryNext]_registryVars
  BY DEF UINext, Logs, History, AppList, Form, Unit, Settings, Account, Webhooks, On, uiVars

(* No step writes to the editor: it is filled when the page opens.         *)
LEMMA VisitInv == UISpec => [](visit \in Pages /\ TextTypeOK)
<1> DEFINE Inv == visit \in Pages /\ TextTypeOK
<1>1. UIInit => Inv
  <2>1. <<>> \in ArgLists /\ <<>> \in EnvLists
    <3>1. 0 \in 0 .. MaxArgs /\ 1 .. 0 = {}
      BY TextAssumption
    <3>2. ASSUME NEW S PROVE <<>> \in UNION {[1 .. m -> S] : m \in 0 .. MaxArgs}
      <4>1. <<>> \in [1 .. 0 -> S]
        OBVIOUS
      <4>2. [1 .. 0 -> S] \in {[1 .. m -> S] : m \in 0 .. MaxArgs}
        BY <3>1
      <4> QED BY <4>1, <4>2
    <3> QED BY <3>2 DEF ArgLists, EnvLists
  <2> QED BY <2>1 DEF UIInit, TextTypeOK
<1>2. Inv /\ [UINext]_uiVars => Inv'
  <2>1. [UINext]_uiVars => UNCHANGED <<visit, written>>
    BY DEF UINext, Logs, History, AppList, Form, Unit, Settings, Account, Webhooks, On, uiVars
  <2> QED BY <2>1 DEF TextTypeOK
<1> QED BY <1>1, <1>2, PTL DEF UISpec

LEMMA PagesInv == UISpec => [](/\ LogsInv /\ HistoryInv /\ AppsInv /\ FormInv
                               /\ UnitInv /\ SettingsInv /\ AccountInv /\ RegistryInv)
<1> DEFINE Inv == /\ LogsInv /\ HistoryInv /\ AppsInv /\ FormInv
                  /\ UnitInv /\ SettingsInv /\ AccountInv /\ RegistryInv
<1>1. UIInit => Inv
  BY UIInitFacts, LogsInitInv, HistoryInitInv, AppsInitInv, FormInitInv, UnitInitInv, SettingsInitInv, AccountInitInv,
     RegistryInitInv
<1>2. Inv /\ [UINext]_uiVars => Inv'
  BY UIStep, LogsStep, HistoryStep, AppsStep, FormStep, UnitStep, SettingsStep, AccountStep, RegistryStep
<1> QED BY <1>1, <1>2, PTL DEF UISpec

LEMMA WaitsInv == UISpec => [](BeliefsArePassing /\ PlaceholdersAreAsked /\ AcceptedIsAsked)
<1> DEFINE Waits == BeliefsArePassing /\ PlaceholdersAreAsked /\ AcceptedIsAsked
<1>1. UIInit => Waits
  BY UIInitFacts, BeliefsInit, PlaceholdersInit, AcceptedInit
<1>2. AppsInv /\ AccountInv /\ Waits /\ [UINext]_uiVars => Waits'
  <2>1. AppsInv => AppsTypeOK
    BY DEF AppsInv
  <2> QED BY <2>1, UIStep, BeliefsStep, PlaceholdersStep, AcceptedStep
<1> QED BY <1>1, <1>2, PagesInv, PTL DEF UISpec

(* Every page keeps its types in every visit: the messages, rows and       *)
(* fields of each are of the kinds the code gives them, the page of the    *)
(* history is at least 1, and no count of requests on their way goes below *)
(* zero.                                                                   *)
THEOREM UITypeCorrect == UISpec => []UITypeOK
<1>1. /\ LogsInv /\ HistoryInv /\ AppsInv /\ FormInv
      /\ UnitInv /\ SettingsInv /\ AccountInv /\ RegistryInv
      /\ visit \in Pages /\ TextTypeOK
      => UITypeOK
  BY DEF LogsInv, HistoryInv, AppsInv, FormInv, UnitInv, SettingsInv, AccountInv, RegistryInv, UITypeOK
<1> QED BY <1>1, PagesInv, VisitInv, PTL

(* The log that is shown is of the job or the application that was asked   *)
(* for last, in the number of lines the page says, however many requests   *)
(* are on their way and in whatever order they are answered.               *)
THEOREM LogOfSubject == UISpec => []LogIsOfSubject
<1>1. LogsInv => LogIsOfSubject
  BY DEF LogsInv
<1> QED BY <1>1, PagesInv, PTL

(* No past deploy is shown twice, for any number of retries and in         *)
(* whatever order their answers, their timers and the loads come: a row    *)
(* that a retry adds is not added to rows that hold its job, and a page of *)
(* the server's rows holds each job once.                                  *)
THEOREM NoRowTwice == UISpec => []NoDuplicateRows
<1>1. HistoryInv => NoDuplicateRows
  BY HistoryFromInv
<1> QED BY <1>1, PagesInv, PTL

(* The page that is shown is one of the pages there are, for every page    *)
(* size and history and while applications are deleted with their jobs,    *)
(* whenever the rows are those of the page's choice and no jobs were       *)
(* deleted under a page after the first.                                   *)
THEOREM PageIsThere == UISpec => []PageExists
<1>1. HistoryInv => PageExists
  BY HistoryFromInv
<1> QED BY <1>1, PagesInv, PTL

(* The list of applications asks for the releases of each one once in a    *)
(* visit, for any number of applications and of orders that change it.     *)
THEOREM ReleasesOnce == UISpec => []ReleasesAskedOnce
<1>1. AppsInv => ReleasesAskedOnce
  BY AskedFromInv
<1> QED BY <1>1, PagesInv, PTL

(* When all answers have come the list is the server's, unless two loads   *)
(* overlapped or one failed, but for the applications that a request       *)
(* changed and was answered with an error since the server last read the   *)
(* list.                                                                   *)
THEOREM ListComesFresh == UISpec => []ListIsFresh
<1>1. AppsInv => ListIsFresh
  BY FreshFromInv
<1> QED BY <1>1, PagesInv, PTL

(* A form that ends with success has stored all three parts as they were   *)
(* submitted, whatever the values are and whichever request failed before. *)
THEOREM DoneIsSaved == UISpec => []DoneMeansSaved
<1>1. FormInv => DoneMeansSaved
  BY DoneFromInv
<1> QED BY <1>1, PagesInv, PTL

(* What the operator left alone is stored as it was, however often the     *)
(* form is loaded again.                                                   *)
THEOREM UntouchedStays == UISpec => []UntouchedIsKept
<1>1. FormInv => UntouchedIsKept
  BY KeptFromInv
<1> QED BY <1>1, PagesInv, PTL

(* What the operator reviewed is what systemd has loaded after an apply    *)
(* that succeeded, for any number of applications of one unit.             *)
THEOREM ReviewedUnitIsLoaded == UISpec => []ReviewedIsLoaded
<1>1. UnitInv => ReviewedIsLoaded
  BY DEF UnitInv
<1> QED BY <1>1, PagesInv, PTL

(* A unit file written by hand survives every apply that read it.          *)
THEOREM HandWrittenUnitIsKept == UISpec => []HandWrittenIsKept
<1>1. UnitInv => HandWrittenIsKept
  BY HandWrittenFromInv
<1> QED BY <1>1, PagesInv, PTL

(* The mask that stands for a token is never stored as a token, for any    *)
(* number of operators that open, edit and save the settings.              *)
THEOREM MaskIsNeverStored == UISpec => []MaskNeverStored
<1>1. SettingsInv => MaskNeverStored
  BY TokensFromInv
<1> QED BY <1>1, PagesInv, PTL

(* The client that runs has the token that is stored when no save runs,    *)
(* whatever step of an earlier save failed, unless two saves overlapped.   *)
THEOREM LiveClientIsStored == UISpec => []LiveIsStored
<1>1. SettingsInv => LiveIsStored
  BY TokensFromInv
<1> QED BY <1>1, PagesInv, PTL

(* No page is shown that knows the account while the seeded password is in *)
(* place on the server, in whatever order the answers arrive.              *)
THEOREM SeededPasswordGates == UISpec => []GateHolds
<1>1. AccountInv => GateHolds
  BY GateFromInv
<1> QED BY <1>1, PagesInv, PTL

(* A webhook is answered from the table of a moment of its request, or of  *)
(* one before a write that had not returned when it began, for any number  *)
(* of webhooks, writers, applications and secrets.                         *)
THEOREM SecretsAreCurrent == UISpec => []AnswersAreCurrent
<1>1. RegistryInv => AnswersAreCurrent
  BY DEF RegistryInv
<1> QED BY <1>1, PagesInv, PTL

(* No row of a retry is left to the page's own belief: its status has the  *)
(* timer that takes the belief back, and the row itself an answer to come  *)
(* that replaces it, unless the last load failed; in whatever order the    *)
(* answers and the timers of the other retries come.                       *)
THEOREM BeliefPasses == UISpec => []BeliefsArePassing
  BY WaitsInv, PTL

(* No placeholder of a service's status is left standing: a request that   *)
(* replaces it is on its way, however the list is loaded and the services  *)
(* are controlled meanwhile.                                               *)
THEOREM PlaceholderHasRequest == UISpec => []PlaceholdersAreAsked
  BY WaitsInv, PTL

(* A page that was told that the seeded password is replaced, and has not  *)
(* opened since, has a request on its way whose answer opens it.           *)
THEOREM GateHasRequest == UISpec => []AcceptedIsAsked
  BY WaitsInv, PTL

(* A list of arguments or of variables that is written to an editor of the *)
(* form is read back as it was, whatever the bounds on its length and on   *)
(* the length of its texts.                                                *)
THEOREM TextsAreReadBack == UISpec => []TextsRoundTrip
  BY VisitInv, TextsAreRead, PTL

=============================================================================
