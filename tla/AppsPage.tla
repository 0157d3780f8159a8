------------------------------ MODULE AppsPage ------------------------------
(***************************************************************************)
(* AppsList (web/admin/src/AppsList.tsx): the page that lists the          *)
(* registered applications, with the state of each one's service and the   *)
(* releases it can deploy, and that toggles, deletes, deploys and controls *)
(* them.  Requests are served and answered in any order.                   *)
(*                                                                         *)
(* The two effects of the page run with the event that changed the list:   *)
(* they ask for the service status of every application that has none and  *)
(* for the releases of every enabled one that has none.                    *)
(***************************************************************************)
EXTENDS Naturals, FiniteSets

CONSTANTS
  Listable,    \* The applications there are at first.
  MaxOrders,   \* Bound: what the operator asks for in one visit.
  NoApp

ASSUME AppsAssumption == NoApp \notin Listable /\ MaxOrders \in Nat

VARIABLES
  registry,    \* On the server: what each application is.
  apps,        \* The page's copy.
  appLoads,    \* Requests for the list.
  orders,      \* Requests to toggle, delete, deploy or cancel.
  statusMap,   \* The status shown of each service; "none" until it is asked for.
  probes,      \* How many requests for a status each service has.
  controls,    \* How many requests to start, stop or restart it.
  controlBusy, \* controlBusyId.
  releases,    \* releasesByApp, "none" until there is a value.
  fetching,    \* releasesLoading.
  fetched,     \* Counts the requests for releases of each application.
  given,       \* Counts the operator's orders, see MaxOrders.
  overlapped,  \* The list was loaded while it was being loaded, or failed to.
  unheard      \* What was changed by requests answered with an error since a list was read.

pageState == <<statusMap, probes, controls, controlBusy, releases, fetching, fetched>>
appsVars == <<registry, apps, appLoads, orders, pageState, given, overlapped, unheard>>

States == {"enabled", "disabled", "gone"}
Kinds == {"enable", "disable", "delete", "deploy", "cancel"}
NotYet == [served |-> FALSE, list |-> [a \in Listable |-> "gone"]]

AppsInit ==
  /\ registry \in [Listable -> {"enabled", "disabled"}]
  /\ apps = [a \in Listable |-> "gone"]
  /\ appLoads = {NotYet} /\ orders = {}
  /\ statusMap = [a \in Listable |-> "none"] /\ probes = [a \in Listable |-> 0]
  /\ controls = [a \in Listable |-> 0] /\ controlBusy = NoApp
  /\ releases = [a \in Listable |-> "none"] /\ fetching = {}
  /\ fetched = [a \in Listable |-> 0]
  /\ given = 0 /\ overlapped = FALSE /\ unheard = {}

-----------------------------------------------------------------------------
(* The list, and the effects that follow it.                               *)

LoadApps == appLoads' = appLoads \cup {NotYet} /\ overlapped' = (overlapped \/ appLoads # {})

ServeApps(l) ==
  /\ ~l.served
  /\ appLoads' = (appLoads \ {l}) \cup {[served |-> TRUE, list |-> registry]}
  /\ unheard' = {}
  /\ UNCHANGED <<registry, apps, orders, pageState, given, overlapped>>

Unprobed(list) == {a \in Listable : list[a] # "gone" /\ statusMap[a] = "none"}
ProbeEffect(list) ==
  /\ statusMap' = [a \in Listable |-> IF a \in Unprobed(list) THEN "..." ELSE statusMap[a]]
  /\ probes' = [a \in Listable |-> IF a \in Unprobed(list) THEN probes[a] + 1 ELSE probes[a]]

FetchEffect(list, have, busy) ==
  LET missing == {a \in Listable : /\ list[a] = "enabled"
                                   /\ have[a] = "none" /\ a \notin busy}
  IN  /\ releases' = have /\ fetching' = busy \cup missing
      /\ fetched' = [a \in Listable |-> IF a \in missing THEN fetched[a] + 1 ELSE fetched[a]]

AppsArrive(l) ==
  /\ l.served /\ appLoads' = appLoads \ {l}
  /\ apps' = l.list
  /\ ProbeEffect(l.list) /\ FetchEffect(l.list, releases, fetching)
  /\ UNCHANGED <<registry, orders, controls, controlBusy, given, overlapped, unheard>>

AppsFail(l) ==
  /\ appLoads' = appLoads \ {l} /\ overlapped' = TRUE
  /\ UNCHANGED <<registry, apps, orders, pageState, given, unheard>>

-----------------------------------------------------------------------------
(* What the operator does with an application of the list.                 *)

Order ==
  /\ given < MaxOrders /\ given' = given + 1

(* The form to deploy is there for an enabled application whose releases   *)
(* are known; Cancel for whatever has no job that ended.                   *)
Offered(kind, a) ==
  CASE kind = "enable"  -> apps[a] = "disabled"
    [] kind = "disable" -> apps[a] = "enabled"
    [] kind = "deploy"  -> apps[a] = "enabled" /\ a \notin fetching
    [] OTHER            -> apps[a] # "gone"

(* A deploy and a cancel change jobs, whose state the page learns from the *)
(* live progress.                                                          *)
Outcome(kind) ==
  CASE kind = "delete"  -> "gone"
    [] kind = "enable"  -> "enabled"
    [] kind = "disable" -> "disabled"
    [] OTHER            -> "as it is"

Send(kind, a) ==
  /\ Offered(kind, a) /\ Order
  /\ orders' = orders \cup {[to |-> Outcome(kind), app |-> a, answer |-> "none"]}
  /\ UNCHANGED <<registry, apps, appLoads, pageState, overlapped, unheard>>

Replied(o, answer) == orders' = (orders \ {o}) \cup {[o EXCEPT !.answer = answer]}

(* A request that was carried out may be answered with an error: what      *)
(* ToggleApp reads after its write fails, or the answer is lost.           *)
ServeOrder(o) ==
  /\ o.answer = "none"
  /\ \/ /\ registry[o.app] # "gone"
        /\ registry' = IF o.to = "as it is" THEN registry ELSE [registry EXCEPT ![o.app] = o.to]
        /\ \/ Replied(o, "ok") /\ UNCHANGED unheard
           \/ /\ Replied(o, "error")
              /\ unheard' = unheard \cup {a \in Listable : registry'[a] # registry[a]}
     \/ Replied(o, "error") /\ UNCHANGED <<registry, unheard>>
  /\ UNCHANGED <<apps, appLoads, pageState, given, overlapped>>

(* Variant: the answer to a delete shows a message and nothing else.       *)
OrderAnsweredNoReload(o) ==
  /\ o.answer # "none" /\ orders' = orders \ {o}
  /\ IF o.answer = "ok" /\ o.to # "gone" THEN LoadApps ELSE UNCHANGED <<appLoads, overlapped>>
  /\ UNCHANGED <<registry, apps, pageState, given, unheard>>

OrderAnswered(o) ==
  /\ o.answer # "none" /\ orders' = orders \ {o}
  /\ IF o.answer = "ok" THEN LoadApps ELSE UNCHANGED <<appLoads, overlapped>>
  /\ UNCHANGED <<registry, apps, pageState, given, unheard>>

-----------------------------------------------------------------------------
(* The state of the services.                                              *)

Others == <<registry, apps, appLoads, orders, releases, fetching, fetched, overlapped, unheard>>

(* Variant: an error leaves the placeholder.                               *)
StatusArrivesOrNot(a) ==
  /\ probes[a] > 0 /\ probes' = [probes EXCEPT ![a] = @ - 1]
  /\ statusMap' \in {statusMap, [statusMap EXCEPT ![a] = "shown"]}
  /\ UNCHANGED <<Others, controls, controlBusy, given>>

(* An error shows "unknown".                                               *)
StatusArrives(a) ==
  /\ probes[a] > 0 /\ probes' = [probes EXCEPT ![a] = @ - 1]
  /\ statusMap' = [statusMap EXCEPT ![a] = "shown"]
  /\ UNCHANGED <<Others, controls, controlBusy, given>>

Control(a) ==
  /\ apps[a] # "gone" /\ controlBusy # a /\ Order
  /\ controlBusy' = a /\ controls' = [controls EXCEPT ![a] = @ + 1]
  /\ UNCHANGED <<Others, statusMap, probes>>

(* finally frees the buttons, whichever application's request it is.       *)
ControlAnswered(a) ==
  /\ controls[a] > 0 /\ controls' = [controls EXCEPT ![a] = @ - 1]
  /\ controlBusy' = NoApp
  /\ \/ statusMap' = [statusMap EXCEPT ![a] = "shown"] /\ UNCHANGED probes
     \/ probes' = [probes EXCEPT ![a] = @ + 1] /\ UNCHANGED statusMap
  /\ UNCHANGED <<Others, given>>

-----------------------------------------------------------------------------
(* The releases.                                                           *)

Rest == <<registry, apps, appLoads, orders, statusMap, probes, controls, controlBusy,
          given, overlapped, unheard>>

(* Variant: an error records no result.                                    *)
ReleasesArriveOrNot(a) ==
  /\ a \in fetching
  /\ \E value \in {"listed", "none"} :
       FetchEffect(apps, [releases EXCEPT ![a] = value], fetching \ {a})
  /\ UNCHANGED Rest

(* An error records an empty list: a text field takes the list's place.    *)
ReleasesArrive(a) ==
  /\ a \in fetching
  /\ FetchEffect(apps, [releases EXCEPT ![a] = "listed"], fetching \ {a})
  /\ UNCHANGED Rest

AppsOperator ==
  \E a \in Listable : Control(a) \/ \E kind \in Kinds : Send(kind, a)

AppsAnswers ==
  \/ \E l \in appLoads : ServeApps(l) \/ AppsArrive(l) \/ AppsFail(l)
  \/ \E o \in orders : ServeOrder(o) \/ OrderAnswered(o)
  \/ \E a \in Listable : StatusArrives(a) \/ ControlAnswered(a) \/ ReleasesArrive(a)

AppsNext == AppsOperator \/ AppsAnswers

-----------------------------------------------------------------------------

AppsTypeOK ==
  /\ registry \in [Listable -> States] /\ apps \in [Listable -> States]
  /\ appLoads \subseteq [served : BOOLEAN, list : [Listable -> States]]
  /\ orders \subseteq [to : States \cup {"as it is"}, app : Listable, answer : {"none", "ok", "error"}]
  /\ statusMap \in [Listable -> {"none", "...", "shown"}]
  /\ probes \in [Listable -> Nat] /\ controls \in [Listable -> Nat] /\ fetched \in [Listable -> Nat]
  /\ controlBusy \in Listable \cup {NoApp}
  /\ releases \in [Listable -> {"none", "listed"}] /\ fetching \subseteq Listable
  /\ given \in 0 .. MaxOrders /\ overlapped \in BOOLEAN /\ unheard \subseteq Listable

(***************************************************************************)
(* AppsList.tsx:124-128: the releases of an application are asked for once *)
(* per visit, whatever the answer is and whatever changes the list, so     *)
(* that an endpoint that fails is not asked again at every render.         *)
(***************************************************************************)
ReleasesAskedOnce == \A a \in Listable : fetched[a] <= 1

(***************************************************************************)
(* When nothing is on its way, the list is the server's: what an accepted  *)
(* request changed is shown.  What a request changed that was answered     *)
(* with an error is not, until the next list is read: the page loads none  *)
(* after an error.  Two loads at once may answer the wrong way round and a *)
(* load may fail, which overlapped excludes.                               *)
(***************************************************************************)
ListIsFresh ==
  appLoads = {} /\ orders = {} /\ ~overlapped =>
    \A a \in Listable \ unheard : apps[a] = registry[a]

(***************************************************************************)
(* The placeholder of a service's status gives way to a status, whether    *)
(* the request for it succeeds or not.                                     *)
(***************************************************************************)
StatusSettles == \A a \in Listable : statusMap[a] = "..." ~> statusMap[a] # "..."

=============================================================================
