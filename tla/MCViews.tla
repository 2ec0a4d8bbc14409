------------------------------- MODULE MCViews -------------------------------
(* The program without a hub, and what the hub's pages show and let the user change: parts
   that share no state.  A behaviour is one of any of them, chosen in the initial state,
   and the others stay where they begin.  One run checks them all; each is a specification
   of its own too. *)
EXTENDS StandaloneProgram, FleetScores, FleetPages, HostGroups, HubSettings, ContainerPage

VARIABLE part  \* the part that runs

CONSTANTS h1, h2

(* Constants.                                                              *)

\* A host with a high cpu and a full memory that does not tell its load, and one that
\* tells no cpu: their scores have other weights and are rounded.
SomeSamples ==
    [h \in FleetHost |->
        IF h = h1 THEN {[cpu |-> 84, memory |-> 95, load |-> NotMeasured]}
        ELSE {[cpu |-> NotMeasured, memory |-> 80, load |-> 3]}]

-----------------------------------------------------------------------------
Parts == {"standalone", "scores", "pages", "groups", "settings", "container"}

\* The parts that do not run begin in one state.
ViewsInit ==
    /\ part \in Parts
    /\ StandaloneInit
    /\ part # "standalone" => sort = "disk_full"
    /\ ScoresInit
    /\ PagesInit
    /\ GroupsInit
    /\ part # "groups" => \A h \in GroupHost : setting[h] = NULL
    /\ SettingsInit
    /\ part # "settings" => followed = "threshold" /\ envValue = NONE
    /\ ContainerPageInit

ViewsNext ==
    /\ UNCHANGED part
    /\ \/ /\ part = "standalone" /\ StandaloneNext
          /\ UNCHANGED <<scoreVars, pageVars, groupVars, settingVars, containerPageVars>>
       \/ /\ part = "scores" /\ ScoresNext
          /\ UNCHANGED <<standaloneVars, pageVars, groupVars, settingVars, containerPageVars>>
       \/ /\ part = "pages" /\ PagesNext
          /\ UNCHANGED <<standaloneVars, scoreVars, groupVars, settingVars, containerPageVars>>
       \/ /\ part = "groups" /\ GroupsNext
          /\ UNCHANGED <<standaloneVars, scoreVars, pageVars, settingVars, containerPageVars>>
       \/ /\ part = "settings" /\ SettingsNext
          /\ UNCHANGED <<standaloneVars, scoreVars, pageVars, groupVars, containerPageVars>>
       \/ /\ part = "container" /\ ContainerPageNext
          /\ UNCHANGED <<standaloneVars, scoreVars, pageVars, groupVars, settingVars>>

viewVars ==
    <<part, standaloneVars, scoreVars, pageVars, groupVars, settingVars, containerPageVars>>

\* The fairness of each part, while it is the one that runs.
ViewsFairness ==
    /\ WF_standaloneVars(part = "standalone" /\ \E c \in Cycle : StartCycle(c))
    /\ \A c \in Cycle : SF_standaloneVars(part = "standalone" /\ FinishCycle(c))
    /\ WF_groupVars(part = "groups" /\ HandleRequest)
    /\ WF_groupVars(part = "groups" /\ Fetch)
    /\ WF_groupVars(part = "groups" /\ Fetched)
    /\ \A h \in GroupHost : WF_groupVars(part = "groups" /\ ReportGroup(h))
    /\ WF_containerPageVars(part = "container" /\ \E f \in flights : ActionAnswered(f) \/ RemovalAnswered(f))
    /\ WF_containerPageVars(part = "container" /\ \E f \in flights : LogsAnswered(f))

ViewsSpec == ViewsInit /\ [][ViewsNext]_viewVars /\ ViewsFairness

-----------------------------------------------------------------------------
(* The part that runs keeps to its types; the others do not move.          *)
ViewsTypeOK ==
    /\ part = "standalone" => StandaloneTypeOK
    /\ part = "scores" => ScoresTypeOK
    /\ part = "pages" => PagesTypeOK
    /\ part = "groups" => GroupsTypeOK
    /\ part = "settings" => SettingsTypeOK
    /\ part = "container" => ContainerPageTypeOK

\* GroupsHold, of the behaviours in which there are groups: a host that a user took out of
\* a group stays out, and the board shows it where it is (handlers.ts, HostsPage.tsx).
BoardIsTrue == part = "groups" => GroupsHold

\* ContainerPageHolds, of the behaviours in which that page is open: what a user sees and
\* begins there is of that container (ContainerDetailPage.tsx, handlers.ts).
PageIsSound == part = "container" => ContainerPageHolds
=============================================================================
