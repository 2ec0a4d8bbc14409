---------------------------- MODULE ContainerPage ----------------------------
(***************************************************************************)
(* The page of a container (ContainerDetailPage.tsx): its actions          *)
(* (useContainerAction.ts, useConfirm.ts), its logs (LogViewer.tsx) and    *)
(* its AI diagnosis (AIDiagnosisCard.tsx, ai-diagnose/), with the hub's    *)
(* handlers behind them.  The user goes from a container to the next one   *)
(* of its host, to another tab, away and back while requests are under     *)
(* way.                                                                    *)
(*                                                                         *)
(* Layout.tsx keys its outlet by the path: every change of path begins a   *)
(* page of its own, with the state of its hooks anew.  The query cache     *)
(* outlives them, and so do the requests.  The viewer and the card begin   *)
(* anew with the tab too.  mount numbers these lives; page is the number   *)
(* the page began with.                                                    *)
(*                                                                         *)
(* An operator named ...Mutant is the definition below it with a plausible *)
(* mistake; nothing refers to it, a run that swaps it in must fail.        *)
(***************************************************************************)
EXTENDS Naturals, FiniteSets

CONSTANTS
    Sibling,    \* containers of one host
    MaxMoves,   \* changes of path or tab by the user, a bound
    MaxAsked,   \* requests, a bound
    MaxChanges  \* changes of the containers, and failures to fetch one, a bound

\* "none" is the mark of the model for no container.
ASSUME ContainerPageAssumption ==
    /\ IsFiniteSet(Sibling) /\ Sibling # {} /\ "none" \notin Sibling
    /\ MaxMoves \in Nat /\ MaxAsked \in Nat /\ MaxChanges \in Nat

VARIABLES
    fate,      \* of each container: the hub lists it, it runs, its agent reports, its signals
    at,        \* the container of the page, or "none": the page of the host, or another one
    tab,       \* "overview", with the card, or "logs", with the viewer
    seen,      \* the containers as the query cache has them
    page,      \* the life of the page
    mount,     \* the life of the viewer or card
    dialog,    \* the confirmation that is open: container and action, or NoOne
    busy,      \* actionLoading, or NoOne
    banner,    \* actionResult: the container it is of, or NoOne
    viewer,    \* the logs shown: the container they are of, or NoOne
    loading,   \* the viewer waits
    answer,    \* mutation.data, or NoOne
    existing,  \* the diagnoses in the query cache: of each container, the one it is of
    diagnoses, \* ai_diagnoses: the newest row of each container, or NoOne
    flights,   \* requests under way, each with the life that asked
    asked,     \* counted up to the bound
    moves,     \* counted up to the bound
    changes,   \* counted up to the bound
    keyed      \* a shortcut asked for an action in this life of the page

containerPageVars == <<fate, at, tab, seen, page, mount, dialog, busy, banner, viewer,
                       loading, answer, existing, diagnoses, flights, asked, moves, changes,
                       keyed>>

NoOne == [of |-> "none"]
pageState == <<fate, diagnoses, changes>>
counted == <<asked, moves, changes>>
mounted == <<mount, viewer, loading, answer>>
place == <<at, tab, page>>

Known == DOMAIN seen
Rendered == at \in Known /\ ~seen[at].failed
Mounted(kind) == Rendered /\ tab = IF kind = "logs" THEN "logs" ELSE "overview"

\* The card's and the viewer's own state, when they are mounted anew.
Fresh ==
    /\ mount' = mount + 1
    /\ viewer' = NoOne /\ loading' = FALSE /\ answer' = NoOne

\* Another path: another page.
Opens(c) ==
    /\ at' = c /\ tab' = "overview" /\ page' = mount + 1
    /\ dialog' = NoOne /\ busy' = NoOne /\ banner' = NoOne /\ keyed' = FALSE
    /\ Fresh

-----------------------------------------------------------------------------
(* Where the user is.                                                      *)

Move == moves < MaxMoves /\ moves' = moves + 1

\* goToSibling, back to the host, and from there to a container.
GoTo(c) ==
    /\ c # at /\ Move
    /\ Opens(c)
    /\ UNCHANGED <<pageState, seen, existing, flights, asked>>

GoToTab(t) ==
    /\ t # tab /\ Rendered /\ Move
    /\ tab' = t
    /\ Fresh
    /\ UNCHANGED <<pageState, at, page, seen, dialog, busy, banner, existing, flights, asked,
                   keyed>>

\* What of a container decides on its buttons.
Look(c) == [running |-> fate[c].running, silent |-> fate[c].silent, failed |-> FALSE]

\* The query of the page: on its first render, every 30 seconds, and after an action.
FetchContainer ==
    /\ at # "none" /\ fate[at].listed
    /\ seen' = [c \in Known \cup {at} |-> IF c = at THEN Look(at) ELSE seen[c]]
    /\ UNCHANGED <<pageState, place, mounted, dialog, busy, banner, existing, flights, asked,
                   moves, keyed>>

\* A 404, or no answer: "Container not found" in place of the page.
FetchFails ==
    /\ Rendered
    /\ IF fate[at].listed THEN changes < MaxChanges /\ changes' = changes + 1
                          ELSE UNCHANGED changes
    /\ seen' = [seen EXCEPT ![at].failed = TRUE]
    /\ Fresh
    /\ UNCHANGED <<fate, place, dialog, busy, banner, existing, diagnoses, flights, asked,
                   moves, keyed>>

-----------------------------------------------------------------------------
(* Actions.                                                                *)

Ask(f) == asked < MaxAsked /\ asked' = asked + 1 /\ flights' = flights \cup {f}
Flight(kind, does, c, life) ==
    [nr |-> asked, kind |-> kind, does |-> does, about |-> c, life |-> life, stage |-> "asked",
     signals |-> fate[c].signals, of |-> fate[c].signals]

Begin(does, c) ==
    /\ Ask(Flight("action", does, c, page))
    /\ busy' = [of |-> c] /\ banner' = NoOne

\* A second action while one is under way.
ButtonsShownMutant == Rendered /\ ~seen[at].silent
ButtonsShown == Rendered /\ ~seen[at].silent /\ busy = NoOne

ClickStart ==
    /\ ButtonsShown /\ ~seen[at].running /\ dialog = NoOne
    /\ Begin("start", at)
    /\ UNCHANGED <<pageState, place, seen, mounted, dialog, existing, moves, keyed>>

\* Stop or Restart of what runs, Remove of what does not: the dialog covers the page, not
\* its shortcuts.
Other == IF seen[at].running THEN "stop" ELSE "remove"
ClickOther ==
    /\ ButtonsShown /\ dialog = NoOne
    /\ dialog' = [of |-> at, does |-> Other]
    /\ UNCHANGED <<pageState, place, seen, mounted, busy, banner, existing, flights, asked,
                   moves, keyed>>

\* "r" and "s" are registered while the container runs, by the last answer there was.  An
\* open dialog is replaced; its promise is never resolved.
Shortcut ==
    /\ at \in Known /\ seen[at].running
    /\ dialog' = [of |-> at, does |-> "stop"]
    /\ keyed' = TRUE
    /\ UNCHANGED <<pageState, place, seen, mounted, busy, banner, existing, flights, asked,
                   moves>>

Confirm ==
    /\ Rendered /\ dialog # NoOne
    /\ Begin(dialog.does, dialog.of)
    /\ dialog' = NoOne
    /\ UNCHANGED <<pageState, place, seen, mounted, existing, moves, keyed>>

Cancel ==
    /\ Rendered /\ dialog # NoOne
    /\ dialog' = NoOne
    /\ UNCHANGED <<pageState, place, seen, mounted, busy, banner, existing, flights, asked,
                   moves, keyed>>

\* The page that asked is told; one that was left does not hear of it.
Tell(f) ==
    IF f.life = page
    THEN banner' = [of |-> f.about] /\ busy' = NoOne
    ELSE UNCHANGED <<banner, busy>>

\* handleContainerAction: what became of it, an error or a timeout.  After a success the
\* page fetches the container again, which may not tell of it yet.
ActionAnswered(f) ==
    /\ f \in flights /\ f.kind = "action" /\ f.does # "remove"
    /\ fate' \in {fate, [fate EXCEPT ![f.about].running = (f.does = "start")]}
    /\ flights' = flights \ {f}
    /\ Tell(f)
    /\ \/ UNCHANGED seen
       \/ /\ f.life = page /\ fate[f.about].listed
          /\ seen' = [seen EXCEPT ![f.about] = Look(f.about)']
    /\ UNCHANGED <<place, mounted, dialog, existing, diagnoses, counted, keyed>>

\* handleDeleteContainer: an error, or it runs; or its rows are gone, and whatever the
\* user looks at by then, it is left for the page of the host.
RemovalAnswered(f) ==
    /\ f \in flights /\ f.kind = "action" /\ f.does = "remove"
    /\ flights' = flights \ {f}
    /\ \/ Tell(f) /\ UNCHANGED <<fate, place, seen, mounted, dialog, keyed>>
       \/ /\ fate' = [fate EXCEPT ![f.about].listed = FALSE]
          /\ seen' = IF f.life = page THEN [seen EXCEPT ![f.about].failed = TRUE] ELSE seen
          /\ Opens("none")
    /\ UNCHANGED <<existing, diagnoses, counted>>

-----------------------------------------------------------------------------
(* Logs.                                                                   *)

LoadLogs ==
    /\ Mounted("logs") /\ ~loading
    /\ Ask(Flight("logs", "load", at, mount))
    /\ loading' = TRUE
    /\ UNCHANGED <<pageState, place, seen, mount, dialog, busy, banner, viewer, answer,
                   existing, moves, keyed>>

\* handleContainerLogs: the lines, or an error.  A viewer that was mounted anew does not
\* hear of it.
LogsAnswered(f) ==
    /\ f \in flights /\ f.kind = "logs"
    /\ flights' = flights \ {f}
    /\ IF f.life = mount
       THEN viewer' \in {viewer, [of |-> f.about]} /\ loading' = FALSE
       ELSE UNCHANGED <<viewer, loading>>
    /\ UNCHANGED <<pageState, place, seen, mount, dialog, busy, banner, answer, existing,
                   asked, moves, keyed>>

-----------------------------------------------------------------------------
(* The AI diagnosis.                                                       *)

Pending == \E f \in flights : f.kind = "ai" /\ f.life = mount

FetchDiagnosis ==
    /\ Mounted("ai")
    /\ existing' = [existing EXCEPT ![at] = [of |-> diagnoses[at].of]]
    /\ UNCHANGED <<pageState, place, seen, mounted, dialog, busy, banner, flights, asked,
                   moves, keyed>>

Diagnose ==
    /\ Mounted("ai") /\ ~Pending
    /\ Ask(Flight("ai", "diagnose", at, mount))
    /\ UNCHANGED <<pageState, place, seen, mounted, dialog, busy, banner, existing, moves,
                   keyed>>

\* hashDiagnosisInput: the state, trends and findings; of the log only its patterns and the
\* number of its lines.
Hash(signals) == signals.hashed

\* getLatestDiagnosis, of the same hash and not a day old.
Cached(f) ==
    /\ diagnoses[f.about] # NoOne
    /\ Hash(diagnoses[f.about].signals) = Hash(f.signals)

(* handleAIDiagnose reads the signals, and answers with the diagnosis it has of them or
   calls Gemini; or it has nothing of the container to diagnose. *)
Handle(f) ==
    /\ f \in flights /\ f.kind = "ai" /\ f.stage = "asked"
    /\ LET now == [f EXCEPT !.signals = fate[f.about].signals] IN
       \/ /\ Cached(now)
          /\ flights' = (flights \ {f}) \cup
                {[now EXCEPT !.stage = "answered", !.of = diagnoses[f.about].signals]}
       \/ flights' = (flights \ {f}) \cup {[now EXCEPT !.stage = "calling"]}  \* or it is old
       \/ flights' = flights \ {f}
    /\ UNCHANGED <<fate, place, seen, mounted, dialog, busy, banner, existing, diagnoses,
                   counted, keyed>>

\* Another browser's request may have been answered meanwhile.
GeminiAnswers(f) ==
    /\ f \in flights /\ f.stage = "calling"
    /\ diagnoses' = [diagnoses EXCEPT ![f.about] = [of |-> f.about, signals |-> f.signals]]
    /\ flights' = (flights \ {f}) \cup {[f EXCEPT !.stage = "answered", !.of = f.signals]}
    /\ UNCHANGED <<fate, place, seen, mounted, dialog, busy, banner, existing, counted,
                   keyed>>

\* A timeout, a rate limit, or no JSON that parseModelJson takes.
GeminiFails(f) ==
    /\ f \in flights /\ f.stage = "calling"
    /\ flights' = flights \ {f}
    /\ UNCHANGED <<fate, place, seen, mounted, dialog, busy, banner, existing, diagnoses,
                   counted, keyed>>

\* onSuccess runs in any case, with the options of the card that asked.
DiagnosisAnswered(f) ==
    /\ f \in flights /\ f.stage = "answered"
    /\ flights' = flights \ {f}
    /\ LET diagnosis == [of |-> f.about, signals |-> f.of, asked |-> f.signals] IN
       /\ answer' = IF f.life = mount THEN diagnosis ELSE answer
       /\ existing' = [existing EXCEPT ![f.about] = [of |-> diagnosis.of]]
    /\ UNCHANGED <<fate, place, seen, mount, dialog, busy, banner, viewer, loading, diagnoses,
                   counted, keyed>>

\* The same from another browser, at once.
OtherDiagnoses(c) ==
    /\ changes < MaxChanges /\ changes' = changes + 1
    /\ diagnoses' = [diagnoses EXCEPT ![c] = [of |-> c, signals |-> fate[c].signals]]
    /\ UNCHANGED <<fate, place, seen, mounted, dialog, busy, banner, existing, flights, asked,
                   moves, keyed>>

-----------------------------------------------------------------------------
(* The containers and their agent.                                         *)

Fates == [listed : BOOLEAN, running : BOOLEAN, silent : BOOLEAN,
          signals : [hashed : 1 .. 2, rest : 1 .. 2]]

Change(c) ==
    /\ changes < MaxChanges /\ changes' = changes + 1
    /\ \/ fate' = [fate EXCEPT ![c].listed = ~@]
       \/ fate' = [fate EXCEPT ![c].running = ~@]
       \/ fate' = [fate EXCEPT ![c].silent = ~@]
       \/ fate' = [fate EXCEPT ![c].signals.hashed = 3 - @]
       \/ fate' = [fate EXCEPT ![c].signals.rest = 3 - @]
    /\ UNCHANGED <<place, seen, mounted, dialog, busy, banner, existing, diagnoses, flights,
                   asked, moves, keyed>>

ContainerPageInit ==
    /\ fate = [c \in Sibling |->
                [listed |-> TRUE, running |-> TRUE, silent |-> FALSE,
                 signals |-> [hashed |-> 1, rest |-> 1]]]
    /\ at = CHOOSE c \in Sibling : TRUE
    /\ tab = "overview"
    /\ seen = [c \in {} |-> 0]
    /\ page = 1 /\ mount = 1
    /\ dialog = NoOne /\ busy = NoOne /\ banner = NoOne
    /\ viewer = NoOne /\ loading = FALSE /\ answer = NoOne
    /\ existing = [c \in Sibling |-> NoOne] /\ diagnoses = [c \in Sibling |-> NoOne]
    /\ flights = {}
    /\ asked = 0 /\ moves = 0 /\ changes = 0
    /\ keyed = FALSE

ContainerPageNext ==
    \/ \E c \in Sibling \cup {"none"} : GoTo(c)
    \/ \E c \in Sibling : OtherDiagnoses(c) \/ Change(c)
    \/ \E t \in {"overview", "logs"} : GoToTab(t)
    \/ FetchContainer \/ FetchFails
    \/ ClickStart \/ ClickOther \/ Shortcut \/ Confirm \/ Cancel
    \/ LoadLogs \/ FetchDiagnosis \/ Diagnose
    \/ \E f \in flights :
        \/ ActionAnswered(f) \/ RemovalAnswered(f) \/ LogsAnswered(f) \/ Handle(f)
        \/ GeminiAnswers(f) \/ GeminiFails(f) \/ DiagnosisAnswered(f)

\* Every handler answers: the hub's requests to an agent and to Gemini time out.
ContainerPageFairness ==
    /\ WF_containerPageVars(\E f \in flights : ActionAnswered(f) \/ RemovalAnswered(f))
    /\ WF_containerPageVars(\E f \in flights : LogsAnswered(f))

ContainerPageSpec ==
    ContainerPageInit /\ [][ContainerPageNext]_containerPageVars /\ ContainerPageFairness

-----------------------------------------------------------------------------
(* Properties.                                                             *)

ContainerPageTypeOK ==
    /\ fate \in [Sibling -> Fates]
    /\ at \in Sibling \cup {"none"} /\ tab \in {"overview", "logs"}
    /\ Known \subseteq Sibling
    /\ \A c \in Known : seen[c] \in [running : BOOLEAN, silent : BOOLEAN, failed : BOOLEAN]
    /\ mount \in Nat /\ page \in 1 .. mount
    /\ {loading, keyed} \subseteq BOOLEAN
    /\ {dialog.of, busy.of, banner.of, viewer.of, answer.of} \subseteq Sibling \cup {"none"}
    /\ \A c \in Sibling : {existing[c].of, diagnoses[c].of} \subseteq Sibling \cup {"none"}
    /\ Cardinality(flights) <= MaxAsked

\* Logs, an answer, a result and a question shown under a container are of it, however late
\* they come and wherever the user went meanwhile; and so is a diagnosis in the cache.
ShownIsOwn ==
    /\ \A shown \in {viewer, answer, banner, dialog, busy} : shown # NoOne => shown.of = at
    /\ \A c \in Sibling : existing[c] # NoOne => existing[c].of = c

\* A diagnosis that was asked for is of the signals at the time the hub began on it,
\* whatever other browsers ask and whatever changes meanwhile, as far as the hash tells.
AnswerIsOfAsked == answer # NoOne => Hash(answer.signals) = Hash(answer.asked)

\* Without a shortcut, a page has one action of its own under way, and tells of it.
ActionsAreSingle ==
    LET own == {f \in flights : f.kind = "action" /\ f.life = page} IN
    ~keyed => /\ Cardinality(own) <= 1
              /\ \A f \in own : busy = [of |-> f.about]

\* The buttons do not stay disabled, nor the viewer waiting.
PageSettles == []<>(busy = NoOne /\ ~loading)

\* What a user sees on the page of a container is of that container, what the user begins
\* there is one thing at a time as long as the page is not left, and it ends.
ContainerPageHolds == []ShownIsOwn /\ []AnswerIsOfAsked /\ []ActionsAreSingle /\ PageSettles

\* Without a shortcut, no action begins on a container while another one on it is under
\* way, as long as one user looks.  (Fails: README, findings.)
OneActionAtATime == ~keyed =>
    \A f, g \in flights : f.kind = "action" /\ g.kind = "action" /\ f.about = g.about => f = g

\* A page is left by its user, or because its own container is removed.  (Fails: README,
\* findings.)
PageIsLeftAlone ==
    [][page' # page => moves' # moves \/ \E f \in flights \ flights' : f.life = page
      ]_containerPageVars

\* No action begins while the agent does not report.  (Fails: README, findings.)
SilentIsLeftAlone ==
    [][\A f \in flights' \ flights : f.kind = "action" => ~seen[f.about].silent
      ]_containerPageVars

\* A diagnosis that was asked for is of the signals of that time.  (Fails: README,
\* findings.)
AnswerIsFresh == answer # NoOne => answer.signals = answer.asked
=============================================================================
