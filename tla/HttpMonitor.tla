----------------------------- MODULE HttpMonitor ----------------------------
(***************************************************************************)
(* The endpoint and certificate checks of the hub and their alerts:        *)
(* runChecks and runTlsChecks (hub/src/http-monitor/), called one after    *)
(* the other by a cron (hub/src/scheduler.ts) that does not wait for the   *)
(* round before, while endpoints are edited (hub/src/web/handlers.ts) and  *)
(* alerts are evaluated (hub/src/alerts/evaluator.ts).                     *)
(*                                                                         *)
(* Names are taken to be unique.  A probe takes less than a minute.        *)
(*                                                                         *)
(* An operator named ...Mutant is the definition below it with a plausible *)
(* mistake; nothing refers to it, a run that swaps it in must fail.        *)
(***************************************************************************)
EXTENDS Integers, FiniteSets, SequencesExt

CONSTANTS
    Endpoints,   \* endpoints, in the order of their names
    Https,       \* those whose url is https at first
    CONCURRENCY, \* endpoints probed at a time
    Threshold,   \* failed checks before the alert
    MaxRounds,   \* bound on the rounds at the same time
    MaxEdits     \* bound on edits, changes of the sites and failed handshakes

ASSUME MonitorAssumption ==
    /\ CONCURRENCY \in Nat \ {0} /\ Threshold \in Nat \ {0}
    /\ MaxRounds \in Nat \ {0} /\ MaxEdits \in Nat

VARIABLES
    endpoint, \* http_endpoints: is there, enabled, url is https
    site,     \* what is at the url: up, its certificate expired
    failures, \* failed checks since the last good one, -1 without a check
    age,      \* minutes since the last check
    tlsInfo,  \* tls_last_checked_at and what it found
    tlsStale, \* endpoints whose last handshake is certCheckIntervalHours ago
    rounds,   \* calls of the cron that have not returned, the oldest first
    open,     \* open endpoint_down and cert_expired alerts
    edits     \* how many there were

monitorVars == <<endpoint, site, failures, age, tlsInfo, tlsStale, rounds, open, edits>>

Endpoint == ToSet(Endpoints)

\* due: those to probe yet; probing: the batch, with what each probe found.
Found == {"nothing yet", "up", "down"}
FoundTls == {"nothing yet", "valid", "expired", "transient"}
Round ==
    [phase : {"http"}, due : SUBSET Endpoint, probing : UNION {[B -> Found] : B \in SUBSET Endpoint}, late : BOOLEAN]
    \cup [phase : {"between", "tls"}, probing : UNION {[B -> FoundTls] : B \in SUBSET Endpoint}, late : BOOLEAN]

MonitorTypeOK ==
    /\ endpoint \in [Endpoint -> [there : BOOLEAN, enabled : BOOLEAN, https : BOOLEAN]]
    /\ site \in [Endpoint -> [up : BOOLEAN, expired : BOOLEAN]]
    /\ failures \in [Endpoint -> -1 .. Threshold]
    /\ age \in [Endpoint -> 0 .. 2]
    /\ tlsInfo \in [Endpoint -> {"none", "valid", "expired", "transient"}]
    /\ tlsStale \subseteq Endpoint
    /\ rounds \in Seq(Round) /\ Len(rounds) <= MaxRounds
    /\ open \subseteq {"endpoint_down", "cert_expired"} \X Endpoint
    /\ edits \in 0 .. MaxEdits

MonitorInit ==
    /\ endpoint = [e \in Endpoint |-> [there |-> TRUE, enabled |-> TRUE, https |-> e \in Https]]
    /\ site \in {[e \in Endpoint |-> [up |-> well, expired |-> FALSE]] : well \in BOOLEAN}
    /\ failures = [e \in Endpoint |-> -1] /\ age = [e \in Endpoint |-> 2]
    /\ tlsInfo = [e \in Endpoint |-> "none"] /\ tlsStale = {}
    /\ rounds = << >> /\ open = {} /\ edits = 0

Watched(e) == endpoint[e].there /\ endpoint[e].enabled

-----------------------------------------------------------------------------
(* A round: the endpoints, then the certificates.                          *)

\* Those of a set of endpoints that are read before e, and e.
UpTo(e, some) ==
    LET place(d) == CHOOSE i \in DOMAIN Endpoints : Endpoints[i] = d
    IN  {d \in some : place(d) <= place(e)}

Batch(due) ==
    LET batch == {e \in due : Cardinality(UpTo(e, due)) <= CONCURRENCY}
    IN  [phase |-> "http", due |-> due \ batch,
         probing |-> [e \in batch |-> "nothing yet"], late |-> FALSE]

Between == [phase |-> "between", probing |-> << >>, late |-> FALSE]

NextBatchOf(due) == IF due = {} THEN Between ELSE Batch(due)

\* A check an interval of one minute ago is due only if it was stored within the second.
IsDue(e, slow) == Watched(e) /\ (age[e] = 2 \/ (age[e] = 1 /\ ~slow))

\* The cron, every minute.  No batch lasts through two of them.
Minute ==
    /\ Len(rounds) < MaxRounds
    /\ \A i \in DOMAIN rounds : ~rounds[i].late
    /\ \E slow \in [Endpoint -> BOOLEAN] :
        rounds' = Append([i \in DOMAIN rounds |-> [rounds[i] EXCEPT !.late = TRUE]],
                         NextBatchOf({e \in Endpoint : IsDue(e, slow[e])}))
    /\ age' = [e \in Endpoint |-> IF age[e] < 2 THEN age[e] + 1 ELSE 2]
    /\ UNCHANGED <<endpoint, site, failures, tlsInfo, tlsStale, open, edits>>

\* probeEndpoint
Probe(i, e) ==
    /\ rounds[i].phase = "http" /\ e \in DOMAIN rounds[i].probing
    /\ rounds[i].probing[e] = "nothing yet"
    /\ rounds' = [rounds EXCEPT ![i].probing[e] = IF site[e].up THEN "up" ELSE "down"]
    /\ UNCHANGED <<endpoint, site, failures, age, tlsInfo, tlsStale, open, edits>>

Settled(i) == \A e \in DOMAIN rounds[i].probing : rounds[i].probing[e] # "nothing yet"

\* The endpoints of the batch before the first that was deleted meanwhile: inserting its
\* check violates the foreign key and ends runChecks.
Recorded(i) ==
    {e \in DOMAIN rounds[i].probing :
        \A d \in UpTo(e, DOMAIN rounds[i].probing) : endpoint[d].there}

\* All checks since the last good one are fetched.
CountMutant(e, found) ==
    IF found = "up" THEN 0 ELSE IF failures[e] = -1 THEN 1 ELSE failures[e] + 1

Count(e, found) ==
    IF found = "up" THEN 0
    ELSE IF failures[e] = -1 THEN 1
    ELSE IF failures[e] < Threshold THEN failures[e] + 1 ELSE Threshold

RecordChecks(i) ==
    /\ rounds[i].phase = "http" /\ Settled(i)
    /\ failures' = [e \in Endpoint |->
        IF e \in Recorded(i) THEN Count(e, rounds[i].probing[e]) ELSE failures[e]]
    /\ age' = [e \in Endpoint |-> IF e \in Recorded(i) THEN 0 ELSE age[e]]
    /\ rounds' = [rounds EXCEPT ![i] =
        IF Recorded(i) = DOMAIN rounds[i].probing THEN NextBatchOf(rounds[i].due) ELSE Between]
    /\ UNCHANGED <<endpoint, site, tlsInfo, tlsStale, open, edits>>

\* Watched, no longer https, with a result.
Cleared == {e \in Endpoint : Watched(e) /\ ~endpoint[e].https /\ tlsInfo[e] # "none"}

TlsDue == {e \in Endpoint : Watched(e) /\ endpoint[e].https /\ (tlsInfo[e] = "none" \/ e \in tlsStale)}

\* runTlsChecks up to the first handshake.
BeginTls(i) ==
    /\ rounds[i].phase = "between"
    /\ tlsInfo' = [e \in Endpoint |-> IF e \in Cleared THEN "none" ELSE tlsInfo[e]]
    /\ rounds' = IF TlsDue = {} THEN RemoveAt(rounds, i)
                 ELSE [rounds EXCEPT ![i] = [phase |-> "tls",
                        probing |-> [e \in TlsDue |-> "nothing yet"], late |-> FALSE]]
    /\ UNCHANGED <<endpoint, site, failures, age, tlsStale, open, edits>>

Edit == edits < MaxEdits /\ edits' = edits + 1

\* probeTls, of the url the round has read.
ProbeTls(i, e) ==
    /\ rounds[i].phase = "tls" /\ e \in DOMAIN rounds[i].probing
    /\ rounds[i].probing[e] = "nothing yet"
    /\ \/ /\ rounds' = [rounds EXCEPT ![i].probing[e] = IF site[e].expired THEN "expired" ELSE "valid"]
          /\ UNCHANGED edits
       \/ /\ rounds' = [rounds EXCEPT ![i].probing[e] = "transient"]
          /\ Edit
    /\ UNCHANGED <<endpoint, site, failures, age, tlsInfo, tlsStale, open>>

\* persistResult, whatever the endpoint has become; the round returns.
RecordTls(i) ==
    /\ rounds[i].phase = "tls" /\ Settled(i)
    /\ LET stored == {e \in DOMAIN rounds[i].probing : endpoint[e].there}
       IN  /\ tlsInfo' = [e \in Endpoint |-> IF e \in stored THEN rounds[i].probing[e] ELSE tlsInfo[e]]
           /\ tlsStale' = tlsStale \ stored
    /\ rounds' = RemoveAt(rounds, i)
    /\ UNCHANGED <<endpoint, site, failures, age, open, edits>>

HoursPass ==
    /\ tlsStale' = {e \in Endpoint : endpoint[e].there /\ tlsInfo[e] # "none"}
    /\ UNCHANGED <<endpoint, site, failures, age, tlsInfo, rounds, open, edits>>

-----------------------------------------------------------------------------
(* The alerts.                                                             *)

\* checkEndpointDown and checkCertAlerts.  Without a result there is nothing to report.
Down(e) == Watched(e) /\ failures[e] = Threshold
Expired(e) == Watched(e) /\ endpoint[e].https /\ tlsInfo[e] = "expired"

\* An endpoint that is switched off keeps its alert.
DownIsOverMutant(e) == ~endpoint[e].there \/ failures[e] = 0

DownIsOver(e) == ~Watched(e) \/ failures[e] = 0

\* A transient error has overwritten what was known of the certificate.
ExpiryIsOver(e) ==
    ~Watched(e) \/ ~endpoint[e].https \/ tlsInfo[e] \in {"valid", "transient"}

EvaluateMonitors ==
    /\ open' =
        {<<"endpoint_down", e>> : e \in {f \in Endpoint :
            IF <<"endpoint_down", f>> \in open THEN ~DownIsOver(f) ELSE Down(f)}}
        \cup {<<"cert_expired", e>> : e \in {f \in Endpoint :
            IF <<"cert_expired", f>> \in open THEN ~ExpiryIsOver(f) ELSE Expired(f)}}
    /\ UNCHANGED <<endpoint, site, failures, age, tlsInfo, tlsStale, rounds, edits>>

-----------------------------------------------------------------------------
(* Edits, and the sites.                                                   *)

\* updateEndpoint and deleteEndpoint; the checks go with the row.
EditEndpoint(e) ==
    /\ endpoint[e].there
    /\ Edit
    /\ \/ /\ endpoint' = [endpoint EXCEPT ![e].there = FALSE]
          /\ failures' = [failures EXCEPT ![e] = -1]
          /\ tlsInfo' = [tlsInfo EXCEPT ![e] = "none"] /\ tlsStale' = tlsStale \ {e}
       \/ /\ endpoint' \in {[endpoint EXCEPT ![e].enabled = ~@], [endpoint EXCEPT ![e].https = ~@]}
          /\ UNCHANGED <<failures, tlsInfo, tlsStale>>
    /\ UNCHANGED <<site, age, rounds, open>>

SiteChanges(e) ==
    /\ Edit
    /\ site' \in {[site EXCEPT ![e].up = ~@], [site EXCEPT ![e].expired = ~@]}
    /\ UNCHANGED <<endpoint, failures, age, tlsInfo, tlsStale, rounds, open>>

MonitorNext ==
    \/ Minute \/ HoursPass \/ EvaluateMonitors
    \/ \E i \in DOMAIN rounds :
        \/ RecordChecks(i) \/ BeginTls(i) \/ RecordTls(i)
        \/ \E e \in Endpoint : Probe(i, e) \/ ProbeTls(i, e)
    \/ \E e \in Endpoint : EditEndpoint(e) \/ SiteChanges(e)

\* What a round does next; every probe has a timeout.
RoundGoesOn(i) ==
    /\ i \in DOMAIN rounds
    /\ \/ RecordChecks(i) \/ BeginTls(i) \/ RecordTls(i)
       \/ \E e \in Endpoint : Probe(i, e) \/ ProbeTls(i, e)

\* Crons fire, time passes.
MonitorFairness ==
    /\ WF_monitorVars(Minute) /\ WF_monitorVars(HoursPass) /\ WF_monitorVars(EvaluateMonitors)
    /\ \A i \in 1 .. MaxRounds : WF_monitorVars(RoundGoesOn(i))

MonitorSpec == MonitorInit /\ [][MonitorNext]_monitorVars /\ MonitorFairness

-----------------------------------------------------------------------------
(* Properties.                                                             *)

\* However rounds overlap, and whatever was edited or deleted under them, the alert of
\* an endpoint ends up open if its site stays down, and closed if it stays up or the
\* endpoint is not watched; so does that of its certificate; and an endpoint that stays
\* http ends up without a certificate (tlsChecker.ts "so the UI doesn't show ghosts"),
\* also when a handshake of its https url was under way.
MonitorSettles == \A e \in Endpoint :
    /\ <>[](Watched(e) /\ ~site[e].up) => <>[](<<"endpoint_down", e>> \in open)
    /\ <>[](~Watched(e) \/ site[e].up) => <>[](<<"endpoint_down", e>> \notin open)
    /\ <>[](Watched(e) /\ endpoint[e].https /\ site[e].expired) => <>[](<<"cert_expired", e>> \in open)
    /\ <>[](~Watched(e) \/ ~endpoint[e].https \/ ~site[e].expired) => <>[](<<"cert_expired", e>> \notin open)
    /\ <>[](Watched(e) /\ ~endpoint[e].https) => <>[](tlsInfo[e] = "none")

\* The resolution mail says "is no longer expired" of a watched endpoint only when it is.
\* (No run checks it: it fails, see the README.)
CertRecoveryIsReal == [][\A e \in Endpoint :
    <<"cert_expired", e>> \in open \ open' /\ Watched(e) /\ endpoint[e].https
        => ~site[e].expired]_monitorVars
=============================================================================
