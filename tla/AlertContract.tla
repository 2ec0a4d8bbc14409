---------------------------- MODULE AlertContract ----------------------------
(***************************************************************************)
(* What the alert engine promises the people and webhooks it notifies,     *)
(* told per alert key and without rows, parents or cycles.  An alert is    *)
(* announced once, then only reminded of, then resolved; reminders keep    *)
(* the backoff distance, and whenever an announcement or a resolution goes *)
(* out, nothing was said about that alert for the stabilisation window.    *)
(***************************************************************************)
EXTENDS ReminderBackoff

CONSTANTS
    Key,          \* the alerts one can be told about
    StabilizeMin  \* alerts.flapStabilizeMinutes

VARIABLES
    now,       \* minutes
    count,     \* count[k]: mails about the open alert k; 0 when none is open
    lastMail   \* lastMail[k]: when k was last mailed about, Never at first

vars == <<now, count, lastMail>>

Never == -1

Init ==
    /\ now = 0
    /\ count = [k \in Key |-> 0]
    /\ lastMail = [k \in Key |-> Never]

\* Nothing was said about k during the last d minutes.
QuietFor(k, d) == lastMail[k] = Never \/ now - lastMail[k] >= d

Advance ==
    /\ now' = now + 1
    /\ UNCHANGED <<count, lastMail>>

Announce(k) ==
    /\ count[k] = 0
    /\ QuietFor(k, StabilizeMin)
    /\ count' = [count EXCEPT ![k] = 1]
    /\ lastMail' = [lastMail EXCEPT ![k] = now]
    /\ UNCHANGED now

Remind(k) ==
    /\ count[k] > 0
    /\ QuietFor(k, RequiredReminderGap(count[k]))
    /\ count' = [count EXCEPT ![k] = @ + 1]
    /\ lastMail' = [lastMail EXCEPT ![k] = now]
    /\ UNCHANGED now

Resolve(k) ==
    /\ count[k] > 0
    /\ QuietFor(k, StabilizeMin)
    /\ count' = [count EXCEPT ![k] = 0]
    /\ lastMail' = [lastMail EXCEPT ![k] = now]
    /\ UNCHANGED now

\* Alerts closed without a word: their host or container was deleted, or
\* their type resolves silently.
Forget(K) ==
    /\ count' = [k \in Key |-> IF k \in K THEN 0 ELSE count[k]]
    /\ UNCHANGED <<now, lastMail>>

Next ==
    \/ Advance
    \/ \E k \in Key : Announce(k) \/ Remind(k) \/ Resolve(k)
    \/ \E K \in SUBSET Key : Forget(K)

Spec == Init /\ [][Next]_vars
=============================================================================
