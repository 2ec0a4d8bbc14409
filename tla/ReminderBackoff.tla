--------------------------- MODULE ReminderBackoff ---------------------------
(***************************************************************************)
(* The pure function requiredReminderGap of the alert evaluator: how many  *)
(* minutes must pass after the n-th mail about one alert before the next.  *)
(***************************************************************************)
EXTENDS Integers

CONSTANTS
    CooldownMin,      \* alerts.cooldownMinutes: the base gap
    ReminderMaxMin,   \* alerts.reminderMaxMinutes: the cap of the gap
    ReminderBackoffOn \* alerts.reminderBackoff: double the gap, or keep it constant

ASSUME ReminderAssumption ==
    /\ CooldownMin \in Nat
    /\ ReminderMaxMin \in Nat
    /\ ReminderBackoffOn \in BOOLEAN

\* The code stops doubling after this many mails; the product then no longer grows.
MaxExponent == 30

Lesser(a, b) == IF a <= b THEN a ELSE b

RequiredReminderGap(notifyCount) ==
    IF ReminderBackoffOn
    THEN LET doublings == IF notifyCount > 0 THEN notifyCount - 1 ELSE 0
         IN  Lesser(CooldownMin * 2 ^ Lesser(doublings, MaxExponent), ReminderMaxMin)
    ELSE CooldownMin
=============================================================================
