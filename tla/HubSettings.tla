----------------------------- MODULE HubSettings -----------------------------
(***************************************************************************)
(* The settings of the hub: the settings table over the environment        *)
(* (db/settings.ts, config.ts), the page on which a user edits them        *)
(* (SettingsPage.tsx), and what jobs and pages use.                        *)
(*                                                                         *)
(* A behaviour is about one setting, a member of Setting that stands for   *)
(* all that are resolved alike, and about a plain one beside it.  Texts    *)
(* are what a field can hold; "****" is what a secret is shown as.         *)
(*                                                                         *)
(* An operator named ...Mutant is the definition below it with a plausible *)
(* mistake; nothing refers to it, a run that swaps it in must fail.        *)
(***************************************************************************)
EXTENDS Naturals, FiniteSets

CONSTANTS
    MaxEdits,   \* edits on the page, a bound
    MaxOthers   \* writes from elsewhere and requests that fail, a bound

ASSUME HubSettingsAssumption == MaxEdits \in Nat /\ MaxOthers \in Nat

VARIABLES
    followed,       \* the setting that is followed
    envValue,       \* its environment variable, or NONE
    settingRow,     \* the settings table
    settingsShown,  \* the settings as the page last fetched them
    refetch,        \* a save was answered; the page fetches them again
    overtaken,      \* the table was written since, other than by a save the page knows of
    edits,          \* what was typed into the fields
    reveal,         \* the secret's field is open
    putRequest,     \* the request of the page that is under way
    lostText,       \* text went from the fields that was neither saved nor discarded
    typed,          \* counted up to the bound
    otherWrites     \* counted up to the bound

settingVars == <<followed, envValue, settingRow, settingsShown, refetch, overtaken, edits,
                 reveal, putRequest, lostText, typed, otherWrites>>

NONE == "NONE"
Mask == "****"
NoPut == [stage |-> "none"]

(* threshold: cpuPercent and all that are taken as they are.  cooldown: numbers with a
   fallback.  address: texts with a fallback.  secret: smtp.pass, geminiApiKey. *)
Setting == {"threshold", "cooldown", "address", "secret", "retention", "schedule",
            "publicPage", "pageSection"}
SettingKeys == {followed, "threshold"}

Numbers == {"threshold", "cooldown", "retention"}
Switches == {"publicPage", "pageSection"}
Default ==
    [s \in Setting |-> CASE s \in Numbers -> "30"
                         [] s = "schedule" -> "x"
                         [] s = "publicPage" -> "false"
                         [] s = "pageSection" -> "true"
                         [] OTHER -> ""]

\* What can be typed: a secret's field may begin with the mask.
Texts(s) ==
    CASE s = "threshold" -> {"0", "30"}
      [] s = "retention" -> {"", "3", "30"}
      [] s = "cooldown" -> {"", "0", "3"}
      [] s \in Switches -> {"true", "false"}
      [] s = "secret" -> {"", "x", Mask, "****x"}
      [] OTHER -> {"", "x"}
Environments(s) == {NONE} \cup (Texts(s) \ {Mask, "****x"})

-----------------------------------------------------------------------------
(* The resolution of a setting.                                            *)

\* The environment is of the setting followed; the plain one has none.
EnvOf(k) == IF k = followed THEN envValue ELSE NONE

Raw(k) ==
    CASE settingRow[k] # NONE -> settingRow[k]
      [] settingRow[k] = NONE /\ EnvOf(k) \notin {NONE, ""} -> EnvOf(k)
      [] OTHER -> Default[k]

Source(k) ==
    CASE settingRow[k] # NONE -> "db"
      [] settingRow[k] = NONE /\ EnvOf(k) \notin {NONE, ""} -> "env"
      [] OTHER -> "default"

\* parseInt of "" is NaN, and `|| 0`.
Understood(k, text) == IF k \in Numbers /\ text = "" THEN "0" ELSE text

\* The configuration at the start of the process, from the environment alone.
Base(k) == IF EnvOf(k) \in {NONE, ""} THEN Default[k] ELSE Understood(k, EnvOf(k))

Falsy(text) == text \in {"", "0"}
OrElse(a, b) == IF Falsy(a) THEN b ELSE a

InUse(k) ==
    LET resolved == Understood(k, Raw(k)) IN
    CASE k \in {"cooldown", "address", "secret"} ->
            OrElse(OrElse(resolved, Base(k)), Default[k])
      [] k = "retention" -> IF OrElse(resolved, "30") = "3" THEN "7" ELSE OrElse(resolved, "30")
      [] k = "schedule" -> Base(k)   \* startScheduler reads the configuration of the process
      [] k = "publicPage" -> IF settingRow[k] = "true" THEN "true" ELSE "false"
      [] k = "pageSection" -> IF settingRow[k] = NONE THEN "true" ELSE settingRow[k]
      [] OTHER -> resolved

-----------------------------------------------------------------------------
(* The page.                                                               *)

Masked(k, text) == IF k = "secret" /\ text # "" THEN Mask ELSE text

GetSettings == [k \in SettingKeys |-> [value |-> Masked(k, Raw(k)), source |-> Source(k)]]

Loaded == DOMAIN settingsShown # {}

IsDirty(k) ==
    /\ edits[k] # NONE
    /\ IF k = "secret" THEN edits[k] \notin {Mask, ""} ELSE edits[k] # settingsShown[k].value

DirtyKeys == {k \in SettingKeys : IsDirty(k)}

NoEdits == [k \in SettingKeys |-> NONE]

FetchSettings ==
    /\ settingsShown' = GetSettings
    /\ refetch' = FALSE /\ overtaken' = FALSE
    /\ UNCHANGED <<followed, envValue, settingRow, edits, reveal, putRequest, lostText,
                   typed, otherWrites>>

\* The fields stay open while a save is under way.
TypeText(k, text) ==
    /\ typed < MaxEdits /\ typed' = typed + 1
    /\ Loaded
    /\ k = "secret" =>
        /\ reveal \/ edits[k] # NONE
        /\ text # Mask
        /\ text = "****x" => edits[k] = Mask
    /\ edits' = [edits EXCEPT ![k] = text]
    /\ UNCHANGED <<followed, envValue, settingRow, settingsShown, refetch, overtaken,
                   reveal, putRequest, lostText, otherWrites>>

\* SensitiveField: the button opens the field; its Cancel puts the mask into it.
ToggleReveal ==
    /\ Loaded /\ followed = "secret"
    /\ reveal' = ~reveal
    /\ edits' = IF reveal \/ edits["secret"] # NONE
                THEN [edits EXCEPT !["secret"] =
                        IF settingsShown["secret"].value = Mask THEN Mask ELSE ""]
                ELSE edits
    /\ UNCHANGED <<followed, envValue, settingRow, settingsShown, refetch, overtaken,
                   putRequest, lostText, typed, otherWrites>>

DiscardEdits ==
    /\ Loaded /\ DirtyKeys # {} /\ putRequest = NoPut
    /\ edits' = NoEdits /\ reveal' = FALSE
    /\ UNCHANGED <<followed, envValue, settingRow, settingsShown, refetch, overtaken,
                   putRequest, lostText, typed, otherWrites>>

SaveSettings ==
    /\ Loaded /\ DirtyKeys # {} /\ putRequest = NoPut
    /\ putRequest' = [stage |-> "sent", fields |-> edits,
                      payload |-> [k \in DirtyKeys |-> edits[k]]]
    /\ UNCHANGED <<followed, envValue, settingRow, settingsShown, refetch, overtaken, edits,
                   reveal, lostText, typed, otherWrites>>

\* A masked secret is stored like any text.
PutSettingsMutant(payload) ==
    [k \in SettingKeys |-> IF k \in DOMAIN payload THEN payload[k] ELSE settingRow[k]]

\* One transaction; a masked secret is left out.
PutSettings(payload) ==
    [k \in SettingKeys |->
        IF k \in DOMAIN payload /\ ~(k = "secret" /\ payload[k] = Mask)
        THEN payload[k] ELSE settingRow[k]]

HandlePut ==
    /\ putRequest.stage = "sent"
    /\ settingRow' = PutSettings(putRequest.payload)
    /\ putRequest' = [putRequest EXCEPT !.stage = "stored"]
    /\ UNCHANGED <<followed, envValue, settingsShown, refetch, overtaken, edits, reveal,
                   lostText, typed, otherWrites>>

\* clearEdits clears what is in the fields by now.
PutAnswered ==
    /\ putRequest.stage = "stored"
    /\ lostText' = (lostText
        \/ \E k \in SettingKeys : edits[k] \notin {NONE, putRequest.fields[k]})
    /\ edits' = NoEdits /\ reveal' = FALSE
    /\ refetch' = TRUE
    /\ putRequest' = NoPut
    /\ UNCHANGED <<followed, envValue, settingRow, settingsShown, overtaken, typed,
                   otherWrites>>

\* The request fails before or after it was stored; the page keeps what was typed.
PutFails ==
    /\ otherWrites < MaxOthers /\ otherWrites' = otherWrites + 1
    /\ putRequest # NoPut
    /\ overtaken' = (overtaken \/ putRequest.stage = "stored")
    /\ putRequest' = NoPut
    /\ UNCHANGED <<followed, envValue, settingRow, settingsShown, refetch, edits, reveal,
                   lostText, typed>>

\* Another page, the EmailStep of the wizard, which stores its empty fields too, or a
\* client that puts back what it got with one setting changed.
OtherSaves(payload) ==
    /\ otherWrites < MaxOthers /\ otherWrites' = otherWrites + 1
    /\ settingRow' = PutSettings(payload)
    /\ overtaken' = TRUE
    /\ UNCHANGED <<followed, envValue, settingsShown, refetch, edits, reveal, putRequest,
                   lostText, typed>>

Payloads ==
    (UNION {{[k \in {changed} |-> text] : text \in Texts(changed) \ {"****x"}}
                : changed \in SettingKeys}) \cup
    {[[k \in SettingKeys |-> GetSettings[k].value] EXCEPT !["threshold"] = "30"]}

-----------------------------------------------------------------------------
SettingsInit ==
    /\ followed \in Setting
    /\ envValue \in Environments(followed)
    /\ settingRow = [k \in SettingKeys |-> NONE]
    /\ settingsShown = <<>> /\ refetch = FALSE /\ overtaken = FALSE
    /\ edits = NoEdits
    /\ reveal = FALSE
    /\ putRequest = NoPut
    /\ lostText = FALSE
    /\ typed = 0 /\ otherWrites = 0

SettingsNext ==
    \/ FetchSettings \/ ToggleReveal \/ DiscardEdits \/ SaveSettings
    \/ HandlePut \/ PutAnswered \/ PutFails
    \/ \E k \in SettingKeys : \E text \in Texts(k) : TypeText(k, text)
    \/ \E payload \in Payloads : OtherSaves(payload)

SettingsSpec == SettingsInit /\ [][SettingsNext]_settingVars

-----------------------------------------------------------------------------
(* Properties.                                                             *)

AnyText == (UNION {Texts(k) : k \in Setting}) \cup {"", "x", "30"}

SettingsTypeOK ==
    /\ followed \in Setting /\ envValue \in AnyText \cup {NONE}
    /\ DOMAIN settingRow = SettingKeys
    /\ \A k \in SettingKeys : settingRow[k] \in AnyText \cup {NONE}
    /\ \A k \in DOMAIN settingsShown : settingsShown[k].source \in {"db", "env", "default"}
    /\ DOMAIN edits = SettingKeys /\ \A k \in SettingKeys : edits[k] \in AnyText \cup {NONE}
    /\ {refetch, overtaken, reveal, lostText} \subseteq BOOLEAN
    /\ putRequest = NoPut \/ putRequest.stage \in {"sent", "stored"}

\* The resolutions in which the hub uses something else than what its page shows: a
\* schedule in the table; a switch of the status page in the environment; a zero or an
\* empty text in the table where the code falls back with `||`; the shortest retention.
UsedOtherwise(k) ==
    \/ k = "schedule" /\ Source(k) = "db"
    \/ k \in Switches /\ Source(k) = "env"
    \/ k \in {"cooldown", "address", "secret"} /\ Falsy(Raw(k))
    \/ k = "retention" /\ Raw(k) \in {"", "0", "3"}

\* What the page shows of a setting is what the jobs and pages of the hub use.
UsedAsShown == \A k \in SettingKeys : ~UsedOtherwise(k) => InUse(k) = Understood(k, Raw(k))

\* No secret is replaced by its own mask: not by a page that never loaded it, nor by a
\* client that puts back what it got.
SecretIsNoMask == \A k \in SettingKeys : settingRow[k] # Mask

\* Once a save was answered and the settings were fetched again, the page shows what is
\* stored, unless somebody else wrote in between.
SavedIsShown ==
    Loaded /\ putRequest = NoPut /\ ~refetch /\ ~overtaken
        => \A k \in SettingKeys : settingsShown[k].value = Masked(k, Raw(k))

\* The settings the hub runs with are those its page shows and its users stored
\* (settings.ts, handlers.ts, SettingsPage.tsx).
SettingsHold == UsedAsShown /\ SecretIsNoMask /\ SavedIsShown

\* What was typed stays in its field until it is saved or discarded.  (Fails: README,
\* findings.)
EditsAreKept == ~lostText

\* A secret that is stored is the text that was typed as one.  (Fails: README, findings.)
SecretAsTyped == \A k \in SettingKeys : settingRow[k] # "****x"

\* "Saving here will override" the environment.  (Fails: README, findings.)
StoredOverrides == \A k \in SettingKeys :
    settingRow[k] # NONE => InUse(k) = Understood(k, settingRow[k])
=============================================================================
