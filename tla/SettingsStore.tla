---------------------------- MODULE SettingsStore ----------------------------
(***************************************************************************)
(* The settings of the dashboard (lib/settings.svelte.ts), kept whole in    *)
(* localStorage.  The three endpoints are one value: they are read, staged, *)
(* saved and compared together.                                             *)
(***************************************************************************)
EXTENDS AlertStore

CONSTANTS
    EnvDefaults    \* envDefaults(): [endpoints, range, accent]

VARIABLES
    current,       \* settings.current
    boot,          \* settings.boot: what the page started with
    stored,        \* localStorage: {}, or {the settings}
    settingsKept   \* history: localStorage took the last change, or was read since

settingsVars == <<current, boot, stored, settingsKept>>

\* load
LoadedSettings(s) == IF s = {} THEN EnvDefaults ELSE CHOOSE v \in s : TRUE

\* What localStorage is asked to hold, which it may refuse: it is ignored.
Keep(s) ==
    \/ stored' = s /\ settingsKept' = TRUE
    \/ UNCHANGED stored /\ settingsKept' = FALSE

\* Mutant: the change alone is added to what is stored.
UpdateSetting_PatchStored(field, value) ==
    /\ current' = [current EXCEPT ![field] = value]
    /\ Keep({[LoadedSettings(stored) EXCEPT ![field] = value]})
    /\ UNCHANGED boot

\* update: the settings are stored whole.
UpdateSetting(field, value) ==
    /\ current' = [current EXCEPT ![field] = value]
    /\ Keep({current'})
    /\ UNCHANGED boot

\* reset: also the endpoints, of which the running worker hears nothing.
ResetSettings ==
    /\ current' = EnvDefaults
    /\ Keep({})
    /\ UNCHANGED boot
=============================================================================
