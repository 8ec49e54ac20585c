------------------------------ MODULE Settings ------------------------------
(***************************************************************************)
(* The settings of KeyNest, the delays in force in the running process,    *)
(* and the destructive reset, which walks through every service.           *)
(*                                                                         *)
(* A delay lives in three places: the file, SettingsService (which is what *)
(* the user is shown), and the service that acts on it, AutoLockService or *)
(* ClipboardService, which got its copy at start-up and gets a new one     *)
(* from the command that changes the setting.  A reset stops at the first  *)
(* service that fails and leaves the earlier ones done.  Commands hold the *)
(* operation gate for their whole length, so what can come between two     *)
(* steps of one is a copied secret expiring or the end of the process.     *)
(* lock_on_sleep and the theme have no second copy.                        *)
(***************************************************************************)
EXTENDS Naturals

CONSTANTS AutoLockOptions,    (* seconds, without the default               *)
          ClipboardOptions,   (* seconds, without the default               *)
          DefaultAutoLock,    (* 300                                        *)
          DefaultClipboard,   (* 30                                         *)
          Themes, DefaultTheme,
          NoFile, Damaged,    (* settings.json is absent, or does not parse *)
          Absent              (* a field that the file does not have        *)

AutoLockDelays == AutoLockOptions \cup { DefaultAutoLock }
ClipboardDelays == ClipboardOptions \cup { DefaultClipboard }

SettingsValues == [auto_lock_seconds : AutoLockDelays,
                   clipboard_clear_seconds : ClipboardDelays,
                   lock_on_sleep : BOOLEAN, theme : Themes]

ASSUME SettingsAssumption ==
    /\ AutoLockDelays \subseteq Nat
    /\ ClipboardDelays \subseteq Nat
    /\ 0 \notin AutoLockDelays
    /\ DefaultTheme \in Themes
    /\ Absent \notin BOOLEAN
    /\ NoFile \notin SettingsValues
    /\ Damaged \notin SettingsValues \cup { NoFile }

Default == [auto_lock_seconds |-> DefaultAutoLock,
            clipboard_clear_seconds |-> DefaultClipboard,
            lock_on_sleep |-> TRUE, theme |-> DefaultTheme]

LongestOption == CHOOSE longest \in AutoLockDelays : \A s \in AutoLockDelays : s <= longest

(* What an edited file may hold: well-formed, but not one of the options.  *)
OutOfRange == [Default EXCEPT !.auto_lock_seconds = 0]

(* A file from before there was lock_on_sleep, which counts as TRUE there. *)
Earlier == [Default EXCEPT !.lock_on_sleep = Absent, !.auto_lock_seconds = LongestOption]

VARIABLES running,
          file,              (* settings.json                               *)
          values,            (* SettingsInner::values                       *)
          autoLockTimeout,   (* AutoLockState::timeout                      *)
          clipboardTimeout,  (* ClipboardState::timeout                     *)
          profileExists,     (* profile.json                                *)
          session,           (* AuthService::status()                       *)
          startup,           (* the operating system's login item           *)
          owned,             (* a copied secret is owned                    *)
          step,              (* next call of the command holding the gate   *)
          settingsReset      (* history: this process has reset its         *)
                             (* settings                                    *)

delays == << autoLockTimeout, clipboardTimeout >>
vars == << running, file, values, delays, profileExists, session, startup, owned,
           step, settingsReset >>

ResetSteps == { "startup", "clipboard", "settings", "profile", "auth" }

TypeOK ==
    /\ running \in BOOLEAN
    /\ file \in SettingsValues \cup { NoFile, Damaged, OutOfRange, Earlier }
    /\ values \in SettingsValues
    /\ autoLockTimeout \in AutoLockDelays
    /\ clipboardTimeout \in ClipboardDelays
    /\ profileExists \in BOOLEAN
    /\ session \in { "SetupRequired", "Locked", "Unlocked", "DataError" }
    /\ startup \in BOOLEAN
    /\ owned \in BOOLEAN
    /\ step \in ResetSteps \cup { "none", "applyAutoLock", "applyClipboard" }
    /\ settingsReset \in BOOLEAN

Init ==
    /\ running = FALSE
    /\ \/ file = NoFile /\ profileExists = FALSE      (* a first start,  *)
       \/ file = Earlier /\ profileExists = TRUE      (* or an update    *)
    /\ values = Default
    /\ autoLockTimeout = DefaultAutoLock
    /\ clipboardTimeout = DefaultClipboard
    /\ session = "SetupRequired"
    /\ startup = FALSE
    /\ owned = FALSE
    /\ step = "none"
    /\ settingsReset = FALSE

-----------------------------------------------------------------------------
(* The process.                                                            *)

Loaded ==
    IF file \in { NoFile, Damaged } \/ file.auto_lock_seconds \notin AutoLockDelays THEN Default
    ELSE IF file.lock_on_sleep = Absent THEN [file EXCEPT !.lock_on_sleep = TRUE] ELSE file

(* Mutant: the clipboard service starts with its own default.              *)
StartWithDefaultDelays ==
    /\ autoLockTimeout' = DefaultAutoLock
    /\ clipboardTimeout' = DefaultClipboard

StartDelays ==
    /\ autoLockTimeout' = Loaded.auto_lock_seconds
    /\ clipboardTimeout' = Loaded.clipboard_clear_seconds

(* setup() in lib.rs.  A file that does not parse, or holds a delay that   *)
(* is not an option, counts as the defaults and stays where it is.         *)
Start ==
    /\ ~running
    /\ running' = TRUE
    /\ values' = Loaded
    /\ StartDelays
    /\ session' \in IF profileExists THEN { "Locked", "DataError" } ELSE { "SetupRequired" }
    /\ settingsReset' = FALSE
    /\ UNCHANGED << file, profileExists, startup, owned, step >>

Stop ==
    /\ running
    /\ running' = FALSE
    /\ owned' = FALSE
    /\ step' = "none"
    /\ UNCHANGED << file, values, delays, profileExists, session, startup,
                    settingsReset >>

(* Somebody edits or damages the file while KeyNest is closed.             *)
DamageFile ==
    /\ ~running
    /\ file # NoFile
    /\ file' \in { Damaged, OutOfRange }
    /\ UNCHANGED << running, values, delays, profileExists, session, startup, owned,
                    step, settingsReset >>

-----------------------------------------------------------------------------
(* Commands that change the session or own a secret.                       *)

Gate == running /\ step = "none"

SetUp ==
    /\ Gate
    /\ session = "SetupRequired"
    /\ session' = "Unlocked"
    /\ profileExists' = TRUE
    /\ UNCHANGED << running, file, values, delays, startup, owned, step, settingsReset >>

Unlock ==
    /\ Gate
    /\ session = "Locked"
    /\ session' = "Unlocked"
    /\ UNCHANGED << running, file, values, delays, profileExists, startup, owned,
                    step, settingsReset >>

(* lock_and_emit_with_operation_guard, whoever asks for it.                *)
Lock ==
    /\ Gate
    /\ session' = IF session = "Unlocked" THEN "Locked" ELSE session
    /\ owned' = FALSE
    /\ UNCHANGED << running, file, values, delays, profileExists, startup, step,
                    settingsReset >>

CopySecret ==
    /\ Gate
    /\ session = "Unlocked"
    /\ owned' = TRUE
    /\ UNCHANGED << running, file, values, delays, profileExists, session, startup,
                    step, settingsReset >>

(* An expiry thread does not take the operation gate.                      *)
SecretExpires ==
    /\ owned
    /\ owned' = FALSE
    /\ UNCHANGED << running, file, values, delays, profileExists, session, startup,
                    step, settingsReset >>

-----------------------------------------------------------------------------
(* Changing a setting: the file, then memory, then the service.            *)

(* Mutant: memory is updated before the file and keeps a refused value.    *)
ReplaceMemoryFirst(changed, next) ==
    /\ values' = changed
    /\ \/ file' = changed /\ step' = next
       \/ UNCHANGED << file, step >>

(* replace_values: a value that is not on disk is not in memory either,    *)
(* and ends the command.                                                   *)
ReplaceValues(changed, next) ==
    \/ file' = changed /\ values' = changed /\ step' = next
    \/ UNCHANGED << file, values, step >>

SetAutoLock(seconds) ==
    /\ Gate
    /\ session = "Unlocked"
    /\ ReplaceValues([values EXCEPT !.auto_lock_seconds = seconds], "applyAutoLock")
    /\ UNCHANGED << running, delays, profileExists, session, startup, owned,
                    settingsReset >>

(* set_timeout_with_operation_guard; a delay that has already passed locks *)
(* the session at once.                                                    *)
ApplyAutoLock ==
    /\ running
    /\ step = "applyAutoLock"
    /\ step' = "none"
    /\ autoLockTimeout' = values.auto_lock_seconds
    /\ \/ session' = "Locked" /\ owned' = FALSE
       \/ UNCHANGED << session, owned >>
    /\ UNCHANGED << running, file, values, clipboardTimeout, profileExists, startup,
                    settingsReset >>

SetClipboardClear(seconds) ==
    /\ Gate
    /\ session = "Unlocked"
    /\ ReplaceValues([values EXCEPT !.clipboard_clear_seconds = seconds],
                     "applyClipboard")
    /\ UNCHANGED << running, delays, profileExists, session, startup, owned,
                    settingsReset >>

ApplyClipboard ==
    /\ running
    /\ step = "applyClipboard"
    /\ step' = "none"
    /\ clipboardTimeout' = values.clipboard_clear_seconds
    /\ UNCHANGED << running, file, values, autoLockTimeout, profileExists, session,
                    startup, owned, settingsReset >>

SetLockOnSleep(enabled) ==
    /\ Gate
    /\ session = "Unlocked"
    /\ ReplaceValues([values EXCEPT !.lock_on_sleep = enabled], "none")
    /\ UNCHANGED << running, delays, profileExists, session, startup, owned,
                    settingsReset >>

SetTheme(theme) ==
    /\ Gate
    /\ session = "Unlocked"
    /\ ReplaceValues([values EXCEPT !.theme = theme], "none")
    /\ UNCHANGED << running, delays, profileExists, session, startup, owned,
                    settingsReset >>

(* enable() and disable() may fail, or succeed without effect.             *)
set_enabled(enabled) == startup' \in { enabled, startup }

SetStartup(enabled) ==
    /\ Gate
    /\ session = "Unlocked"
    /\ set_enabled(enabled)
    /\ UNCHANGED << running, file, values, delays, profileExists, session, owned,
                    step, settingsReset >>

-----------------------------------------------------------------------------
(* The reset.                                                              *)

(* Mutant: the clipboard is not part of the reset.                         *)
AfterWithoutClipboard(done) ==
    CASE done = "startup"   -> "settings"
      [] done = "clipboard" -> "settings"
      [] done = "settings"  -> "profile"
      [] done = "profile"   -> "auth"

After(done) ==
    CASE done = "startup"   -> "clipboard"
      [] done = "clipboard" -> "settings"
      [] done = "settings"  -> "profile"
      [] done = "profile"   -> "auth"

(* reset_authenticated of an unlocked session, or reset_recovery of one    *)
(* that cannot be unlocked.                                                *)
Reset ==
    /\ Gate
    /\ session \in { "Unlocked", "Locked", "DataError" }
    /\ step' = "startup"
    /\ UNCHANGED << running, file, values, delays, profileExists, session, startup,
                    owned, settingsReset >>

At(here) == running /\ step = here

(* A service that fails ends the reset; what is done stays done.           *)
ResetAborts ==
    /\ running
    /\ step \in ResetSteps
    /\ step' = "none"
    /\ startup' \in IF step = "startup" THEN { startup, FALSE } ELSE { startup }
    /\ owned' \in IF step = "clipboard" THEN { owned, FALSE } ELSE { owned }
    /\ UNCHANGED << running, file, values, delays, profileExists, session,
                    settingsReset >>

(* disable_startup_for_reset: the registration is read again afterwards,   *)
(* and one that is still there is an error.                                *)
ResetStartup ==
    /\ At("startup")
    /\ startup' = FALSE
    /\ step' = After("startup")
    /\ UNCHANGED << running, file, values, delays, profileExists, session, owned,
                    settingsReset >>

ResetClipboard ==
    /\ At("clipboard")
    /\ owned' = FALSE
    /\ step' = After("clipboard")
    /\ UNCHANGED << running, file, values, delays, profileExists, session, startup,
                    settingsReset >>

(* settings.reset(): the file and memory; nobody tells the two services.   *)
ResetSettings ==
    /\ At("settings")
    /\ file' = NoFile
    /\ values' = Default
    /\ settingsReset' = TRUE
    /\ step' = After("settings")
    /\ UNCHANGED << running, delays, profileExists, session, startup, owned >>

ResetProfile ==
    /\ At("profile")
    /\ step' = After("profile")
    /\ UNCHANGED << running, file, values, delays, profileExists, session, startup,
                    owned, settingsReset >>

(* auth.finish_reset() and auto_lock.disarm()                              *)
FinishReset ==
    /\ At("auth")
    /\ session' = "SetupRequired"
    /\ profileExists' = FALSE
    /\ step' = "none"
    /\ UNCHANGED << running, file, values, delays, startup, owned, settingsReset >>

-----------------------------------------------------------------------------
Next ==
    \/ Start \/ Stop \/ DamageFile
    \/ SetUp \/ Unlock \/ Lock \/ CopySecret \/ SecretExpires
    \/ \E seconds \in AutoLockDelays : SetAutoLock(seconds)
    \/ ApplyAutoLock
    \/ \E seconds \in ClipboardDelays : SetClipboardClear(seconds)
    \/ ApplyClipboard
    \/ \E enabled \in BOOLEAN : SetStartup(enabled) \/ SetLockOnSleep(enabled)
    \/ \E theme \in Themes : SetTheme(theme)
    \/ Reset \/ ResetAborts \/ ResetStartup \/ ResetClipboard \/ ResetSettings
    \/ ResetProfile \/ FinishReset

Spec == Init /\ [][Next]_vars

-----------------------------------------------------------------------------
(* KeyNest asks for a new master password only when nothing of the old     *)
(* vault's owner is left: no login item, no settings file, no owned        *)
(* secret.  A reset that failed half-way, or was cut short and left        *)
(* behind by a restart, is still reported as a vault to unlock or reset.   *)
SetupStartsClean ==
    (running /\ session = "SetupRequired") => ~startup /\ file = NoFile /\ ~owned

(* What the user is shown is what a restart will read back, whichever      *)
(* write was refused and whenever the process ended.                       *)
ShownSettingsAreSaved == running => values = Loaded

(* The delays in force are the ones last saved, between commands, unless   *)
(* this process has reset its settings.                                    *)
ChangesTakeEffect ==
    (Gate /\ ~settingsReset) =>
        /\ autoLockTimeout = values.auto_lock_seconds
        /\ clipboardTimeout = values.clipboard_clear_seconds

(* ipc.rs, a failed reset "leaves_secure_defaults": between commands, no   *)
(* delay in force is longer than the one the user is shown.                *)
DelaysNoLongerThanShown ==
    Gate =>
        /\ autoLockTimeout <= values.auto_lock_seconds
        /\ clipboardTimeout <= values.clipboard_clear_seconds
=============================================================================
