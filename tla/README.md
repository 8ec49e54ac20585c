# KeyNest in TLA+

KeyNest is a local password manager: a Tauri desktop application whose Rust
core (`src-tauri/src`) keeps the vault key, the encrypted stores, the session
and the clipboard, a React frontend that calls it through IPC commands, and a
browser extension that reaches it through a native messaging host and a pipe.
This directory holds TLA+ models of the program's own logic, the TLC runs that
check them on small instances, and machine-checked proofs about them.

    tlc -config AutoLock.cfg AutoLock       model-check one run (section 3)
    tlapm AutoLockProofs.tla                check the proofs of one module;
                                            also Clipboard, Auth, Records, Forms,
                                            Files, Autofill, Platform (section 4)

## 1. The system and its parts

Paths are below `src-tauri/src` unless they say otherwise.

| Part | State | Operations | Talks to |
|---|---|---|---|
| Operation gate (`security/operation.rs`) | one mutex | `lock`, `owns` | held by every security command, the lock coordinator, the session monitor, Autofill |
| Idle-lock supervisor (`security/auto_lock.rs`) | `armed`, `last_activity`, `timeout`, `epoch`, `locks_in_flight`, `pending_arm`, `shutdown`; a worker thread and a condition variable | arm, disarm, record activity, set timeout, lock now, shutdown | lock coordinator; armed and disarmed by commands |
| Lock coordinator (`security/locking.rs`) | none | lock, clear the clipboard, emit the event | gate, auth, clipboard |
| Clipboard service (`security/clipboard.rs`) | owned secret with its generation, next generation, delay; port gate; exit flags; one thread per copy | copy, expire, clear if owned, set delay, exit cleanup | the operating system's clipboard, which anybody writes |
| Authentication (`security/auth.rs`, `security/storage.rs`) | session state with profile and vault key; attempt counters; `profile.json` | set up, unlock, PIN, recover, rotate, change, lock, reset | all encrypted stores use its key |
| Key wrappers (`security/crypto.rs`, `security/device_protection.rs`) | the wrappers in `profile.json`: password, recovery key, PIN of one device | wrap, unwrap, validate costs, replace one wrapper | authentication |
| Password policy (`security/password_policy.rs`, the form's `password.ts`) | none | accept or refuse a new master password, twice | setup, recovery, change of password |
| Settings (`settings/`) | values, `settings.json` | load, set, reset | delays are copied into the supervisor and the clipboard service |
| Start at login (`platform/startup.rs`) | operating system | enable, disable, query, start minimized | settings commands, reset |
| Vault, notes, folders, Recently Deleted (`vault/`, `notes/`, `folders.rs`, `recently_deleted.rs`) | three SQLite files with encrypted rows, soft deletion | open, create, migrate; list, create, update, delete, restore, delete for good, empty, purge, assign to a folder | the vault key |
| Display profile (`profile.rs`) | a metadata file and two avatar slots | save, snapshot, reset | reset |
| Autofill (`autofill/`; the dialog is `features/autofill/components/HostApprovalModal.tsx` of the frontend) | one pending host approval; what the dialog shows, has asked for and decided | status, query, fill, ask for a host, approve, cancel | gate, auth, vault, the dialog in the frontend |
| Pipe and native host (`platform/autofill_pipe/`, `autofill/native_host.rs`) | a pipe instance, a server thread, a host process per browser port | accept, read, answer, receipt, shut down; forward a message | gate, Autofill, the extension |
| Browser extension (`browser-extension/`) | one native port with one pending request | post, give up, validate the response | native host |
| Session monitor (`platform/session.rs`) | a Windows message window and its thread | lock on session end or sleep | gate, lock coordinator, event loop |
| IPC commands and event loop (`ipc.rs`, `lib.rs`) | none | one command per user action; each takes the gate and calls several services; start, resume, exit | everything above |
| React frontend, diagnostics | views; a log | any command at any time; write a log | IPC |

How they interact: commands run on a thread pool and serialise on the operation
gate; the supervisor thread, the session monitor and the pipe server lock or
answer through the same gate; expiry threads of the clipboard and the event
loop's exit handling take no gate, and neither does a save of the display
profile; other applications write the clipboard, other instances of the program
open the same files, and the process may end at any point.

### What is hard, and what makes each part correct

* *Supervisor.* The worker announces a lock under its state mutex and performs
  it later, under the gate, so commands come in between. Correct means: no arm
  is lost, none is applied late in a way that arms a locked session or rewinds
  the timer, the worker sleeps only when nothing is due, it does not deadlock
  with a command that locks under the gate, and it ends at shutdown.
* *Clipboard.* Old expiry threads, newer copies, a lock, the exit cleanup and
  its deadline, and other applications race for one clipboard. Correct means: a
  secret on the clipboard is always somebody's to clear, a newer copy is never
  cleared early or in place of an older one, a lock leaves nothing behind, exit
  completes although a clipboard call may hang.
* *Authentication.* Four files and an in-memory session with writes that are
  refused, resets that stop half-way and a process that ends after a commit.
  Correct means: whatever store exists has the profile that opens it, memory
  follows the file, a recovery key that was shown works, guess limits are not
  refilled by the wrong event.
* *Key wrappers.* A profile is written by one version, on one device, and read
  by others. Correct means: a profile that is sound stays usable, no profile
  costs more to open than the program can afford, all wrappers hold the one
  vault key, and a wrapper opens only for what and where it was made.
* *Password policy.* Two implementations in two languages with different
  regular expressions. Correct means that they agree.
* *Settings.* One value in three places and a reset that walks through five
  services. Correct means: the places agree, and setup starts from nothing.
* *Stores.* Opening a file creates or migrates its schema beside other
  instances, crashes and refused statements; listing and emptying Recently
  Deleted are sequences of transactions over two files; a folder assignment is
  checked in one database and written in another. Correct means: no schema in
  the making on disk, no row lost; a record follows its life cycle; an
  assignment names a folder that exists; purging removes what is overdue only;
  what was accepted from a form can be read again.
* *Display profile.* A save writes several files. Correct means: a name is never
  shown with the picture of another save, and no picture is left behind.
* *Autofill.* A request is answered from a state that the user is changing, and
  an approval may be decided long after it was asked for, in a dialog that awaits
  every answer. Correct means: what is delivered is current when it is delivered,
  an approval gives exactly what the user was shown, and it comes before the user
  at some moment.
* *Pipe and native host.* A peer may be silent, slow, or gone, with time limits
  at three places. Correct means: nobody keeps the gate, an answer is not
  thrown away unread, the server ends when told, the extension gets its own
  answer, and gets it before it gives up.
* *Session monitor.* It locks from a thread that must not wait for the event
  loop, which must not wait for it. Correct means: what Windows reports locks
  KeyNest, and both go on.

`PROJECT.json` lists each hazard at its line with the properties that cover it.

## 2. The modules

| Modules | Component |
|---|---|
| `AutoLock`, `AutoLockProofs` | idle-lock supervisor, operation gate, lock coordinator |
| `Clipboard`, `ClipboardProofs` | clipboard service, exit cleanup |
| `Auth`, `AuthProofs` | authentication and profile store: failures, restarts, counters |
| `ProfileFile`, `MCProfileFile` | what `profile.json` contains and what opens it |
| `PasswordPolicy` | both implementations of the password policy |
| `Settings` | settings and the reset (proofs in `FormsProofs`) |
| `RecordLife` | abstract: what the stores promise about one record |
| `Records`, `MCRecords`, `RecordsProofs` | vault, notes, folders, Recently Deleted, by transactions |
| `StoreOpening` | opening, creating and migrating a store |
| `RecordInput` | normalization, sealing, dating of an input |
| `HostMatching`, `Autofill`, `MCAutofill`, `AutofillProofs` | the desktop side of Autofill |
| `AutofillPipe`, `NativeHost`, `SessionMonitor` | pipe server, native host and extension port, session monitor |
| `DisplayProfile` | name and avatar |
| `MCPlatform`, `PlatformProofs` | pipe server, native host and session monitor in one run, and proofs |
| `MCFiles`, `FilesProofs` | profile file, display profile and store opening in one run, and proofs |
| `MCForms`, `FormsProofs` | inputs and password policy in one run, and proofs, also of `Settings` |

A definition marked `Mutant` in its comment is the original changed the way a
plausible bug would change the code; no run or proof uses it, and replacing the
original by it makes a property fail.

### AutoLock

Two threads: the worker with its program counter `worker`, and *the command that
holds the gate* with `command`. A command that waits for the gate has read
nothing yet, so one command thread, whose next command is chosen when the gate
is taken, stands for any number of them. Each action is one critical section of
the state mutex, one read of the session status (which the code does with no
lock), or one hand-over of the gate.

| Code | Actions |
|---|---|
| `supervise` | `WorkerStops`, `WorkerIdles`, `WorkerSleeps`, `WorkerExpires`, `WorkerTimesOut`, `SpuriousWakeup`; `actions.lock()` is `WorkerLocks`, `WorkerReleasesGate` |
| `reconcile_after_lock_view` | `WorkerRetiresLock`, `WorkerReadsStatus`, `WorkerFinishesArm` |
| `arm_at`, `finish_arm` | `BeginArm`, `ReadStatus`, `FinishArm` |
| `disarm`, `record_activity_at`, `set_timeout_at` | `Disarm`, `StoreActivity`, `SetTimeout` |
| `lock_now_with_operation_guard` | `BeginExplicitLock`, `LockUnderGuard`, `Reconcile` (and `ReadStatus`, `FinishArm` for a request it takes over) |
| commands of `ipc.rs` | `Unlock`, `CompleteRecoveryKeyDisplay`, `RegenerateRecoveryKey`, `RecordActivity`, `SetAutoLock`, `Lock`, `ResetKeyNest`, `CreateMasterPassword`, `RecoverMasterPassword` |
| exit | `RequestShutdown` |

`Lock` also stands for the session monitor and for resume from sleep, which make
the same call. `keyOnDisplay` is a history variable: a fresh recovery key was
handed out and nothing has armed the timer since.

### Clipboard

The thread with the operation gate (`command`), the sleeping expiry threads
(`jobs`, a set of generation and remaining time), the exit cleanup, its deadline,
and other applications. `portGate` is the mutex held across calls to the
operating system; `clearing` and `expected` are the progress of
`clear_if_matches` of whoever holds it and what it has taken. `atomicPort` is chosen once: Windows
compares and clears in one clipboard session, the trait's default reads and then
clears. The operating system may refuse any call, empty the clipboard before
refusing a write, or never return (`PortHangs`). `writer`, `abandoned` and
`keepFor` are history: who wrote what is there, what the operating system
refused to clear, and how long the newest copy was promised.

### Auth and ProfileFile

Two views of the same code. In `Auth`, `disk` is `profile.json`, by what its
wrappers open with and which vault key they contain; `data` is the key each
encrypted store was written under. Every `AuthService` operation holds one mutex
from start to end and is one action. A write of the profile has three outcomes:
refused (`ReplaceRefused`), committed and remembered (`Replaced`), committed as
the last thing the process does (`ReplacedLast`). A reset removes any prefix of
the four files and may then fail or end the process. Time is relative: the age
of the last failure, up to the longest delay. A verification takes
`Verification` seconds, which the code counts differently for passwords (dated
afterwards) and PINs (dated before). `shown`, `wrong`, `sinceWrong` and
`pinGuesses` are history.

`ProfileFile` leaves the failures and counters to `Auth` and looks at the
contents: each wrapper with its secret, its purpose (the associated data), its
key derivation costs, its device and whether its fields decode. `wrap_*` and
`unwrap_*` are operators with symbolic cryptography; `validate`,
`valid_wrapped_key`, `validate_production` and `Normalizes` decide as the code
does, in its order. The file may be altered between two runs (`Alter`: wrappers
exchanged, costs changed, bytes damaged) or carried to another device
(`MoveTo`). Any number of instances of the program may share it, each with the
profile it read when it started.

### PasswordPolicy

`accepts_master_password` is `password_policy.rs` and `analyzePassword` is the
form's `password.ts`, each written out in the way of its source: the regular
expressions for dates differ in where they may begin and end, so both are there.
The entropy limit is compared in whole hundred-thousandths of a bit. A behaviour
types a password piece by piece.

### Settings

The file, `SettingsService`, the copies of the two delays in the running
services, and the reset as a sequence of steps (`step`), any of which may fail
or be the last the process takes. The session, the login item and the owned
secret are one flag each.

### Records and RecordLife

One action is one SQLite transaction of one instance of the program. `rows` is
the credentials and the notes with their phase, text, time of deletion and
whether they decrypt; `folders` and `assigned` are `folders.db`; `command` is
how far a command of several transactions has come.

| Code | Actions |
|---|---|
| `create`, `update`, `delete`, `restore`, `permanently_delete` of both services and their IPC commands | `CreateVaultRecord` ... `PermanentlyDeleteItem`, over `CreateRow`, `EditRow`, `DeleteRow`, `RestoreRow`, `PermanentlyDeleteRow` |
| `list_deleted_items` with its purge, `empty_recently_deleted` | `ListDeletedItems`, `EmptyRecentlyDeleted`, then `RemoveNext`, `TurnToNotes`, `FinishClearing` |
| `folders.rs` | `CreateFolder`, `RenameFolder`, `DeleteFolder` (with its cascade), `ReadFolders` |
| `assign_credential_folder`, `assign_note_folder` | `BeginAssign` (is the record there?), `FinishAssign` (write, in the other database) |
| storage errors, a row that does not decrypt, the end of a process | outcomes of every action; `RowIsDamaged`; `ProcessEnds` |

`RecordLife` is the abstract specification: a record is created once, edited
only while it is active, keeps its content on the way to Recently Deleted and
back, leaves only from there, and never comes back. `Records` implements it
(`Lifecycle`): `Life == INSTANCE RecordLife WITH phase <- ..., text <- ...` maps
every row to its phase and text, and `Lifecycle == Life!Spec` is checked by TLC
and proved by TLAPS, with other instances, crashes and failures in between.

### StoreOpening

One file, any number of instances. Each step is one SQL statement or one
`BEGIN`/`COMMIT` of `open_with_initialization_hook` (vault), `NotesService::open`
or `FolderService::open`: `ReadVersion`, `BeginImmediate` (the encrypted stores),
`BeginDeferred` and `Upgrade` (folders), `CreateTable`, `CreateIndex`,
`RenameTable`, `CopyRows`, `Commit`, `Validate`. SQLite is external: one writer,
rollback of what was not committed, a commit that waits for readers, a busy
timeout. `StorageFails` stands for a refused statement and for the end of the
process, which leave the same file. Every file that may be found is an initial
state: fresh, of this or an earlier version, or somebody else's with whatever
version it claims, a newer one included. `vault` and `notes` compare the schema
with their own before they use a file; `FolderService::open` does not
(`folders.rs:104`), so a foreign `folders.db` that claims version 1 is opened and
used. `TakenOnTrust` names that state, and the properties say where they except
it.

### RecordInput

A form is a record of texts (a length and surrounding white space), hosts
(labels) and tags; `NormalizedCredential` and `NormalizedNote` are the two
`normalized` functions with all their limits, `Decrypt` runs them once more as
`crypto.rs` does. Actions: `Create`, `Update` (dated by `NextStamp`), `Get`, and
from outside `ClockIsSet` and `RowIsCopied`.

### Autofill and HostMatching

`HostMatching` translates `url_match.rs` on sequences of labels. `Autofill` has
two sides.

*The service.* A request goes through `Process` (or `RequestHostApproval`),
`Deliver` or `DeliveryFails`, and `Notify`, with the gate held from the moment
the request is looked at to the end of its delivery; a request that waits for
the gate has done nothing yet. Every command of the user (`LoadPending`,
`HostApprovalCandidates`, `ApproveLoginHost`, `CancelHostApproval`, `Unlock`,
`Lock`, `EditRecord`) needs the gate and is one action of the service.

*The dialog* (`HostApprovalModal.tsx`). Every call of it is awaited, so a command
of the service and what the dialog makes of it are different steps:

| Code | Actions and state |
|---|---|
| `loadPending`: called when notified, on focus, when mounted | `alerted`: a notification calls for a load; `LoadPending`: the service reads what waits, and the answer is in `loads`, a bag, since several may be on their way; `Arrives`: any of them is what is shown now, `dialog` |
| `cancel`, `approve`, `saving` | `Cancel`, `Approve`: the decision is `sent`, with the approval as it was shown then; `CancelHostApproval`, `ApproveLoginHost`: the service carries it out or refuses; `Returned`: the dialog has the answer |
| `useModalClose` of `Modal.tsx` | `Returned` begins to close (`closing`), `FinishClose` ends it and clears what is shown *by then* |
| `AuthGate.tsx` | `Mount` with an unlocked KeyNest, `Unmount` once it has heard of the lock; the decision that was sent is then still carried out (`left`) |

So what is shown may be older than what waits, an older answer may overwrite a
newer one, and an approval may be loaded into a dialog on its way out and be
cleared with it. The properties hold all the same, each for its own reason:
`ApprovalsAreHandled` because the service compares numbers under the gate,
`ApprovalsAreShown` because it asks for *a* moment at which the approval is
shown. That it then stays on the screen is not so (`DialogStays`; section 3,
further configurations); the service keeps it, and the next focus of the window
loads it again.

### AutofillPipe, NativeHost, SessionMonitor

`AutofillPipe` is the worker of `server.rs`: every operation on the pipe looks
at the stop event and the deadline, starts, and waits when the kernel cannot
complete it at once (`Check`, the places in `Operating`, `Pend`, `WaitEnds`,
`Cancel`). Any operation may also fail in the kernel, for want of an event to wait
on or with an error code of its own (`Fails`). In an exchange that ends the
exchange; an accept that fails so, unlike one whose client came and went
(`LostClient`), ends the worker, and Autofill is off until KeyNest is started
again (`server.rs:133`). Clients are external and do what they like: open, send
any pieces at any moment (a receipt before the answer, further requests, junk),
read or not, and close.

`NativeHost` is one host process, the pipe client in it and the port in
`native-client.js`. What comes through the pipe is any response; `Validate`
decides as `response.rs` does. Time passes in quarters of a second while the
host waits for the pipe, and only then.

`SessionMonitor` has the event loop (`ui`: its start, the loop, waiting for the
gate in Resumed, exiting) and the thread with the message window (`monitor`).
What the framework below does is not under `src-tauri/src`, and the properties
depend on it: `Builds` lists the possibilities, whether a clipboard call needs
the event loop and whether Resumed reaches it, and `build` is one of them.

`MCPlatform` runs the three in one configuration. `MCFiles` does so with
`ProfileFile` (one instance of the program, then two during setup),
`DisplayProfile` and `StoreOpening`, and `MCForms` with `RecordInput` (one record
with every kind of form, then several with forms that differ in the name) and
`PasswordPolicy` (passwords made of what dates are made of, then of everything
else). The components in such a run share no variable, so a behaviour follows one of them
(`part`) and the others stay as they began, or ended: then nothing of theirs is
enabled and their fairness asks for nothing. A property of such a module is the
conjunction of the properties of its parts, each defined in its own module.

### DisplayProfile

Metadata names an avatar in slot `a` or `b`; `Save` chooses the other slot, then
come `WriteAvatar`, `WriteMetadata` or `MetadataFails` with its undo, one
`RemoveFile` for each other avatar, `CleaningEnds`. The process may end between
any two (`Restart`), and files may be spoilt from outside.

## 3. What the runs check

| Run | Configuration and module | Question and answer |
|---|---|---|
| `auto_lock` | `AutoLock.cfg`, `AutoLock` | Every interleaving of worker and commands: `ArmedOnlyWhileUnlocked`, `UnlockedSessionIsCovered`, `NoMissedWakeup`, `ActivityNeverRewinds` hold, and so do `QuietExpiredSessionLocks`, `ShutdownEndsWorker`, `CommandsFinish`. |
| `key_on_display` | `AutoLockKeyDisplay.cfg`, `AutoLock` | *Violated.* See findings. |
| `clipboard` | `Clipboard.cfg`, `Clipboard` | `SecretIsAccountedFor`, `LockedSessionLeavesNoSecret`, `ExpiryKeepsFreshCopy`, `NewerCopySurvives` (no newer copy between the read and the clear of an older one) hold for both kinds of port; with a port that may hang, `ExitCompletes` and `OwnedSecretExpires` hold. |
| `auth_safety` | `AuthSafety.cfg`, `Auth` | `DataMatchesProfile`, `MemoryMatchesDisk`, `ShownKeyOpensProfile`, `GuessesAreSpaced`, `PinBudgetHolds` hold. |
| `settings_safety` | `SettingsSafety.cfg`, `Settings` | `SetupStartsClean`, `ShownSettingsAreSaved`, `ChangesTakeEffect` hold. |
| `settings_reset` | `SettingsReset.cfg`, `Settings` | *Violated.* See findings. |
| `records` | `Records.cfg`, `MCRecords` | The refinement `Lifecycle` and `AssignmentsNameFolders` hold with one instance and with two; `OneInstanceIsExact` (emptying empties both stores, a listing shows nothing overdue, only what is overdue is purged, what is deleted keeps its folder) holds for one. |
| `autofill` | `Autofill.cfg`, `MCAutofill` | `FillsAreCurrent`, `ApprovalsAreHandled`, `ApprovalsAreShown` hold. Deadlock is checked: the pipe's clients and the user can always go on. |
| `platform` | `Platform.cfg`, `MCPlatform` | Pipe server, native host, session monitor: `PlatformIsSound`, `AnswersGetThrough`, `NobodyIsHeldUp`, `WindowsLocksKeyNest` hold, with the exceptions their definitions name: a kernel that fails, and a client that sends more than its request. |
| `files` | `Files.cfg`, `MCFiles` | Profile, display profile, opening of a store: `ProfileStaysSound`, `ProfileIsGuarded`, `PicturesAreSound`, `StoresAreWhole`, `StoresKeepTheirRows` and, while everybody keeps trying, `StoresOpen` hold. |
| `forms` | `Forms.cfg`, `MCForms` | `SavedIsReadable`, `EditsKeepWhatWasEntered`, `FormAndServiceAgree` hold. |
| `profile_file_shared` | `ProfileFileShared.cfg`, `MCProfileFile` | *Violated.* See findings. |

For each property there is a mutant (`PROJECT.json`, "mutants") under which TLC
finds that property violated.

### Bounds

* `auto_lock`: delays 1 and 2, clock up to 4, no command starts once the epoch
  is 5. One lock in flight, a deferred arm and a command that overtakes it need
  an epoch of 3; a second round needs 5. The clock only orders activity and
  deadlines, and 4 ticks let a session expire, be re-armed and expire again. It
  stops at its bound; a deadline beyond it is then never reached, and the worker
  is right to wait.
* `clipboard`: two texts of which one is a secret of KeyNest, delays 1 and 2, two
  copies (the third generation is `LastGeneration`, standing for the largest
  `u64`, so that exhaustion happens). A stale expiry thread needs two copies,
  one with each delay.
* `auth_safety`: two passwords, two profiles and two recovery keys in one
  behaviour: a reset followed by a new setup, and a rotation. Eight counted
  failures reach the longest delay. Delays are the real ones, in seconds.
* `settings_*`: 60 and 1800 seconds beside the default of 300 for the idle lock,
  60 beside 30 for the clipboard: one longer and one shorter than a default.
* `records`: one credential, one note, one folder, two texts, retention 1 and
  clock 2, so that an item is overdue, kept, and exactly at the limit. Two
  instances contend for the credential alone: a race needs one record, and a
  command of several transactions works on items one by one. One instance has
  both stores, for the commands that go through both.
* `autofill`: one record, two pages (a host with `www` and a final dot, and one
  that can have no website), a website that matches and none, lists of one host,
  two approvals, one tick, after which an approval is too old, and one answer of a
  kind on its way to the dialog. Two approvals are what a replaced one needs, and
  with none there are three different answers that may arrive in any order.
  `AutofillRecords.cfg` checks the safety properties with two records (8.3 million
  states, four minutes), where a decision may name the other one.
* `platform`: two clients, one of another Windows session, that send up to three
  pieces: a whole request and its receipt, or one piece too many or too early;
  a pipe that takes one
  of the two pieces of an answer unread, so that a client that does not read
  stops the writer, which then holds the gate; the real times of the native host (750 ms, 10 s,
  12 s) in quarter seconds, with two request ids; two messages in the queue of
  the window.
* `files`: three devices, two that protect data and one that cannot; the costs
  of this build, of one that prefers memory, both limits, and the test's; two
  vault keys, three recovery keys, one change from outside, so that a wrapper
  can be replaced twice around an alteration; two instances during a setup. Two
  names and two pictures of two types, so that a name could come to be shown with
  the picture of another save. Three instances that open a store (one
  that migrates, one that loses the race, one that comes later), all three
  files, one row, two failures or crashes.
* `forms`: texts of up to one more than the length limit (3), lists of up to one
  more than the list limit (2), two records, time stamps up to the largest (2).
  Dates of up to seven characters, passwords of up to eighteen, both sides of the
  lengths 12 and 16 the policy names.

Terminal states exist in the other models (the clock and the counters are
bounded, the process ends), so deadlock is checked in `Autofill.cfg` only; the
liveness properties look for the deadlocks of the code.

### Fairness

| Module | Assumed | Why |
|---|---|---|
| `AutoLock` | weak, for the worker and for the command that holds the gate | they are running threads. No command has to be started, and the gate's waiters get no more: the standard mutex promises no order, so what needs the worker to get the gate is stated for behaviours in which commands stop (`CommandsStop`) |
| `Clipboard` | weak, for a port call that has not hung, the expiry and exit threads, and time | no application has to write the clipboard |
| `StoreOpening` | weak, for the steps of each instance | a command is tried again; a deferred transaction may still time out for ever, so `EverybodyOpens` (which `StoresOpen` states in `MCFiles`) leaves out folders |
| `Autofill` | weak, for the pipe's thread and for the answers on their way to the dialog; strong, for a notified dialog that asks what waits | the delivery is bounded by 250 ms; the notified dialog asks at once, and the gate it needs is taken and given back by requests in between. The user has to decide nothing, and a dialog need not finish closing |
| `AutofillPipe` | weak, for the worker, its timers, and a command that holds the gate; strong, for the worker getting the gate | no client has to do anything, and the kernel need not fail |
| `NativeHost` | weak, for the host's reading, its deadlines, and time | neither the desktop application nor the browser has to do anything |
| `SessionMonitor` | weak, for start, exit, the monitor thread and a command that holds the gate; strong, for the monitor and Resumed getting the gate | commands come one at a time from a user, so the gate is free again and again and nobody is passed over for ever |

Strong fairness for a mutex is more than the standard library says. It is
assumed where the properties are about what the holder of the gate may wait
for; a gate that is never passed on is a separate hazard, see `PROJECT.json`.

### Findings

1. *Locking a session whose recovery key is on display* (`key_on_display`).
   `ipc.rs:533-534` says a new recovery key pauses automatic locking until it is
   confirmed. The worker may have announced a lock just before: it waits for the
   gate that `regenerate_recovery_key` holds, and locks as soon as that command
   returns, since nothing is checked again (`auto_lock.rs:453-457`). The new key
   is already the only one that works.
2. *A reset leaves the old delays running* (`settings_reset`).
   `settings.reset()` (`ipc.rs:1103` and `1158`) restores the defaults in the
   file and in `SettingsService`; nobody tells `AutoLockService` and
   `ClipboardService`. With 1800 seconds configured, the session left by a
   failed reset, or the vault set up after a successful one, keeps 1800 seconds
   while 300 are shown, until a restart.
3. *A replaced recovery key comes back* (`profile_file_shared`). Two desktop
   instances may run over one data directory, and each builds a new profile from
   the one it read when it started. A change of the password in one writes back
   the recovery wrapper that the other has replaced: the old key opens the
   profile again, and the one just shown does not.
   `docs/security/offline-recovery.md:40` says that an old key is invalidated.

Further configurations, which are not runs of the project, each reproduce one
more case in which the code does not do what one would expect of it:

| Configuration and module | Violated property | Case |
|---|---|---|
| `RecordsTwoInstances.cfg`, `Records` | `PurgeRespectsRetention` | an item is restored and deleted again by another instance after a listing has found it overdue, and is purged by it at once |
| `RecordsDamaged.cfg`, `Records` | `OverdueItemsAreRemoved` | one row that does not decrypt fails the list of its store, and nothing overdue is purged any more |
| `ClipboardPlainPort.cfg`, `Clipboard` | `ForeignTextSurvives` | on a port that reads and then clears, what another application writes in between is cleared (`docs/security/clipboard-ownership.md` names the limitation) |
| `FoldersUnchecked.cfg`, `StoreOpening` | `OnlyOursIsOpened` | a `folders.db` that claims version 1 is opened whatever its tables are |
| `StoreOpeningRace.cfg`, `StoreOpening` | `DamageReportsAreTrue` | the loser of a race to migrate reports a damaged store, which opens the next time |
| `AutofillApproval.cfg`, `MCAutofill` | `ApprovedPageMatches` | a host with two `www` labels is canonicalized once more when it is compared, and does not match what was approved |
| `AutofillDialog.cfg`, `MCAutofill` | `DialogStays` | an older answer that found nothing arrives last and takes the approval off the screen; the same befalls one loaded into a dialog that is closing |
| `AutofillPipeAccept.cfg`, `AutofillPipe` | `ListensForever` | an accept that fails in the kernel ends the pipe server, although nothing has stopped it |
| `DisplayProfileError.cfg`, `DisplayProfile` | `FailedSaveSavesNothing` | a save that fails while the old pictures are cleaned up is reported as failed although the new profile is saved |
| `SessionMonitorResume.cfg`, `MCPlatform` | `WindowsLocksKeyNest` | if the framework both reports Resumed to the event loop and serves clipboard calls on it, Resumed waits for the gate that the monitor holds while its clipboard call waits for the event loop |

## 4. What is proved

Each theorem holds for every value of the constants that satisfies the named
assumptions: any number of instances, records, delays, passwords, and any
bound. None of the properties is inductive as it stands; each module has its
strengthening `IInv` (`FilesInv` and, in `PlatformProofs`, `Inv` where several
components are proved about together; `RecordsInv` and `PasswordInv` for the
forms) and proves `Init => IInv`,
`IInv /\ [Next]_vars => IInv'`, one step per action, before the theorems.

| Module | Theorems (and the property they establish) | Assumptions |
|---|---|---|
| `AutoLockProofs` | `InductiveInvariant`, `TypeCorrect`, `ArmedSafely` (`ArmedOnlyWhileUnlocked`), `NoArmIsLost` (`UnlockedSessionIsCovered`), `NoWakeupIsMissed` (`NoMissedWakeup`), `NoRewind` (`ActivityNeverRewinds`) | `AutoLockAssumption` |
| `ClipboardProofs` | `InductiveInvariant`, `NoSecretIsForgotten` (`SecretIsAccountedFor`), `LocksLeaveNoSecret` (`LockedSessionLeavesNoSecret`), `FreshCopiesAreKept` (`ExpiryKeepsFreshCopy`), `NewerCopiesAreKept` (`NewerCopySurvives`) | `ClipboardAssumption`, `OwnedAssumption` |
| `AuthProofs` | `Invariant`, `TypesAreKept`, `DataIsReadable` (`DataMatchesProfile`), `MemoryIsCurrent` (`MemoryMatchesDisk`), `ShownKeyIsValid` (`ShownKeyOpensProfile`), `PinBudget` (`PinBudgetHolds`), `GuessesAreDelayed` (`GuessesAreSpaced`) | `AuthAssumption` |
| `RecordsProofs` | `InductiveInvariant`, `AssignmentsAreSound` (`AssignmentsNameFolders`), `StoresImplementLife` (`Lifecycle`: the refinement), `RecordsAreTyped`, `OneInstancePurgesExactly` (`OneInstanceIsExact`) | `RecordsAssumption`, `MCRecordsAssumption` |
| `FormsProofs` | of the forms: `RecordsAreNormal`, `SavedReadsBack` (`SavedIsReadable`), `EditsLoseNothing` (`EditsKeepWhatWasEntered`), `TypedIsPassword`, `FormAndServiceDoAgree` (`FormAndServiceAgree`); of the settings: `InductiveInvariant`, `ResetIsComplete` (`SetupStartsClean`), `ShownIsSaved` (`ShownSettingsAreSaved`), `DelaysAreApplied` (`ChangesTakeEffect`) | `FormsAssumption`, `SettingsAssumption` |
| `FilesProofs` | `FilesInvariant`, `OneKeyForAll` (`ProfileStaysSound`), `ProfileKeepsItsGuards` (`ProfileIsGuarded`), `PicturesStaySound` (`PicturesAreSound`), `StoresStayWhole` (`StoresAreWhole`), `NothingIsLost` (`StoresKeepTheirRows`) | `FilesAssumption` |
| `PlatformProofs` | `PlatformInvariant`, `PlatformStaysSound` (`PlatformIsSound`), `AnswersDoGetThrough` (`AnswersGetThrough`) | `PipeAssumption`, `PlatformAssumption` |
| `AutofillProofs` | `InductiveInvariant`, `FillsAreSound` (`FillsAreCurrent`), `PagesAreServed`, `ApprovalsAreSound` (`ApprovalsAreHandled`) | `HostAssumption`, `AutofillAssumption`, `NoRequestAssumption` |

The assumptions say that sets are of the right kind and that the values that
stand for "nothing" are not among the others. Two say more: the costs of this
build are among the costs, and the times that the native host may take for its
connection and its exchange are together less than the time the extension waits
(`ConnectTime + ExchangeTime < BrowserTime`, which in the code are 750 ms, 10 s
and 12 s). TLC evaluates the assumptions on every run.

*AutoLock.* `IInv` adds who holds the gate (`GateInv`), that `locks_in_flight`
counts exactly the threads between announcing a lock and reconciling it and that
a lock in flight means disarmed (`InFlightInv`), where a deferred arm can be and
what it may still do (`PendingInv`, `TakenInv`), why the unguarded status read
is harmless when the epoch has not moved (`ReadInv`), what a command knows while
it holds the gate (`CommandInv`), and the covering property in the middle of
commands (`CoveredInv`).

*Clipboard.* The port gate is held by exactly the command, expiry thread or
cleanup that is inside, and while a clearing is under way nothing is owned
(`Gate`). A secret that KeyNest wrote is owned, about to be owned, about to be
cleared, or refused by the operating system (`Accounted`, with `WrittenIsThere`
for the moment between the write and the ownership). Generations tie an expiry
thread to its copy: all threads are older than the copy being made
(`JobsAreOlder`), and the thread of what is owned still sleeps as long as the
copy was promised (`JobsWait`). While an older copy is being cleared, what is on
the clipboard is of that generation or not KeyNest's (`NewestIsTheirs`), because
a copy waits for the port gate before it takes its number. Without a session only a lock is under way
(`OnlyLocks`), which is why none leaves a secret.

*Auth.* The three file properties are inductive only together (`StorageInv`): a
change of the profile is computed from memory, so what it may write depends on
memory being the file, and setup may make a new key only because a missing
profile means that no data is left. `WriteKeepsStorage` treats the three
outcomes of a profile write once for all operations. `AttemptInv` says that the
counter behind the delay has missed no wrong guess and has the age of the last,
`PinInv` that every wrong PIN of this locked session was counted and that a
session that is not locked owes none to the next.

*Settings.* How far a reset has come says what it has removed
(`ResetIsOrdered`), the session follows the profile (`SessionFollowsProfile`),
and the delays in force are those of the values except after a reset
(`DelaysFollow`).

*Records.* Whatever command is under way, a step changes one row along its life
cycle, or the folders, or one assignment, or nothing. That is proved first; the
assignment invariant and the step simulation `[Next]_vars => [Life!Next]` then
look at those few changes only.

With a single instance more is true (`OneInv`): a record that is about to be
assigned is still active, what a command of several transactions has listed is
deleted since then, and whatever is deleted is listed, in the store it comes to
next, or not overdue, so that the end of its list is the end of what was to be
removed.
`OneInstanceIsExact` follows. Where a second instance deletes or restores in
between, the last part is false, and so is the property (section 3, further
configurations).

*Files.* The parts of `MCFiles` share no variable, so `FilesInv` is the
conjunction of an invariant for each. *ProfileFile*: there is one vault key,
in every wrapper of the file, in the stores and in the open session (`IsTheKey`).
It is inductive only together with what an instance remembers, which is the file
as it is (`SessionFits`), because every change is computed from memory, and with
where the secrets of the wrappers come from (`MadeOf`), because a recovery key
that is generated now must differ from all that were. That an instance which
waits to be set up overwrites nothing needs only that each instance is in one of
its states (`Waits`).
*DisplayProfile*: the picture of a save in progress goes to a file that the saved
profile does not name (`Elsewhere`), and while old pictures are removed what is
saved is what was to be saved (`DisplayInv`). *StoreOpening*: what a transaction
has made so far fits the file it began with, which nobody else can change while
it holds the lock (`LockIsInTransaction`), and what each instance knows of the
file fits the place it has reached (`ProcessesFit`), although the version was
read before the transaction began.

*Platform.* The pipe's invariant counts pieces: those the worker has read of a
connected client and those that still wait are those that client has sent
(`NothingIsLost`), so a worker that has read a receipt has had three pieces of
it, and an answer is thrown away unread only of a client that sent its third
before it had read. The host's invariant
follows the one message of the extension (`OneMessage`): it is on its way to the
host, worked on, answered, or lost with the host, and never two of these; while
it is worked on, the extension still waits for longer than the host has left,
which is why no answer is too late. The monitor's invariant says that what is
registered with Windows is what its thread has come to, and that nobody asks it
to close before the application ends.

*Autofill.* Nothing but the delivery gets past the gate while an answer waits,
so what was true when it was made is true when it is delivered; and two hosts
with one canonical form are the same site (`SameCanonicalSameSite`). Approvals
rest on their numbers, which are given out once: whatever is on its way to the
dialog, shown by it or decided on, names the host that goes with its number
(`ViewsAreTrue`), however old it is. That the page
which asked is served in the end, although its host is canonicalized when it
asks, when it is approved and when it is compared, needs that what waits is the
host of that page (`HostIsOfPage`) and that a canonical host is its own
canonical form. That is so unless the page's host has two `www` labels
(`CanonicalStays`); for those it is false (section 3, further configurations).

*Forms.* A row may be copied to the id of another record and back, so it is not
enough that what is stored under its own id reads back: every row that is
anywhere must (`RowsReadBack`). A row is read by normalizing its form once more,
so this rests on normalization being idempotent (`NormalizedTwice`): a host
without its final dot and in small letters has neither to lose (`CanonicalTwice`),
and of tags and hosts that differ pairwise all are kept (`DistinctStays`). The
kept ones are counted upwards by taking the least that is left (`CountedInTurn`),
where an induction over the length of a list is needed; it is an argument by
least counterexample, with the well-foundedness of the naturals. Nothing is lost
since what is dropped is said by an earlier one (`NormalizedRepresents`), and
the date of an edit is the larger of the clock and the successor of the last one
(`NextStampIsLater`).

*Password policy.* The two sides are compared rule by rule. The form counts
first occurrences and the service a set of characters, which a bijection matches
(`DiversityIsTheSame`). For dates, digits are word characters and separators are
not, so that the form's word boundaries say what the service finds by looking at
the neighbours, and the optional year is not needed for there to be a date
(`DatesAreTheSame`). With equal penalties, both compare one number with one limit
(`ScoreIsAcceptance`).

Only model-checked is all liveness (`QuietExpiredSessionLocks`,
`ShutdownEndsWorker`, `CommandsFinish`, `ExitCompletes`, `OwnedSecretExpires`,
`ApprovalsAreShown`, `NobodyIsHeldUp`, `WindowsLocksKeyNest`, `StoresOpen`): the
proof system does not handle fairness and `ENABLED`. Every safety property of the
passing runs is a theorem.

## 5. What is not modelled

* The frontend, its wording and the DTOs: a user may issue any command at any
  time, which is what the models allow. Of the frontend's own decisions the
  password form and the approval dialog are modelled.
* The extension's popup and page scripts: when a page navigates between a
  request and its fill is decided there and by the browser. Its port to the
  native host is in `NativeHost`.
* Bytes: encodings of frames and fields, the encryption itself, the wiping of
  memory. A wrapper opens with one secret and contains one key; how long a
  derivation takes is a constant.
* Capture protection, plugin registration, diagnostics, opening the data folder:
  calls of the framework or output that the program does not read again.
* Two desktop instances, except in `Records`, `StoreOpening` and `ProfileFile`.
* The 2^64 wrap of the supervisor's epoch, which no process reaches.
* Hazards without a property of a run have a note in `PROJECT.json`: a damaged
  row that fails a whole list. That is what the code does; section 3 names the
  configuration that shows it.

## 6. Plan

Done, in this order: `AutoLock`, `Clipboard`, `Auth`, `Settings`; the stores
(`Records` with its abstract specification, `StoreOpening`, `RecordInput`);
Autofill (`HostMatching`, `Autofill`, `AutofillPipe`, `NativeHost`); the session
monitor; the display profile; the profile file and the password policy; proofs
of every safety property of the runs.

1. `Session`: an abstract specification of what locking promises (no key, no
   owned secret, no armed timer once a lock has returned), with `AutoLock` and
   `Clipboard` composed and shown to implement it.
2. `ProfileFile` for several instances: which of its guards survive a second
   instance, beyond `OverwritesNothing`.
3. The extension's worker: a fill against navigation.
