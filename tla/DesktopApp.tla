----------------------------- MODULE DesktopApp -----------------------------
(***************************************************************************)
(* src/ui.rs: the GUI controller that joins the lifecycle, the session     *)
(* timers, the decrypted vault, the sealed file and the disk.              *)
(*                                                                         *)
(* Everything runs on one UI thread, so a callback is one action and makes *)
(* all its library calls in it.  Two kinds of callback give the clock a    *)
(* chance to move before they finish: a scan waits for a file dialog or    *)
(* the camera, and a sync waits for the network.  They are split at that   *)
(* wait: "job" says what the thread waits for.  No input reaches another   *)
(* callback meanwhile, but a modal file dialog may run the event loop, and *)
(* with it the auto-lock timer.                                            *)
(*                                                                         *)
(* A callback's control exists only on the screens of ui/app.slint that    *)
(* show it; that is the first guard of each action.  A status line is the  *)
(* only other thing a refused callback changes, and is left out.           *)
(***************************************************************************)
EXTENDS LifecycleRules, SessionRules, VaultContents

CONSTANTS
    None,             \* no vault file, or no decrypted vault
    PasscodeLength,   \* 6 in the code
    ExtendFactors,    \* policy.extend_factors of the vault (default 1)
    NewAccounts,      \* accounts an otpauth URI may decode to
    MaxAccounts,      \* bound: no list is enrolled past this length
    RemoteVaults,     \* account lists a sync may bring
    WriteOutcomes,    \* {TRUE}, or {TRUE, FALSE} where a vault write may fail
    StartupReads,     \* likewise for reading and parsing the file at startup
    KeepOpen,         \* does the user ever press "Keep open"?
    Horizon           \* bound: ticks a dialog or the network is waited for
ASSUME AppAssumption ==
    /\ None \notin Seq(Account)
    /\ PasscodeLength \in Nat \ {0}
    /\ ExtendFactors \in Nat
    /\ NewAccounts \subseteq Account
    /\ MaxAccounts \in Nat
    /\ RemoteVaults \subseteq Seq(Account)
    /\ WriteOutcomes \subseteq BOOLEAN
    /\ StartupReads \subseteq BOOLEAN
    /\ KeepOpen \in BOOLEAN
    /\ Horizon \in Nat

VARIABLES
    running,     \* is the process alive?
    disk,        \* the account list sealed in vault.3fa, or None
    file,        \* AppState.file: the sealed file in memory
    data, dek,   \* AppState.data, and whether AppState.dek is held
    life, sess,  \* AppState.lifecycle and AppState.session
    entry,       \* digits in AppState.entry
    screen,      \* AppWindow.screen
    job,         \* what the UI thread waits for: "none", "scan" or "sync"
    sinceTick,   \* ticks since the 1 Hz auto-lock timer last ran
    spent        \* history: counters below this one were announced as spent

vault == <<file, data, dek>>
ui    == <<entry, screen, job>>
vars  == <<running, disk, vault, life, sess, ui, sinceTick, spent>>

-----------------------------------------------------------------------------
(* Process start and end *)

\* run(): a file that cannot be read or parsed counts as no vault.
Start(readable) ==
    /\ ~running
    /\ running' = TRUE
    /\ file' = IF readable THEN disk ELSE None
    /\ data' = None /\ dek' = FALSE
    /\ life' = Initialized(NewLifecycle, file' # None)
    /\ sess' = ClosedSession
    /\ entry' = 0
    /\ screen' = IF life'.phase = "Setup" THEN "setup" ELSE "lock"
    /\ job' = "none"
    /\ sinceTick' = 0
    /\ UNCHANGED <<disk, spent>>

Init == /\ running = FALSE
        /\ disk = None /\ file = None /\ data = None /\ dek = FALSE
        /\ life = NewLifecycle /\ sess = ClosedSession
        /\ entry = 0 /\ screen = "lock" /\ job = "none"
        /\ sinceTick = 0
        /\ spent = [id \in Id |-> 0]

\* Memory goes with the process; what was renamed into place stays.  A power loss,
\* after which an earlier file may be back, is in AtomicWrite.
Gone(lastLife) ==
    /\ running
    /\ running' = FALSE
    /\ file' = None /\ data' = None /\ dek' = FALSE
    /\ life' = lastLife /\ sess' = ClosedSession
    /\ entry' = 0 /\ screen' = "lock" /\ job' = "none" /\ sinceTick' = 0
    /\ UNCHANGED <<disk, spent>>
Quit  == job = "none" /\ Gone(Disposed(life))
Crash == Gone(NewLifecycle)

-----------------------------------------------------------------------------
(* Locking *)

\* AppState::lock, and the screen its callers then show.
LockVault_KeepsScreen == /\ life' = Locked(life)
                         /\ data' = None /\ dek' = FALSE
                         /\ entry' = 0 /\ sess' = ClosedSession
                         /\ UNCHANGED <<file, screen>>
LockVault == /\ life' = Locked(life)
             /\ data' = None /\ dek' = FALSE
             /\ entry' = 0
             /\ sess' = ClosedSession
             /\ screen' = "lock"
             /\ UNCHANGED file

\* spawn_tick.  "Locked" is left alone: the tick trusts that whoever locked
\* the session has locked the vault.
AutoLock_SessionOnly ==
    sess' = Polled(sess) /\ UNCHANGED <<vault, life, entry, screen>>
AutoLock ==
    \/ PollResult(sess) = "JustLocked" /\ LockVault
    \/ PollResult(sess) # "JustLocked" /\ UNCHANGED <<vault, life, sess, entry, screen>>

TickRuns == /\ running
            /\ AutoLock
            /\ sinceTick' = 0
            /\ UNCHANGED <<running, disk, job, spent>>
Tick       == job = "none" /\ sinceTick >= Second /\ TickRuns
NestedTick == job = "scan" /\ sinceTick >= Second /\ TickRuns

\* Time does not outrun a timer that is due unless the thread is waiting.
Pass == /\ running
        /\ IF job = "none" THEN sinceTick < Second
           ELSE sinceTick < Horizon /\ sess.age < Horizon
        /\ sess' = Aged(sess, 1)
        /\ sinceTick' = sinceTick + 1
        /\ UNCHANGED <<running, disk, vault, life, ui, spent>>

-----------------------------------------------------------------------------
(* The lock and setup screens *)

On(screens) == running /\ job = "none" /\ screen \in screens
Keypad == On({"lock", "setup"})

Digit == /\ Keypad
         /\ entry + 1 < PasscodeLength
         /\ entry' = entry + 1
         /\ sess' = Noted(sess, "KeypadInput")
         /\ UNCHANGED <<running, disk, vault, life, screen, job, sinceTick, spent>>

Backspace == /\ Keypad
             /\ entry > 0
             /\ entry' = entry - 1
             /\ sess' = Noted(sess, "KeypadInput")
             /\ UNCHANGED <<running, disk, vault, life, screen, job, sinceTick, spent>>

\* handle_passcode_submit runs on the last digit and always takes the entry.
LastDigit == Keypad /\ entry + 1 = PasscodeLength /\ entry' = 0

Operation == IF life.phase = "Setup" THEN "Create" ELSE "Unlock"
Done(succeeded) ==
    LET begun == Begun(life, Operation)
    IN  /\ CanBegin(life, Operation)
        /\ life' = Completed(begun, begun.active, succeeded)

\* begin_* refuses: no generation is left.
SubmitRefused ==
    /\ LastDigit
    /\ ~CanBegin(life, Operation)
    /\ sess' = Noted(sess, "KeypadInput")
    /\ UNCHANGED <<running, disk, vault, life, screen, job, sinceTick, spent>>

\* A wrong passcode, no vault file, or a vault that could not be created.
SubmitFails ==
    /\ LastDigit
    /\ Done(FALSE)
    /\ sess' = Noted(sess, "KeypadInput")
    /\ UNCHANGED <<running, disk, vault, screen, job, sinceTick, spent>>

Opens(accounts) == /\ data' = accounts /\ dek' = TRUE
                   /\ sess' = OpenedSession
                   /\ screen' = "vault"

\* The new vault counts as created whether or not it reached the disk.
SubmitCreates(wrote) ==
    /\ LastDigit
    /\ Operation = "Create"
    /\ Done(TRUE)
    /\ file' = <<>>
    /\ disk' = IF wrote THEN <<>> ELSE disk
    /\ Opens(<<>>)
    /\ spent' = [id \in Id |-> 0]
    /\ UNCHANGED <<running, job, sinceTick>>

SubmitUnlocks ==
    /\ LastDigit
    /\ Operation = "Unlock"
    /\ file # None
    /\ Done(TRUE)
    /\ Opens(file)
    /\ UNCHANGED <<running, disk, file, job, sinceTick, spent>>

-----------------------------------------------------------------------------
(* The vault screen *)

\* Reseal under the live DEK and persist; memory keeps the new list even when
\* the write fails, which is only logged.
Store(accounts, wrote) ==
    /\ data' = accounts
    /\ file' = accounts
    /\ disk' = IF wrote THEN accounts ELSE disk
    /\ UNCHANGED dek

\* Copying a code, or an otpauth URI that does not parse: activity only.
JustActivity(interaction) ==
    /\ On({"vault"})
    /\ sess' = Noted(sess, interaction)
    /\ UNCHANGED <<running, disk, vault, life, ui, sinceTick, spent>>

AddAccount(account, wrote) ==
    /\ On({"vault"})
    /\ sess' = Noted(sess, "AddAccount")
    /\ dek /\ Len(data) < MaxAccounts
    /\ Store(Append(data, account), wrote)
    /\ UNCHANGED <<running, life, ui, sinceTick, spent>>

ScanBegins ==
    /\ On({"vault"})
    /\ sess' = Noted(sess, "ScanQr")
    /\ job' = "scan"
    /\ UNCHANGED <<running, disk, vault, life, entry, screen, sinceTick, spent>>

\* The dialog is cancelled, the image holds no usable code, or the vault was
\* locked behind it.
ScanFindsNothing ==
    /\ running /\ job = "scan" /\ job' = "none"
    /\ UNCHANGED <<running, disk, vault, life, sess, entry, screen, sinceTick, spent>>

\* The DEK is looked up only now, after the dialog.
ScanEnrolls(account, wrote) ==
    /\ running /\ job = "scan" /\ job' = "none"
    /\ dek /\ Len(data) < MaxAccounts
    /\ Store(Append(data, account), wrote)
    /\ UNCHANGED <<running, life, sess, entry, screen, sinceTick, spent>>

\* "Next code" on a row: the id is the row's, the counter the first such id's.
NextCodeRow(id) ==
    /\ On({"vault"}) /\ data # None
    /\ \E n \in DOMAIN data : data[n].id = id /\ data[n].hotp

AdvanceSaved_MemoryOnly(id) ==
    /\ NextCodeRow(id) /\ CanAdvance(data, id)
    /\ sess' = Noted(sess, "AdvanceCounter")
    /\ data' = Advanced(data, id)
    /\ spent' = [spent EXCEPT ![id] = CounterOf(data', id)]
    /\ UNCHANGED <<running, disk, file, dek, life, ui, sinceTick>>
AdvanceSaved(id) ==
    /\ NextCodeRow(id) /\ CanAdvance(data, id)
    /\ sess' = Noted(sess, "AdvanceCounter")
    /\ Store(Advanced(data, id), TRUE)
    /\ spent' = [spent EXCEPT ![id] = CounterOf(data', id)]
    /\ UNCHANGED <<running, life, ui, sinceTick>>

\* The write failed: the counter goes back, and the file is resealed from the
\* rolled-back list.
AdvanceRolledBack_StaleFile(id) ==
    /\ NextCodeRow(id) /\ CanAdvance(data, id)
    /\ sess' = Noted(sess, "AdvanceCounter")
    /\ file' = Advanced(data, id)
    /\ UNCHANGED <<running, disk, data, dek, life, ui, sinceTick, spent>>
AdvanceRolledBack(id) ==
    /\ NextCodeRow(id) /\ CanAdvance(data, id)
    /\ sess' = Noted(sess, "AdvanceCounter")
    /\ file' = data
    /\ UNCHANGED <<running, disk, data, dek, life, ui, sinceTick, spent>>

AdvanceRefused(id) ==
    /\ NextCodeRow(id) /\ ~CanAdvance(data, id)
    /\ sess' = Noted(sess, "AdvanceCounter")
    /\ UNCHANGED <<running, disk, vault, life, ui, sinceTick, spent>>

LockNow ==
    /\ On({"vault"})
    /\ LockVault
    /\ UNCHANGED <<running, disk, job, sinceTick, spent>>

\* No factor can be collected today, so the proofs are always empty; the
\* press itself is not activity.
ExtendSession ==
    /\ KeepOpen
    /\ On({"vault"})
    /\ sess' = Extended(Noted(sess, "ExtendRequest"), ExtendFactors, <<>>)
    /\ UNCHANGED <<running, disk, vault, life, ui, sinceTick, spent>>

OpenSettings ==
    /\ On({"vault"})
    /\ sess' = Noted(sess, "Navigate")
    /\ screen' = "settings"
    /\ UNCHANGED <<running, disk, vault, life, entry, job, sinceTick, spent>>

-----------------------------------------------------------------------------
(* The settings screen *)

CloseSettings ==
    /\ On({"settings"})
    /\ sess' = Noted(sess, "Navigate")
    /\ screen' = IF data # None THEN "vault" ELSE "lock"
    /\ UNCHANGED <<running, disk, vault, life, entry, job, sinceTick, spent>>

\* Sync now, log in, register, sign in and PIN unlock all report activity and
\* then hold the thread until the network has answered or timed out.
SyncBegins ==
    /\ On({"settings"})
    /\ sess' = Noted(sess, "Sync")
    /\ job' = "sync"
    /\ UNCHANGED <<running, disk, vault, life, entry, screen, sinceTick, spent>>

\* An error on the way, or a call that leaves the vault alone.
SyncEnds ==
    /\ running /\ job = "sync" /\ job' = "none"
    /\ UNCHANGED <<running, disk, vault, life, sess, entry, screen, sinceTick, spent>>

\* The list merged was the one in memory when the sync began; the thread has
\* been waiting since, so it still is.
SyncAdopts(remote, wrote) ==
    /\ running /\ job = "sync" /\ job' = "none"
    /\ data # None /\ dek
    /\ Store(Merged(data, remote), wrote)
    /\ UNCHANGED <<running, life, sess, entry, screen, sinceTick, spent>>

-----------------------------------------------------------------------------

Next ==
    \/ \E readable \in StartupReads : Start(readable)
    \/ Quit \/ Crash
    \/ Tick \/ NestedTick \/ Pass
    \/ Digit \/ Backspace
    \/ SubmitRefused \/ SubmitFails \/ SubmitUnlocks
    \/ \E wrote \in WriteOutcomes : SubmitCreates(wrote)
    \/ \E i \in {"CopyCode", "AddAccount"} : JustActivity(i)
    \/ \E a \in NewAccounts, wrote \in WriteOutcomes : AddAccount(a, wrote)
    \/ ScanBegins \/ ScanFindsNothing
    \/ \E a \in NewAccounts, wrote \in WriteOutcomes : ScanEnrolls(a, wrote)
    \/ \E id \in Id : AdvanceSaved(id) \/ AdvanceRefused(id)
    \/ \E id \in Id : FALSE \in WriteOutcomes /\ AdvanceRolledBack(id)
    \/ LockNow \/ ExtendSession
    \/ OpenSettings \/ CloseSettings
    \/ SyncBegins \/ SyncEnds
    \/ \E r \in RemoteVaults, wrote \in WriteOutcomes : SyncAdopts(r, wrote)

Spec == Init /\ [][Next]_vars

\* The event loop runs a due timer each time it comes round, and the clock
\* does not stop; a network call ends by answering or timing out.  Nobody has
\* to dismiss a file dialog.
Fairness == /\ WF_vars(Pass)
            /\ SF_vars(Tick)
            /\ WF_vars(SyncEnds)
FairSpec == Spec /\ Fairness

-----------------------------------------------------------------------------
(* Properties *)

Accounts == Seq(Account) \cup {None}
TypeOK == /\ running \in BOOLEAN
          /\ disk \in Accounts /\ file \in Accounts /\ data \in Accounts
          /\ dek \in BOOLEAN
          /\ life \in Lifecycle
          /\ sess \in Session
          /\ entry \in 0 .. PasscodeLength - 1
          /\ screen \in {"setup", "lock", "vault", "settings"}
          /\ job \in {"none", "scan", "sync"}
          /\ sinceTick \in Nat
          /\ spent \in [Id -> 0 .. MaxCounter]

\* assert_lifecycle_invariant, in every state and not only where the code
\* asserts it: the decrypted list, the DEK and the screens that show them are
\* there exactly while the lifecycle is unlocked, whatever locked it and from
\* whichever screen, and no digit of the passcode is left behind them
\* (ui.rs:52-61, 72-79, 184-204, 308-320, 389-403, 948-953).
MaterialIffUnlocked ==
    /\ dek <=> data # None
    /\ dek <=> life.phase = "Unlocked"
    /\ screen \in {"vault", "settings"} <=> data # None
    /\ data # None => entry = 0

\* The sealed file in memory holds what the decrypted list holds, through
\* failed writes and rollbacks, so the next unlock shows what was on screen
\* (ui.rs:1088-1103).
FileIsSealedData == data # None => file = data

\* A code announced as spent is never offered again: not after a failed
\* write, a sync, a lock, a crash or a restart (ui.rs:1026-1040).
SpentStaysSpent ==
    \A accounts \in {disk, data} \ {None} : \A id \in Ids(accounts) :
        CounterOf(accounts, id) >= spent[id]

\* No step takes an account off the disk or winds its counter back.  It needs
\* the file to be readable at startup: one that is not is taken for no vault,
\* and the next passcode creates one over it (ui.rs:125-130, 831-843).
DiskNeverLosesGround ==
    [][ disk # None =>
          /\ disk' # None
          /\ \A id \in Ids(disk) : /\ id \in Ids(disk')
                                   /\ CounterOf(disk', id) >= CounterOf(disk, id) ]_vars

\* Decrypted material outlives neither deadline by more than the time since
\* the timer last ran, however late activity, a dialog or the network makes
\* the next poll (ui.rs:933-966, session.rs:195-214).
ExposureIsBounded ==
    data # None => /\ sess.unlocked
                   /\ sess.age < MaxSession + sinceTick
                   /\ sess.idle < IdleTimeout + sinceTick

\* However busy the user is, an open vault is locked again, unless a file
\* dialog stays open for ever (session.rs:8, ui.rs:948-953).
VaultRelocks == []<>(data = None) \/ <>[](job = "scan")

\* As the session procedure has it: decrypted vault material is in memory
\* only while the session state machine is unlocked (PROCEDURE.md:3).
MaterialHasLiveSession == data # None => sess.unlocked
=============================================================================
