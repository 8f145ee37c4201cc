# 3FA Desktop: specification and verification

This directory specifies the 3FA desktop authenticator in TLA+, checks the specifications with TLC and proves the
central results with TLAPS. Paths such as `session.rs:229` are relative to `src/` of the repository (`ui/app.slint`
and `formal/` to its root). `PROJECT.json` maps every definition to the lines it models.

## 1. The system

The application keeps a user's OTP accounts in an encrypted vault file. One UI thread runs everything; timers,
dialogs and network calls happen on it.

| Part | State | Operations | What makes it correct |
|---|---|---|---|
| Lifecycle `app_state.rs` | phase, generation, operation in flight | initialize, begin create/unlock, complete, lock, dispose, owns_generation | late outcomes and late work are refused for ever; a known vault is never forgotten; disposal is final |
| Session `session.rs` | state, opened_at, last_activity | unlock, note_interaction, poll, try_extend, lock, countdowns | the cap's origin never moves; only activity or a satisfied extension resets the idle clock; the countdown is what poll does |
| Policy and factors `auth/` | factor counts; passcode entered, challenge put | is_satisfied; submit, set_challenge_digits, verify | distinct kinds are counted; what was entered or said once proves nothing later |
| Vault `vault/mod.rs`, `crypto/mod.rs` | account list, policy, sealed file, data key | create, unlock, reseal, advance_counter | a counter moves forward by one, never wraps; only its passcode opens a vault, and always to what was sealed |
| Accounts `otp/`, `qr/mod.rs` | none | from_uri, current_code, countdown | an account is what its URI says; the code shown is the one to type as long as the countdown says |
| Controller `ui.rs`, `ui/app.slint` | all of the above, screen, passcode entry, clipboard | about 20 callbacks and a 1 Hz tick | decrypted material exists exactly while unlocked; memory, sealed file and disk agree through failures |
| Crash-safe write `lib.rs` | temporary file, vault file | write_private_atomic | a crash leaves the old file or the new one |
| Sync `sync/mod.rs`, `protocol.rs`, `config.rs` | working list, base version, device id; server blob and version vector | synchronize, merge_vault, ensure_device_id | nothing acknowledged is lost, devices converge, nobody replaces a list they cannot open |
| PIN session `pin_session.rs` | sealed tokens, failure count, time of last failure | gate, open, seal, save, wipe | guesses are bounded and spaced; the rotated token is kept |
| Secure Bluetooth `secure_bluetooth.rs` | ephemeral keys, counters, deadlines | hello, confirm, encrypt, decrypt | both sides agree on the transcript; frames in order, once |
| Transport `sync/http.rs`, `sync/supabase.rs` | none | requests | an answer, a refusal or an error in bounded time |

Interactions: a callback borrows the shared `AppState`, calls lifecycle, session, vault and disk in sequence and
then updates the window. The pieces therefore agree only because each callback calls all of them. Two waits split a
callback: a modal file dialog, behind which the event loop may still run the auto-lock timer, and a network call,
behind which nothing runs.

The hard behaviours: two state machines that must lock together (`Session` and `VaultLifecycle`); deadlines against
late events; writes that fail after memory has moved; crashes and restarts between memory and disk; devices racing
on one server, with answers lost and pushes late; counters at their limits.

## 2. Modules

A name with an underscore, such as `CanAdvance_Unbounded`, is a plausible bug of the operator before the underscore.
No specification uses one; they are there to show that each property would catch it.

| Module | Models | Notes |
|---|---|---|
| `LifecycleRules` | `VaultLifecycle::apply` as guards and effects on a value | no variables, so that it can be stepped or composed |
| `VaultLifecycle` | the lifecycle under any caller | tokens stay in `issued` for ever and may be delivered at any time; `opener`, `closed` are history |
| `PermitGate` | what the lifecycle promises | the abstract specification `VaultLifecycle` refines |
| `SessionRules` | `session.rs` and the factor count as operators | Instants become the durations the code reads off them, in ticks of a fraction of a second |
| `SessionTimers` | the session under any caller | `held`, `quiet`, `openedWith`, `renewals` are history |
| `Factors` | the passcode and voice verifiers, a caller that collects their proofs, and the two gates | composes `SessionTimers`; `asked`, `typed`, `given`, `fooled` are history |
| `VaultContents` | the account list, `advance_counter`, `merge_vault` | an account is id, kind, counter |
| `Otpauth` | URIs, stored accounts, codes, countdowns as operators | parsing is a fold over the parameters, as the code's loop is |
| `Codes` | from a URI to a code on the clipboard and off it again | composes `Otpauth`; the desktop copies as well, and any use of the clipboard may fail; `missed` is history |
| `Envelope` | keys, seals, the vault file and the sync blob as operators | symbolic: a seal names its key, purpose and body |
| `SealedVault` | the vault file and the blob with several instances, over one disk that may harm them | composes `Envelope`; `typed`, `chosen` are history |
| `Safe` | what a sealed vault file promises | the abstract specification `SealedVault` refines |
| `DesktopApp` | the callbacks of `ui.rs`, composed of the three rule modules | one action per callback; a scan and a sync are split at their wait |
| `VaultSync` | `synchronize` on several devices and the server, and the device ids of `config.rs` | the server is the reconcile rule the tests mirror |
| `PinSession` | `pin_session.rs`, `supabase_signin` and `pin_unlock` | `Happens` names what a run lets go wrong; `user`, `tries`, `quiet`, `turned` are history |
| `AtomicFile` | what `write_private_atomic` promises | the abstract specification `AtomicWrite` refines |
| `AtomicWrite` | `write_private_atomic` on a disk that loses power | one action per system call |
| `SecureBluetooth` | `secure_bluetooth.rs` on several devices and the air between | keys are the transcripts they are derived from |
| `Unlocking_proofs` | | theorems about `VaultLifecycle`, `SessionTimers` and `Factors` |
| `VaultFile_proofs` | | theorems about `SealedVault` and `AtomicWrite` |
| `VaultContents_proofs`, `Codes_proofs`, `DesktopApp_proofs`, `VaultSync_proofs`, `PinSession_proofs`, `SecureBluetooth_proofs` | | theorems about the module each is named after |
| `MC...` | | values of the constants for TLC |

In `DesktopApp` the variables are the fields of `AppState` (`file`, `data`, `dek`, `life`, `sess`, `entry`), the
window's screen, the file on disk, whether the process runs, what the thread waits for (`job`) and the time since
the tick last ran. `spent` records which counters were announced as spent. A sealed file is represented by the
account list inside it: AEAD opening either fails or yields that list.

In `SealedVault` an instance is one running application: `file`, `data` and `dek` are its fields of `AppState`, and
`disk` is the one file all of them write. Salts and data keys are numbered in the order they are drawn. Harm comes to
one field of the file at a time: another format, a salt of another length or value, other KDF parameters, a nonce of
another length, a flipped bit. `KdfParams` keeps apart what Argon2 refuses and what only the bounds of the protocol
refuse, because `VaultFile::unlock` does not apply these bounds and `open_downloaded` does.

In `Codes` the rows on screen carry the moment they were drawn, and the account behind a row is found by id, as the
callback does. A URI is enrolled before time passes and one more account is synced, written by another version: with
a period of 0, with more digits than a code has, or with a period beyond the view's `Int`. Opening, reading and writing
the clipboard may fail at each use, and the code ignores every such error: `missed` says that the clear due for the
code now on the clipboard is one that failed.

In `Factors` the caller is anybody: it submits passcodes, sets challenges, calls the verifiers and presents what it
collected, in any order. Whatever was ever asked for may be a recording.

In `VaultSync` a list travels sealed under the password typed for that sync, and one that does not open ends it. A
device may start again under an id nobody has had. A device that stops waiting leaves its push in `late`, from where
the server may accept it at any later time; a push that the server would refuse, or that is lost, changes nothing and
is simply never taken.

In `PinSession` the file carries what Supabase makes of the token in it (good, spent by a refresh, revoked) and the
wall-clock age of its last failure; `quiet` is the true time since then. `now_unix` counts whole seconds, so the clock
turns (`ClockTurns`) somewhere within each true second (`Second`) and the age may be ahead by the one that is not
over; by more only when the clock is set. `slips` collects which of these things have happened since the file was
sealed, so that each property says of which of them it is free. An unlock is four steps, because each talks to
somebody else: open the file, refresh, store the device token, seal again. A wrong PIN is one step: its answer appears
only after the count was saved.

In `AtomicWrite` a rename is visible at once and `earlier` collects what a power loss may bring back until the file
system commits. The code syncs the temporary file and not the directory, so the promise it keeps is the one
`AtomicFile` states: some whole content the path held since the last commit.

In `SecureBluetooth` nothing sent ever leaves the air, so loss, delay, repetition, reordering and reflection are all
choices of which hello or frame to deliver, and damage is a frame delivered not `intact`. The transport also makes up
hellos (`OnAir`): of any role, session and device it has seen, under a key of its own or a device's, an altered hello
being one of these. `derived` counts transcripts of two genuine hellos only. The transport makes up no frames under keys
it knows: `ActiveHasPeer` says that no session with such keys is ever confirmed, and before that nothing is decrypted.

## 3. Runs

| Run | Question | Bounds |
|---|---|---|
| `lifecycle` | do stale tokens and stale generations ever count; is `PermitGate` implemented | MaxGeneration 5: three openings and the saturated counter |
| `session` | do countdown, poll, cap and idle clock agree; is any extension granted on the unlocking factor alone; can a passcode or a recording prove anything twice | half-second ticks, idle 2 s, cap 5 s, unpolled up to 6.5 s; a policy of two extension factors, proof lists up to length 2, every set of extensions granted so far; 3 passcodes, 2 challenges, both voice modes and nobody enrolled |
| `app_storage` | do memory, file, disk, screen and lifecycle agree | 3 accounts of 2 ids with one duplicate, counters to 3, failing writes, remote lists behind and ahead |
| `app_timing` | how long may decrypted material stay | half-second ticks, cap 5 s, waits up to 7 s |
| `app_keep_open` | a statement of the procedure document that the code does not keep | as `app_timing` |
| `sync` | is anything lost, do the devices converge, can a list be replaced unread or a vector outgrow its limit | 2 devices, 2 accounts (each device enrolls one itself), 3 device ids under a limit of 2, 2 passwords, 2 accepted pushes per id, 2 attempts, 2 late pushes at a time |
| `pin` | are PIN guesses bounded and spaced, does the sealed token stay usable, and the account the same | 2 accounts, the code's own 10 attempts and 11 wrong PINs tried, backoffs of 1 to 4 ticks in the order of 5/30/60/300 s, the clock turning anywhere in a second or set back by 1, every mix of the nine things that may go wrong |
| `pin_weak` | a statement of the comments that the code does not keep | 1 account, 4 attempts |
| `codes` | is what is enrolled what the URI says; are the code shown, its countdown and the copy right; does a copied code go away | URIs with up to two parameters in either order, good and bad; 1 pasted and 1 synced account, periods 2 and 3, three accounts of other versions; 3 copies, a delay of 2 s, every use of the clipboard failing or not |
| `sealed_vault` | what opens what, and is the file a safe | 2 instances, 2 passcodes, 1 account, 2 data keys, harm to every field |
| `bluetooth` | do sessions mix; are frames received as sent, in time, with fresh keys and nonces | 2 devices, 4 pairings (both pair twice), 2 frames each way, 2 texts, limits of one tick to confirm and none after; hellos forged under a key of the transport's and one of a device's |
| `atomic_write` | can the file be truncated; is the write an atomic register | 2 instances, 2 contents, unboundedly many writes |

Two devices and two accepted pushes each are the least that let every device edit, race, retry, land a push late and
still have the two quiet rounds convergence needs. Four pairings are the least in which both devices open a second
session while hellos and frames of the first are about. Two instances with a passcode and a data key each are the
least that can write one file under two keys. Three ids under a limit of two are the least with which a vector
overflows. One key of its own is all a transport needs to stand between two devices, and a device's key stands for a
hello altered in everything but its key. Devices, ids, passwords, instances, accounts and challenges are
interchangeable, so `sync`, `bluetooth`, `pin`, `sealed_vault` and `session` use symmetry; none of them has a liveness
property. Real timeouts and limits (90 s, 300 s, 6 digits, 4 attempts, 64 entries) are constants; only their order
matters to the properties, and the instances keep it.

`CHECK_DEADLOCK FALSE` is set where the program really stops: a disposed lifecycle.

### Fairness

`app_timing` and `codes` need it. In `app_timing`, `Pass` is weakly fair: the clock does not stop. `Tick` is strongly
fair: a due timer runs whenever the event loop comes round, between callbacks that may keep it busy. `SyncEnds` is
weakly fair: the HTTP client times out after 20 s (`sync/http.rs:32-38`) and the attempts are bounded. Nothing obliges
the user to close a file dialog, and `VaultRelocks` says so. In `codes`, time passes, a started callback finishes, and
a due clipboard timer is run: the event loop serves one-shot timers, however late.

## 4. What is proved

`Unlocking_proofs`, the lifecycle for every `MaxGeneration`: the inductive invariant `LifecycleInv`, type correctness,
`ClosedGenerationsStayForeign`, `NeverForgetsTheVault`, and that the lifecycle implements `PermitGate`. The property
about closed generations is not inductive: it needs that an operation in flight carries the newest generation and
that an unlocked or busy lifecycle runs under a generation no closed session had. The point of interest is the
saturated counter, where `lock` no longer moves the generation: then no operation can begin any more, so nothing is
ever unlocked under it again. The refinement maps the token in flight to the outstanding permit, every other issued
token to a spent one, and the opener to the permit the gate is open under.

`Unlocking_proofs`, the session for every tick length, timeout, cap, policy and proof list: type correctness, the cap's
origin (`CapCountsFromUnlock`), the idle clock's (`IdleCountsFromLastUse`), the honesty of the countdown
(`CountdownMatchesPoll`) and, for policies of two or more factors, `ExtensionFactorIsDistinct`, by counting kinds.
`renewals` keeps for each extension since the unlock the kinds it was granted on, and the statement is about each of
them: an honest extension excuses no later one. The
countdown rests on a lemma about integer division and on `idle <= age`, which the type
invariant carries.

`Unlocking_proofs`, the factors for every set of challenges and number of passcodes: every behaviour of `Factors` is
one of `SessionTimers`, so that its four theorems above hold of a session driven by real factors as well;
`SubmissionProvesOnce`, from the invariant that a passcode still entered has given no proof, or gives none because the
stored hash is corrupt; and `RecordingsGoStale`, because what the verifier expects is always the last challenge put.

`PinSession_proofs`, for every backoff table that never exceeds its last entry, every limit, set of accounts and mix
of failures: the inductive invariant, type correctness, `WrongPinsAreBounded` as long as counts reach the disk,
`BackoffIsKept` (but for less than a second) and `BackoffEnds` as long as, besides, nobody sets the clock,
`SealedTokenWorks` and `TokenIsOfLastSignIn`. The first three are not inductive: they need that the count on disk is
the number of wrong PINs answered since sealing, that the age on disk is the true time since the last one or a second
not yet over more, and that an unlock under way still has its file. `slips` records which failure happened; the
conditions are part of the properties because the code drops the errors of these saves and uses the wall clock.

`VaultFile_proofs`, the write for any number of instances and contents: `NeverTruncated`, and that the write implements
`AtomicFile`. The invariant strengthens whole to synced (only then does it survive a power loss) and says how far
each process has brought its temporary file.

`VaultFile_proofs`, the sealed vault for any number of instances, passcodes, accounts and keys: type correctness,
`OpenVaultReopens`, `OnlyItsPasscodeOpens`, and that the sealed vault implements `Safe`. `OpenVaultReopens` is
inductive once every file, stored or held, is known to have been made for the passcode its data key was chosen with,
whatever came to harm since: harm changes no seal's key, purpose or body, only whether it opens. The refinement maps a
file to who opens it and what is in it; it needs that harm to a file that opened shuts it for everybody.

`VaultContents_proofs`, for account lists of any length: what `Merged` returns holds every local account, takes in every
remote one, moves no counter back, and has each id as often as the local list or, where that had none, at most once.
`Merged` is a fold, so the proofs go by induction on the number of remote accounts merged. The library's induction
theorem takes an operator, which the provers cannot instantiate; the module derives the induction from the least element
of a set of numbers instead, shows that the function the fold chooses exists, and unfolds it one account at a time.

`DesktopApp_proofs`, for every set of accounts, every session and lifecycle: the inductive invariant `AppInv`, which is
`TypeOK`, `MaterialIffUnlocked`, `FileIsSealedData` and that the lifecycle rests between callbacks (`RestingPhase`: no
callback returns in the middle of an operation, without which a lock could meet one). On it rest

- `SpentStaysSpent`: the disk, the sealed file and the list in memory each stand beyond every counter announced as
  spent, or lack the account. Each of the three has to be known for the others to keep it: a failed write leaves the
  disk, a rollback the file, a crash the memory.
- `DiskNeverLosesGround`, if no start-up read fails: the file in memory covers what is on disk. A read that fails is
  taken for an empty directory (`ui.rs:123-127`) and the vault set up next overwrites what could not be read.
- `ExposureIsBounded`, if nobody presses "Keep open" under the cap: lifecycle and session are unlocked together, so
  whenever the tick runs it locks both. With the button this is false; see the first point of section 5.

`VaultSync_proofs`, for every number of devices, accounts, passwords, attempts and late pushes: type correctness,
`BlobPasswordIsKept`, `OverfullVectorFreezes`, `LocalNeverLosesGround`, `SyncAddsAnIdOnce`, `AckedStaysOnServer` and
`TwoRoundsConverge`. A push on its way is based on a version the server has had, and on none to come (`PushesAreBased`),
so at most one push per version is accepted, however late. The one that is accepted retains what the server then has
(`ServerInv`); and once every device has synced since the last edit, whoever syncs again takes in everything there is
(`RoundInv`). The last two theorems assume `Agreeing(Enrollable)`: no id names a HOTP account on one device and
a TOTP account on another. The code does not exclude it, because an id is the issuer and the label (`vault/mod.rs:107`);
see section 5 for what happens then.

`SecureBluetooth_proofs`, for every number of devices, pairings, frames and texts and every set of keys to forge
hellos with: the inductive invariant `BluetoothInv`, type correctness, `NoncesAreFresh`, `ReceivedIsPrefixOfSent`,
`ActiveHasPeer` and `NoStaleFrameIsAccepted`. The argument: the keys of a session belong to the pairing whose hello
went into them, a pairing derives once, and so at most one sender counts under a key. Two devices that hold one
transcript hold each other's hello in it, so a session confirmed against another's authentication string was derived
from a genuine one, although an unconfirmed one may not be. A sender's frames are therefore numbered without gap or
repetition, a receiver that takes only the next number has received a prefix of them, and no frame is older than the
keys it is sealed with.

`Codes_proofs`, for every set of URIs, synced accounts, copies and every delay: type correctness, `EnrolledAsWritten`,
`CountdownIsHonest`, `CopiesAreCurrent` and `CodeHasATimer`.

- `EnrolledAsWritten`: parsing folds `Reads` over a parameter list of any length. By induction on the part already read,
  a field holds the last value its parameter was given there, or its default, and the URI is refused as soon as one bad
  value was met and never otherwise; `FromUri` adds the conditions on scheme, type, secret and counter.
- `CountdownIsHonest`: two moments in one period give one code and the countdown ends with the period
  (`SamePeriod`, a lemma on integer division). It rests on `RowsAreDrawn`: every row shows the account at its place as
  it was when the list was drawn, because whatever changes the accounts draws the list again.
- `CopiesAreCurrent`: every row's id is that of some account, and what is copied is the current code of the first of
  them, worked out when it is copied. Accounts are added after the others, so that one stays where it was.
- `CodeHasATimer`: a copy that succeeds starts the timer, time takes from it what it adds to the age of the code, and
  only the timer's own callback ends it. The clear of an older copy of the same code may come first and fail; that
  takes nothing from the timer of the newer one.

Assumptions: the named `ASSUME`s (`MaxGeneration` a natural number; second, timeout and cap positive; a passcode of at
least one digit; the shape of the backoff table; URIs with one list of parameters, numbers for numeric ones and names
for names; synced accounts that are stored accounts; `None`, `Absent` and `Nothing` distinct from the values they
stand beside), which TLC evaluates in the runs, and the hypotheses named above, each of which the run that checks the
property satisfies.

Only model-checked: the liveness properties `VaultRelocks` and `CodeLeaves`, which the prover does not reach. `TypeOK` of
`Codes`, `DesktopApp`, `VaultSync` and `SecureBluetooth` is proved and is part of no run.

## 5. What the code does differently from its documents

Two are runs, because they leave the program in a state its own design rules out:

1. `app_keep_open`: "Keep open" pressed in the last second under the cap locks the `Session` alone; the decrypted
   vault stays in memory with no deadline left (`ui.rs:323-349`, `session.rs:229-231`, `ui.rs:960`).
2. `pin_weak`: a session sealed under a PIN that now counts as weak opens, is refreshed, and cannot be sealed again;
   the rotated token is lost silently (`ui.rs:695`).

The others are conditions under which the properties above are stated, and no run is spent on them:

- The factor that extends need not differ from the one that unlocked when the policy asks for one factor, the default
  (`auth/mod.rs:113` against `session.rs:5-7`): `ExtensionFactorIsDistinct` is about two or more.
- An event between a deadline and the next tick counts as activity (`session.rs:146` against `formal/PROCEDURE.md:33`):
  `ExposureIsBounded` counts from the last tick.
- Extension is refused in the last fraction of a second under the cap (`session.rs:229` against `session.rs:216-218`).
- A sync whose write fails shows a counter the stored vault does not hold (`ui.rs:797-806`).
- A crash, a lost answer or a failed save between refresh and reseal leaves only a spent token (`ui.rs:674-697`), and a
  sign-in without a PIN leaves the former account's session in place (`ui.rs:560`): `SealedTokenWorks` and
  `TokenIsOfLastSignIn` except them by name.
- The backoff is measured on the wall clock in whole seconds (`ui.rs:628`, where `pin_session.rs:280` asks for a
  monotonic time): it may end almost a second early, as `BackoffIsKept` says, and both properties about it assume that
  nobody sets the clock.
- A clear of the clipboard that fails is never tried again: the one-shot timer ends although the clipboard could not be
  opened, read or written (`ui.rs:1161-1163`), and the code stays for as long as the application runs. `CodeHasATimer` and
  `CodeLeaves` except exactly the failure of the clear that was due. A failed copy still reports "Copied to clipboard"
  (`ui.rs:288-289`, `ui.rs:1146-1152`).
- A PIN unlock goes on when the keystore refuses the new device token (`ui.rs:690`); the former one stays.
- The comment at `otp/uri.rs:25` lets "period" hold an initial HOTP counter; the code has a field for each, and
  `EnrolledAsWritten` follows the code.
- Quitting leaves a copied code on the clipboard, and what is copied between the look and the wipe is wiped
  (`ui.rs:1160-1163`): `CodeLeaves` excepts the first too, nothing is claimed of the second.
- Two devices may enroll different accounts under one id, which is the issuer and the label (`vault/mod.rs:107`). Each
  then keeps its own, the server has whichever was pushed last, and "without losing enrollments" (`sync/mod.rs:89`) is
  true of the device only. `AckedStaysOnServer` and `TwoRoundsConverge` are about ids that name one kind of account.
- What the vault holds "only inside the encrypted payload and never uploaded to the server" (`vault/mod.rs:194`), the
  voiceprint, is part of the `VaultData` that `seal_for_upload` seals and uploads as a whole (`sync/mod.rs:47-63`).
- `VaultFile::unlock` derives a key under whatever parameters the file names (`vault/mod.rs:318`); the bounds of
  `protocol.rs:97` apply to blobs and PIN sessions only.
- "Wipe the entered passcode regardless of outcome" (`auth/passcode.rs:77`) comes after an early return: a stored hash
  that does not parse leaves the passcode entered. It proves nothing, which is what `SubmissionProvesOnce` says.
- Rows that share an id all copy and advance the first account of that id (`ui.rs:286`); a countdown beyond
  `i32::MAX` wraps in the view (`ui.rs:916`), and `CountdownIsHonest` excepts it.
- A vault file that cannot be read or parsed at start-up counts as none, and the vault set up next overwrites it
  (`ui.rs:123-127`); two instances overwrite each other's file (`ui.rs:1121-1139`). `Safe` allows both.

## 6. Plan

Done: every component that keeps state, and every safety and action property a passing run checks as a theorem. Next:
an in-order pipe that `SecureBluetooth` implements, and an abstract replicated vault that `VaultSync` implements.

## 7. Not modelled

- Cryptographic primitives and HMAC: assumed to work, represented by what they are applied to.
- Byte and text layouts: JSON, base32, URL syntax, frames, hex. Parsing starts where these libraries end.
- Images, the camera, HTTP requests: I/O, of which only the outcomes and the waits are modelled.
- Touch ID, Windows Hello, fprintd and platform passkeys: stubs that report unavailable.
- Input validation that no state depends on: characters of device ids, lengths of messages and names.
- A power loss in `DesktopApp`: its `Crash` is the death of the process. `AtomicWrite` says which earlier file a power
  loss may bring back (`lib.rs:68` syncs no directory); the counters that file did not hold yet are then announced
  again, and `SpentStaysSpent` does not cover that.
- A second instance in `PinSession`: two that load one file before either saves its count share an attempt, and the ten
  of `WrongPinsAreBounded` are those of one process.
- A disk that gives back an older file of the same key, in `SealedVault`: every one of its payloads is authentic, and the
  code keeps nothing to tell their age by.
- Two transcripts with the same six digits, in `SecureBluetooth`: equality of authentication strings stands for equality
  of transcripts, where the protocol's document promises about 20 bits (`docs/SECURE_BLUETOOTH_PROTOCOL.md:15`).
- The conversion of a parsed account to a stored one is part of the model (`StoredAccount`) but not of
  `EnrolledAsWritten`, which is about what `from_uri` returns; a local list with one id twice does not occur in the `sync`
  run, and the theorem `SyncEnrollsOnce` covers it.
- Themes, status texts, layout, the choice of data directory, packaging, examples and vendored interfaces.
- `PolicyEngine::remaining` and the Unlock gate are called by no code of the GUI; `Factors` composes the second with
  the factors as `auth/mod.rs` intends.
