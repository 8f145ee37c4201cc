-------------------------- MODULE DesktopApp_proofs --------------------------
(***************************************************************************)
(* What the GUI controller guarantees for every passcode length, timeout,  *)
(* account list, synced vault and order of callbacks.                      *)
(***************************************************************************)
EXTENDS DesktopApp, VaultContents_proofs

-----------------------------------------------------------------------------
(* The two rule modules return values of their types *)

\* Every effect on the lifecycle gives a lifecycle again.
LEMMA LifecycleTypes ==
    /\ NewLifecycle \in Lifecycle /\ NewLifecycle.phase = "Loading"
    /\ \A exists \in BOOLEAN :
          /\ Initialized(NewLifecycle, exists) \in Lifecycle
          /\ Initialized(NewLifecycle, exists).phase =
                IF exists THEN "Locked" ELSE "Setup"
    /\ \A s \in Lifecycle :
          /\ Disposed(s) \in Lifecycle /\ Disposed(s).phase = "Disposed"
          /\ Locked(s) \in Lifecycle
          /\ Locked(s).phase = IF s.phase \in {"Loading", "Setup"}
                               THEN s.phase ELSE "Locked"
  <1>1. NewLifecycle \in Lifecycle /\ NewLifecycle.phase = "Loading"
    BY MaxGenerationAssumption DEF NewLifecycle, Lifecycle, Phase, NoToken
  <1>2. \A exists \in BOOLEAN :
          /\ Initialized(NewLifecycle, exists) \in Lifecycle
          /\ Initialized(NewLifecycle, exists).phase =
                IF exists THEN "Locked" ELSE "Setup"
    BY <1>1 DEF Initialized, Lifecycle, Phase
  <1>3. ASSUME NEW s \in Lifecycle
        PROVE  /\ Disposed(s) \in Lifecycle /\ Disposed(s).phase = "Disposed"
               /\ Locked(s) \in Lifecycle
               /\ Locked(s).phase = IF s.phase \in {"Loading", "Setup"}
                                    THEN s.phase ELSE "Locked"
    <2>1. Saturated(s.generation) \in 0 .. MaxGeneration
      BY MaxGenerationAssumption DEF Saturated, Lifecycle
    <2>2. QED
      BY <2>1 DEF Disposed, Locked, Lifecycle, Phase, NoToken
  <1>4. QED
    BY <1>1, <1>2, <1>3

\* A submitted passcode begins and completes an operation in one callback.
LEMMA SubmissionTypes ==
    ASSUME NEW s \in Lifecycle, NEW op \in Operations, CanBegin(s, op),
           NEW succeeded \in BOOLEAN
    PROVE  LET after == Completed(Begun(s, op), Begun(s, op).active, succeeded)
           IN  /\ after \in Lifecycle
               /\ after.phase = IF succeeded THEN "Unlocked" ELSE s.phase
  <1>1. s.generation + 1 \in 1 .. MaxGeneration
    BY MaxGenerationAssumption DEF CanBegin, Lifecycle
  <1>2. Begun(s, op) \in Lifecycle /\ Begun(s, op).active.operation = op
    BY <1>1, MaxGenerationAssumption
    DEF Begun, BusyPhase, NextToken, Lifecycle, Phase, Token, Operations
  <1>3. QED
    BY <1>2 DEF Completed, Lifecycle, Phase, HomePhase, Operations, CanBegin, NoToken

\* Every effect on the session gives a session again.
LEMMA SessionTypes ==
    /\ ClosedSession \in Session /\ OpenedSession \in Session
    /\ \A s \in Session :
          /\ Aged(s, 1) \in Session
          /\ \A i : Noted(s, i) \in Session
          /\ \A factors, collected : Extended(s, factors, collected) \in Session
  <1>1. ClosedSession \in Session /\ OpenedSession \in Session
    BY DEF Session, ClosedSession, OpenedSession
  <1>2. ASSUME NEW s \in Session
        PROVE  Touched(s) \in Session /\ Aged(s, 1) \in Session
    <2>1. s.age + 1 \in Nat /\ s.idle + 1 \in Nat
      BY DEF Session
    <2>2. QED
      BY <2>1 DEF Session, Touched, Aged
  <1>3. \A s \in Session : \A i : Noted(s, i) \in Session
    BY <1>2 DEF Noted
  <1>4. \A s \in Session : \A factors, collected :
           Extended(s, factors, collected) \in Session
    BY <1>1, <1>2 DEF Extended
  <1>5. QED
    BY <1>1, <1>2, <1>3, <1>4

-----------------------------------------------------------------------------
(* Types, and which parts of the state come and go together *)

\* A running controller has finished initializing and has no operation in
\* flight between callbacks; one that is not running holds nothing.
RestingPhase ==
    IF running THEN life.phase \in {"Setup", "Locked", "Unlocked"}
    ELSE life.phase \in {"Loading", "Disposed"}

\* What every callback of the controller starts from and leaves behind.
AppInv == /\ TypeOK
          /\ MaterialIffUnlocked
          /\ FileIsSealedData
          /\ RestingPhase

\* The process has not started yet.
LEMMA AppInit == Init => AppInv
  <1> SUFFICES ASSUME Init PROVE AppInv
    OBVIOUS
  <1>1. spent \in [Id -> 0 .. MaxCounter]
    BY CounterAssumption DEF Init
  <1>2. entry \in 0 .. PasscodeLength - 1 /\ sinceTick \in Nat
    BY AppAssumption DEF Init
  <1>3. TypeOK
    BY <1>1, <1>2, LifecycleTypes, SessionTypes DEF Init, TypeOK, Accounts
  <1>4. QED
    BY <1>3, LifecycleTypes
    DEF Init, AppInv, MaterialIffUnlocked, FileIsSealedData, RestingPhase

\* Locking leaves no material, whatever the session was.
LEMMA LockVaultKeepsInv ==
    ASSUME AppInv, running, LockVault, UNCHANGED <<running, disk, job, spent>>,
           sinceTick' \in Nat
    PROVE  AppInv'
  <1>1. life' \in Lifecycle /\ life'.phase \in {"Setup", "Locked"}
    BY LifecycleTypes DEF AppInv, TypeOK, RestingPhase, LockVault
  <1>2. entry' \in 0 .. PasscodeLength - 1
    BY AppAssumption DEF LockVault
  <1>3. TypeOK'
    BY <1>1, <1>2, SessionTypes DEF AppInv, TypeOK, Accounts, LockVault
  <1>4. QED
    BY <1>1, <1>3
    DEF AppInv, MaterialIffUnlocked, FileIsSealedData, RestingPhase, LockVault

\* A new account list reaches the decrypted data and the sealed file together.
LEMMA StoreKeepsInv ==
    ASSUME AppInv, running, dek, NEW accounts, accounts \in Seq(Account),
           NEW wrote, Store(accounts, wrote),
           UNCHANGED <<running, life, entry, screen, sinceTick>>,
           sess' \in Session, job' \in {"none", "scan", "sync"},
           spent' \in [Id -> 0 .. MaxCounter]
    PROVE  AppInv'
  <1>1. TypeOK'
    BY DEF AppInv, TypeOK, Accounts, Store
  <1>2. data # None /\ data' # None
    BY AppAssumption DEF AppInv, MaterialIffUnlocked, Store
  <1>3. QED
    BY <1>1, <1>2
    DEF AppInv, MaterialIffUnlocked, FileIsSealedData, RestingPhase, Store

\* Steps that leave the vault, the lifecycle and the screen alone.
LEMMA QuietKeepsInv ==
    ASSUME AppInv, UNCHANGED <<running, disk, vault, life, screen, spent>>,
           data = None \/ entry' = entry, entry' \in 0 .. PasscodeLength - 1,
           sess' \in Session, job' \in {"none", "scan", "sync"},
           sinceTick' \in Nat
    PROVE  AppInv'
  <1>1. TypeOK'
    BY DEF AppInv, TypeOK, vault, Accounts
  <1>2. QED
    BY <1>1
    DEF AppInv, MaterialIffUnlocked, FileIsSealedData, RestingPhase, vault

\* Every callback, timer, crash and start keeps the invariant.
LEMMA AppStep == AppInv /\ [Next]_vars => AppInv'
  <1> SUFFICES ASSUME AppInv, [Next]_vars PROVE AppInv'
    OBVIOUS
  <1>t. /\ life \in Lifecycle /\ sess \in Session /\ entry \in 0 .. PasscodeLength - 1
        /\ screen \in {"setup", "lock", "vault", "settings"}
        /\ job \in {"none", "scan", "sync"} /\ sinceTick \in Nat
        /\ disk \in Accounts /\ file \in Accounts /\ data \in Accounts
        /\ spent \in [Id -> 0 .. MaxCounter] /\ running \in BOOLEAN /\ dek \in BOOLEAN
    BY DEF AppInv, TypeOK
  <1>n. \A i : Noted(sess, i) \in Session
    BY <1>t, SessionTypes
  <1>k. Keypad => running /\ data = None
    BY DEF AppInv, MaterialIffUnlocked, Keypad, On
  <1>v. On({"vault"}) \/ On({"settings"}) => running /\ data # None /\ dek
    BY DEF AppInv, MaterialIffUnlocked, On
  <1>d. dek => data \in Seq(Account) /\ running
    BY <1>t DEF AppInv, MaterialIffUnlocked, Accounts, RestingPhase
  <1>1. ASSUME NEW readable \in StartupReads, Start(readable) PROVE AppInv'
    <2>1. /\ life' \in Lifecycle
          /\ life'.phase = IF file' # None THEN "Locked" ELSE "Setup"
      BY <1>1, LifecycleTypes DEF Start
    <2>2. entry' \in 0 .. PasscodeLength - 1 /\ file' \in Accounts
      BY <1>1, <1>t, AppAssumption DEF Start, Accounts
    <2>3. TypeOK'
      BY <1>1, <1>t, <2>1, <2>2, SessionTypes DEF Start, TypeOK, Accounts
    <2>4. QED
      BY <1>1, <2>1, <2>3
      DEF Start, AppInv, MaterialIffUnlocked, FileIsSealedData, RestingPhase
  <1>2. ASSUME NEW last, Gone(last), last \in Lifecycle,
               last.phase \in {"Loading", "Disposed"}
        PROVE  AppInv'
    <2>1. entry' \in 0 .. PasscodeLength - 1
      BY <1>2, AppAssumption DEF Gone
    <2>2. TypeOK'
      BY <1>2, <1>t, <2>1, SessionTypes DEF Gone, TypeOK, Accounts
    <2>3. QED
      BY <1>2, <2>2
      DEF Gone, AppInv, MaterialIffUnlocked, FileIsSealedData, RestingPhase
  <1>3. CASE Quit \/ Crash
    BY <1>2, <1>3, <1>t, LifecycleTypes DEF Quit, Crash
  <1>4. CASE Tick \/ NestedTick
    <2>1. TickRuns
      BY <1>4 DEF Tick, NestedTick
    <2>2. CASE LockVault
      BY <2>1, <2>2, LockVaultKeepsInv DEF TickRuns
    <2>3. CASE UNCHANGED <<vault, life, sess, entry, screen>>
      BY <1>t, <2>1, <2>3, QuietKeepsInv DEF TickRuns
    <2>4. QED
      BY <2>1, <2>2, <2>3 DEF TickRuns, AutoLock
  <1>5. CASE Pass
    <2>1. sess' \in Session /\ sinceTick' \in Nat
      BY <1>5, <1>t, SessionTypes DEF Pass
    <2>2. QED
      BY <1>5, <1>t, <2>1, QuietKeepsInv DEF Pass, ui
  <1>6. CASE Digit \/ Backspace
    <2>1. entry' \in 0 .. PasscodeLength - 1 /\ sess' \in Session /\ Keypad
      BY <1>6, <1>t, <1>n, AppAssumption DEF Digit, Backspace
    <2>2. QED
      BY <1>6, <1>t, <1>k, <2>1, QuietKeepsInv DEF Digit, Backspace
  <1>7. CASE SubmitRefused
    BY <1>7, <1>t, <1>n, <1>k, AppAssumption, QuietKeepsInv DEF SubmitRefused, LastDigit
  <1>o. Operation \in Operations
    BY DEF Operation, Operations
  <1>8. CASE SubmitFails
    <2>1. /\ life' \in Lifecycle /\ life'.phase = life.phase
          /\ sess' \in Session /\ entry' = 0 /\ data = None /\ running
      BY <1>8, <1>t, <1>n, <1>k, <1>o, SubmissionTypes
      DEF SubmitFails, Done, LastDigit
    <2>2. entry' \in 0 .. PasscodeLength - 1
      BY <2>1, AppAssumption
    <2>3. TypeOK'
      BY <1>8, <1>t, <2>1, <2>2 DEF SubmitFails, TypeOK, vault
    <2>4. QED
      BY <1>8, <2>1, <2>3
      DEF SubmitFails, AppInv, MaterialIffUnlocked, FileIsSealedData, RestingPhase, vault
  <1>9. CASE SubmitUnlocks
    <2>1. /\ life' \in Lifecycle /\ life'.phase = "Unlocked"
          /\ entry' = 0 /\ running /\ file # None
      BY <1>9, <1>t, <1>k, <1>o, SubmissionTypes DEF SubmitUnlocks, Done, LastDigit
    <2>2. entry' \in 0 .. PasscodeLength - 1
      BY <2>1, AppAssumption
    <2>3. TypeOK'
      BY <1>9, <1>t, <2>1, <2>2, SessionTypes DEF SubmitUnlocks, Opens, TypeOK
    <2>4. QED
      BY <1>9, <2>1, <2>3
      DEF SubmitUnlocks, Opens, AppInv, MaterialIffUnlocked, FileIsSealedData,
          RestingPhase
  <1>10. ASSUME NEW wrote \in WriteOutcomes, SubmitCreates(wrote) PROVE AppInv'
    <2>1. /\ life' \in Lifecycle /\ life'.phase = "Unlocked"
          /\ entry' = 0 /\ running
      BY <1>10, <1>t, <1>k, <1>o, SubmissionTypes DEF SubmitCreates, Done, LastDigit
    <2>2. /\ entry' \in 0 .. PasscodeLength - 1
          /\ <<>> \in Seq(Account) /\ <<>> # None
      <3>1. <<>> \in Seq(Account)
        OBVIOUS
      <3>2. <<>> # None
        <4>1. None \notin Seq(Account)
          BY AppAssumption
        <4>2. QED
          BY <3>1, <4>1
      <3>3. entry' \in 0 .. PasscodeLength - 1
        BY <2>1, AppAssumption
      <3>4. QED
        BY <3>1, <3>2, <3>3
    <2>3. spent' \in [Id -> 0 .. MaxCounter]
      BY <1>10, CounterAssumption DEF SubmitCreates
    <2>4. TypeOK'
      BY <1>10, <1>t, <2>1, <2>2, <2>3, SessionTypes
      DEF SubmitCreates, Opens, TypeOK, Accounts
    <2>5. QED
      BY <1>10, <2>1, <2>2, <2>4
      DEF SubmitCreates, Opens, AppInv, MaterialIffUnlocked, FileIsSealedData,
          RestingPhase
  <1>11. ASSUME NEW i \in {"CopyCode", "AddAccount"}, JustActivity(i) PROVE AppInv'
    BY <1>11, <1>t, <1>n, QuietKeepsInv DEF JustActivity, ui
  <1>12. ASSUME NEW a \in NewAccounts, NEW wrote \in WriteOutcomes,
                AddAccount(a, wrote) \/ ScanEnrolls(a, wrote)
         PROVE  AppInv'
    <2>1. a \in Account /\ dek /\ running
      BY <1>12, AppAssumption DEF AddAccount, ScanEnrolls, On
    <2>2. Append(data, a) \in Seq(Account)
      BY <1>d, <2>1
    <2>3. /\ Store(Append(data, a), wrote) /\ sess' \in Session
          /\ UNCHANGED <<running, life, entry, screen, sinceTick>>
          /\ job' \in {"none", "scan", "sync"} /\ spent' \in [Id -> 0 .. MaxCounter]
      BY <1>12, <1>t, <1>n DEF AddAccount, ScanEnrolls, ui
    <2>4. QED
      BY <2>1, <2>2, <2>3, StoreKeepsInv
  <1>13. CASE ScanBegins \/ ScanFindsNothing \/ SyncBegins \/ SyncEnds
    BY <1>13, <1>t, <1>n, QuietKeepsInv
    DEF ScanBegins, ScanFindsNothing, SyncBegins, SyncEnds
  <1>14. ASSUME NEW id \in Id, AdvanceSaved(id) PROVE AppInv'
    <2>1. dek /\ running /\ data \in Seq(Account) /\ CanAdvance(data, id)
      BY <1>14, <1>v, <1>d DEF AdvanceSaved, NextCodeRow
    <2> DEFINE next == Advanced(data, id)
    <2>2. next \in Seq(Account) /\ id \in Ids(next)
      BY <2>1, AdvancedCountsOnce
    <2>3. CounterOf(next, id) \in 0 .. MaxCounter
      BY <2>2, CounterOfIsCounter
    <2>4. /\ Store(next, TRUE) /\ sess' \in Session
          /\ spent' = [spent EXCEPT ![id] = CounterOf(next, id)]
          /\ UNCHANGED <<running, life, ui, sinceTick>>
      BY <1>14, <1>n DEF AdvanceSaved, Store
    <2> HIDE DEF next
    <2>5. spent' \in [Id -> 0 .. MaxCounter]
      BY <1>t, <2>3, <2>4
    <2>6. QED
      BY <1>t, <2>1, <2>2, <2>4, <2>5, StoreKeepsInv DEF ui
  <1>15. ASSUME NEW id \in Id, AdvanceRefused(id) PROVE AppInv'
    BY <1>15, <1>t, <1>n, QuietKeepsInv DEF AdvanceRefused, ui
  <1>16. ASSUME NEW id \in Id, AdvanceRolledBack(id) PROVE AppInv'
    <2>1. file' = file
      BY <1>16, <1>v DEF AdvanceRolledBack, NextCodeRow, AppInv, FileIsSealedData
    <2>2. QED
      BY <1>16, <1>t, <1>n, <2>1, QuietKeepsInv DEF AdvanceRolledBack, ui, vault
  <1>17. CASE LockNow
    BY <1>17, <1>t, LockVaultKeepsInv DEF LockNow, On
  <1>18. CASE ExtendSession
    <2>1. sess' \in Session
      BY <1>18, <1>n, SessionTypes DEF ExtendSession
    <2>2. QED
      BY <1>18, <1>t, <2>1, QuietKeepsInv DEF ExtendSession, ui
  <1>19. CASE OpenSettings \/ CloseSettings
    <2>1. /\ running /\ data # None /\ screen' \in {"vault", "settings"}
          /\ sess' \in Session
          /\ UNCHANGED <<running, disk, vault, life, entry, job, sinceTick, spent>>
      BY <1>19, <1>n, <1>v DEF OpenSettings, CloseSettings
    <2>2. TypeOK'
      BY <1>t, <2>1 DEF TypeOK, vault
    <2>3. QED
      BY <2>1, <2>2
      DEF AppInv, MaterialIffUnlocked, FileIsSealedData, RestingPhase, vault
  <1>20. ASSUME NEW r \in RemoteVaults, NEW wrote \in WriteOutcomes, SyncAdopts(r, wrote)
         PROVE  AppInv'
    <2>1. /\ r \in Seq(Account) /\ dek /\ running /\ data \in Seq(Account)
          /\ Store(Merged(data, r), wrote) /\ sess' \in Session
          /\ UNCHANGED <<running, life, entry, screen, sinceTick, spent>>
          /\ job' \in {"none", "scan", "sync"}
      BY <1>20, <1>t, <1>d, AppAssumption DEF SyncAdopts
    <2>2. Merged(data, r) \in Seq(Account)
      BY <2>1, MergedKeepsBoth
    <2>3. QED
      BY <1>t, <2>1, <2>2, StoreKeepsInv
  <1>21. CASE UNCHANGED vars
    BY <1>21, <1>t, QuietKeepsInv DEF vars, ui
  <1>22. QED
    BY <1>1, <1>3, <1>4, <1>5, <1>6, <1>7, <1>8, <1>9, <1>10, <1>11, <1>12, <1>13,
       <1>14, <1>15, <1>16, <1>17, <1>18, <1>19, <1>20, <1>21
    DEF Next

\* The invariant holds in every reachable state.
LEMMA AppInvariance == Spec => []AppInv
  BY AppInit, AppStep, PTL DEF Spec

\* Every variable keeps its type through every callback (ui.rs:30-60).
THEOREM AppTypeCorrect == Spec => []TypeOK
  <1>1. AppInv => TypeOK
    BY DEF AppInv
  <1>2. QED
    BY <1>1, AppInvariance, PTL

\* The decrypted list, its key, the screens that show them and the unlocked
\* phase come and go together, in whatever order callbacks, timers, crashes
\* and restarts follow one another (ui.rs:52-61, 72-79).
THEOREM AppMaterialIffUnlocked == Spec => []MaterialIffUnlocked
  <1>1. AppInv => MaterialIffUnlocked
    BY DEF AppInv
  <1>2. QED
    BY <1>1, AppInvariance, PTL

\* Failed writes and rollbacks included, the sealed file in memory is a copy
\* of the decrypted list (ui.rs:1088-1103).
THEOREM AppFileIsSealedData == Spec => []FileIsSealedData
  <1>1. AppInv => FileIsSealedData
    BY DEF AppInv
  <1>2. QED
    BY <1>1, AppInvariance, PTL

-----------------------------------------------------------------------------
(* How long an open vault stays open *)

\* Activity restarts the idle clock and nothing else.
LEMMA NotedSession ==
    ASSUME NEW s \in Session, NEW i
    PROVE  /\ Noted(s, i).unlocked = s.unlocked
           /\ Noted(s, i).age = s.age
           /\ Noted(s, i).idle \in {0, s.idle}
  BY DEF Session, Noted, Touched

\* A passing moment ages an open session on both clocks.
LEMMA AgedSession ==
    ASSUME NEW s \in Session, s.unlocked
    PROVE  /\ Aged(s, 1).unlocked
           /\ Aged(s, 1).age = s.age + 1
           /\ Aged(s, 1).idle = s.idle + 1
  BY DEF Session, Aged

\* An open vault whose deadlines are met, and one noted interaction.
LEMMA ActivityKeepsBound ==
    ASSUME AppInv, ExposureIsBounded, data # None, sinceTick' = sinceTick,
           sess' = sess \/ \E i : sess' = Noted(sess, i)
    PROVE  ExposureIsBounded'
  <1>1. sess \in Session /\ sinceTick \in Nat
    BY DEF AppInv, TypeOK
  <1>2. /\ sess'.unlocked = sess.unlocked /\ sess'.age = sess.age
        /\ sess'.idle \in {0, sess.idle}
    BY <1>1, NotedSession
  <1>3. QED
    BY <1>1, <1>2, SessionAssumption DEF ExposureIsBounded, Session

\* No step lets decrypted material outlive a deadline by more than the time
\* since the timer last ran, while nobody presses "Keep open".
LEMMA ExposureStep ==
    ASSUME ~KeepOpen, AppInv, ExposureIsBounded, [Next]_vars
    PROVE  ExposureIsBounded'
  <1>t. sess \in Session /\ sinceTick \in Nat
    BY DEF AppInv, TypeOK
  <1>d. /\ dek <=> data # None
        /\ On({"vault"}) \/ On({"settings"}) => data # None
        /\ Keypad => data = None
    BY DEF AppInv, MaterialIffUnlocked, On, Keypad
  <1>c. data' = None => ExposureIsBounded'
    BY DEF ExposureIsBounded
  <1>o. sess' = OpenedSession /\ sinceTick' = sinceTick => ExposureIsBounded'
    BY <1>t, SessionAssumption DEF ExposureIsBounded, OpenedSession
  <1>1. CASE \/ \E readable \in StartupReads : Start(readable)
             \/ Quit \/ Crash \/ LockNow
    BY <1>1, <1>c DEF Start, Quit, Crash, Gone, LockNow, LockVault
  <1>2. CASE Tick \/ NestedTick
    <2>1. AutoLock /\ sinceTick' = 0
      BY <1>2 DEF Tick, NestedTick, TickRuns
    <2>2. CASE LockVault
      BY <1>c, <2>2 DEF LockVault
    <2>3. CASE PollResult(sess) # "JustLocked" /\ UNCHANGED <<vault, sess>>
      <3>1. CASE data # None
        <4>1. sess.unlocked /\ ~Expired(sess)
          BY <2>3, <3>1 DEF ExposureIsBounded, PollResult
        <4>2. sess.idle < IdleTimeout /\ sess.age < MaxSession
          BY <1>t, <4>1, SessionAssumption DEF Expired, Session
        <4>3. QED
          BY <1>t, <2>1, <2>3, <4>1, <4>2, SessionAssumption
          DEF ExposureIsBounded, Session, vault
      <3>2. CASE data = None
        BY <1>c, <2>3, <3>2 DEF vault
      <3>3. QED
        BY <3>1, <3>2
    <2>4. QED
      BY <2>1, <2>2, <2>3 DEF AutoLock
  <1>3. CASE Pass
    <2>1. sess' = Aged(sess, 1) /\ sinceTick' = sinceTick + 1 /\ data' = data
      BY <1>3 DEF Pass, vault
    <2>2. CASE data # None
      <3>1. /\ sess.unlocked /\ sess.age < MaxSession + sinceTick
            /\ sess.idle < IdleTimeout + sinceTick
        BY <2>2 DEF ExposureIsBounded
      <3>2. QED
        BY <1>t, <2>1, <3>1, AgedSession, SessionAssumption
        DEF ExposureIsBounded, Session
    <2>3. QED
      BY <1>c, <2>1, <2>2
  <1>4. CASE Digit \/ Backspace \/ SubmitRefused \/ SubmitFails
    BY <1>4, <1>c, <1>d
    DEF Digit, Backspace, SubmitRefused, SubmitFails, LastDigit, vault
  <1>5. CASE SubmitUnlocks \/ \E wrote \in WriteOutcomes : SubmitCreates(wrote)
    BY <1>5, <1>o DEF SubmitUnlocks, SubmitCreates, Opens
  <1>6. CASE \/ \E i \in {"CopyCode", "AddAccount"} : JustActivity(i)
             \/ ScanBegins \/ OpenSettings \/ CloseSettings \/ SyncBegins
             \/ \E id \in Id : AdvanceRefused(id) \/ AdvanceRolledBack(id)
    BY <1>6, <1>d, ActivityKeepsBound
    DEF JustActivity, ScanBegins, OpenSettings, CloseSettings, SyncBegins,
        AdvanceRefused, AdvanceRolledBack, NextCodeRow
  <1>7. CASE ScanFindsNothing \/ SyncEnds \/ UNCHANGED vars
    <2>1. UNCHANGED <<data, sess, sinceTick>>
      BY <1>7 DEF ScanFindsNothing, SyncEnds, vars, vault
    <2>2. QED
      BY <1>c, <2>1, ActivityKeepsBound
  <1>8. ASSUME NEW a \in NewAccounts, NEW wrote \in WriteOutcomes,
               AddAccount(a, wrote) \/ ScanEnrolls(a, wrote)
        PROVE  ExposureIsBounded'
    BY <1>8, <1>d, ActivityKeepsBound DEF AddAccount, ScanEnrolls
  <1>9. ASSUME NEW id \in Id, AdvanceSaved(id) PROVE ExposureIsBounded'
    BY <1>9, <1>d, ActivityKeepsBound DEF AdvanceSaved, NextCodeRow
  <1>10. ASSUME NEW r \in RemoteVaults, NEW wrote \in WriteOutcomes, SyncAdopts(r, wrote)
         PROVE  ExposureIsBounded'
    BY <1>10, <1>d, ActivityKeepsBound DEF SyncAdopts
  <1>11. ~ExtendSession
    BY DEF ExtendSession
  <1>12. QED
    BY <1>1, <1>2, <1>3, <1>4, <1>5, <1>6, <1>7, <1>8, <1>9, <1>10, <1>11 DEF Next

\* Decrypted material outlives neither deadline by more than the time since
\* the timer last ran, while nobody presses "Keep open"; an extension in the
\* last second closes the session alone, which is a finding of its own
\* (ui.rs:933-966, session.rs:195-214).
THEOREM AppExposureIsBounded ==
    ASSUME ~KeepOpen
    PROVE  Spec => []ExposureIsBounded
  <1>1. Init => ExposureIsBounded
    BY DEF Init, ExposureIsBounded
  <1>2. AppInv /\ ExposureIsBounded /\ [Next]_vars => ExposureIsBounded'
    BY ExposureStep
  <1>3. QED
    BY <1>1, <1>2, AppInvariance, PTL DEF Spec

-----------------------------------------------------------------------------
(* What a step may do to the three account lists *)

\* The sealed file and the disk stay, and the data is what it was, gone, or
\* decrypted from the file.
ListsStay == UNCHANGED <<disk, file, spent>> /\ data' \in {None, data, file}

\* The process starts or ends.
ListsReload == /\ UNCHANGED <<disk, spent>>
               /\ data' = None
               /\ \/ file' = None /\ ~running'
                  \/ \E readable \in StartupReads :
                        file' = IF readable THEN disk ELSE None

\* A list that keeps up with the data replaces it.
ListsGrow == \E accounts \in Seq(Account), wrote \in BOOLEAN :
                /\ data # None /\ KeepsUp(accounts, data)
                /\ Store(accounts, wrote)
                /\ UNCHANGED spent

\* A step leaves the lists alone, drops or reloads them, replaces them by one
\* that keeps up, or creates a vault.
LEMMA ListSteps ==
    ASSUME AppInv, [Next]_vars
    PROVE  \/ ListsStay \/ ListsReload \/ ListsGrow
           \/ \E wrote \in WriteOutcomes : SubmitCreates(wrote)
           \/ \E id \in Id : AdvanceSaved(id)
  <1>d. /\ dek <=> data # None
        /\ data # None => data \in Seq(Account) /\ file = data
        /\ On({"vault"}) => data # None
    BY DEF AppInv, TypeOK, Accounts, MaterialIffUnlocked, FileIsSealedData, On
  <1>1. CASE \E readable \in StartupReads : Start(readable)
    BY <1>1 DEF Start, ListsReload
  <1>2. CASE Quit \/ Crash
    BY <1>2 DEF Quit, Crash, Gone, ListsReload
  <1>3. CASE Tick \/ NestedTick \/ LockNow
    BY <1>3
    DEF Tick, NestedTick, TickRuns, AutoLock, LockNow, LockVault, ListsStay, vault
  <1>4. CASE \/ Pass \/ Digit \/ Backspace \/ SubmitRefused \/ SubmitFails
             \/ UNCHANGED vars
    BY <1>4
    DEF Pass, Digit, Backspace, SubmitRefused, SubmitFails, ListsStay, vault, vars
  <1>5. CASE SubmitUnlocks
    BY <1>5 DEF SubmitUnlocks, Opens, ListsStay
  <1>6. CASE \/ \E i \in {"CopyCode", "AddAccount"} : JustActivity(i)
             \/ ScanBegins \/ ScanFindsNothing \/ ExtendSession
             \/ OpenSettings \/ CloseSettings \/ SyncBegins \/ SyncEnds
             \/ \E id \in Id : AdvanceRefused(id)
    BY <1>6
    DEF JustActivity, ScanBegins, ScanFindsNothing, ExtendSession, OpenSettings,
        CloseSettings, SyncBegins, SyncEnds, AdvanceRefused, ListsStay, vault
  <1>7. ASSUME NEW id \in Id, AdvanceRolledBack(id) PROVE ListsStay
    BY <1>7, <1>d DEF AdvanceRolledBack, NextCodeRow, ListsStay
  <1>8. ASSUME NEW a \in NewAccounts, NEW wrote \in WriteOutcomes,
               AddAccount(a, wrote) \/ ScanEnrolls(a, wrote)
        PROVE  ListsGrow
    <2>1. /\ a \in Account /\ wrote \in BOOLEAN /\ data \in Seq(Account)
          /\ data # None /\ Store(Append(data, a), wrote) /\ spent' = spent
      BY <1>8, <1>d, AppAssumption DEF AddAccount, ScanEnrolls
    <2> DEFINE longer == Append(data, a)
    <2>2. /\ longer \in Seq(Account)
          /\ Ids(longer) = Ids(data) \cup {a.id}
          /\ \A id \in Ids(data) : CounterOf(longer, id) = CounterOf(data, id)
      BY <2>1, AppendKeepsUp
    <2>3. KeepsUp(longer, data)
      <3>1. \A id \in Ids(data) : CounterOf(data, id) \in Int
        BY <2>1, CounterOfIsCounter, CounterAssumption
      <3> HIDE DEF longer
      <3>2. QED
        BY <2>2, <3>1 DEF KeepsUp
    <2> HIDE DEF longer
    <2>4. QED
      BY <2>1, <2>2, <2>3 DEF ListsGrow, longer
  <1>9. ASSUME NEW r \in RemoteVaults, NEW wrote \in WriteOutcomes, SyncAdopts(r, wrote)
        PROVE  ListsGrow
    <2>1. /\ r \in Seq(Account) /\ wrote \in BOOLEAN /\ data \in Seq(Account)
          /\ data # None /\ Store(Merged(data, r), wrote) /\ spent' = spent
      BY <1>9, <1>d, AppAssumption DEF SyncAdopts
    <2>2. Merged(data, r) \in Seq(Account) /\ KeepsUp(Merged(data, r), data)
      BY <2>1, MergedKeepsBoth
    <2>3. QED
      BY <2>1, <2>2 DEF ListsGrow
  <1>10. QED
    BY <1>1, <1>2, <1>3, <1>4, <1>5, <1>6, <1>7, <1>8, <1>9 DEF Next

-----------------------------------------------------------------------------
(* Spent codes *)

\* Every list that is or may be shown again holds the accounts whose codes
\* were announced, each past the announced counters.
SpentIn(accounts) ==
    \A id \in Id : spent[id] > 0 => /\ id \in Ids(accounts)
                                    /\ CounterOf(accounts, id) >= spent[id]
SpentInv == \A accounts \in {disk, file, data} \ {None} : SpentIn(accounts)

\* What is past every announced counter offers no announced code again.
LEMMA SpentImplies ==
    ASSUME AppInv, SpentInv
    PROVE  SpentStaysSpent
  <1> SUFFICES ASSUME NEW accounts \in {disk, data} \ {None}, NEW id \in Ids(accounts)
               PROVE  CounterOf(accounts, id) >= spent[id]
    BY DEF SpentStaysSpent
  <1>1. accounts \in Seq(Account) /\ spent \in [Id -> 0 .. MaxCounter]
    BY DEF AppInv, TypeOK, Accounts
  <1>2. id \in Id
    <2>1. PICK n \in DOMAIN accounts : id = accounts[n].id
      BY DEF Ids
    <2>2. accounts[n] \in Account
      BY <1>1, <2>1
    <2>3. QED
      BY <2>1, <2>2 DEF Account
  <1>3. CounterOf(accounts, id) \in 0 .. MaxCounter /\ spent[id] \in 0 .. MaxCounter
    BY <1>1, <1>2, CounterOfIsCounter
  <1>4. spent[id] > 0 => CounterOf(accounts, id) >= spent[id]
    BY <1>2 DEF SpentInv, SpentIn
  <1>5. QED
    BY <1>3, <1>4, CounterAssumption

\* Every step keeps all three lists past the announced counters.
LEMMA SpentStep == AppInv /\ SpentInv /\ [Next]_vars => SpentInv'
  <1> SUFFICES ASSUME AppInv, SpentInv, [Next]_vars PROVE SpentInv'
    OBVIOUS
  <1>t. /\ disk \in Accounts /\ file \in Accounts /\ data \in Accounts
        /\ spent \in [Id -> 0 .. MaxCounter]
    BY DEF AppInv, TypeOK
  <1>1. CASE ListsStay \/ ListsReload
    <2>1. spent' = spent /\ {disk', file', data'} \subseteq {disk, file, data, None}
      BY <1>1 DEF ListsStay, ListsReload
    <2>2. QED
      BY <2>1 DEF SpentInv, SpentIn
  <1>2. CASE ListsGrow
    <2>1. PICK accounts \in Seq(Account), wrote \in BOOLEAN :
             /\ data # None /\ KeepsUp(accounts, data)
             /\ Store(accounts, wrote) /\ UNCHANGED spent
      BY <1>2 DEF ListsGrow
    <2>2. {disk', file', data'} \subseteq {disk, accounts}
      BY <2>1 DEF Store
    <2>3. data \in Seq(Account) /\ SpentIn(data)
      BY <1>t, <2>1 DEF SpentInv, Accounts
    <2>4. ASSUME NEW id \in Id, spent[id] > 0
          PROVE  id \in Ids(accounts) /\ CounterOf(accounts, id) >= spent[id]
      <3>1. id \in Ids(data) /\ CounterOf(data, id) >= spent[id]
        BY <2>3, <2>4 DEF SpentIn
      <3>2. id \in Ids(accounts) /\ CounterOf(accounts, id) >= CounterOf(data, id)
        BY <2>1, <3>1 DEF KeepsUp
      <3>3. /\ CounterOf(accounts, id) \in Int /\ CounterOf(data, id) \in Int
            /\ spent[id] \in Int
        BY <1>t, <2>3, <3>1, <3>2, CounterOfIsCounter, CounterAssumption
      <3>4. QED
        BY <3>1, <3>2, <3>3
    <2>5. \A list \in {disk', file', data'} \ {None} :
             \A id \in Id : spent[id] > 0 => /\ id \in Ids(list)
                                             /\ CounterOf(list, id) >= spent[id]
      BY <2>2, <2>4 DEF SpentInv, SpentIn
    <2>6. QED
      BY <2>1, <2>5 DEF SpentInv, SpentIn
  <1>3. ASSUME NEW wrote \in WriteOutcomes, SubmitCreates(wrote) PROVE SpentInv'
    BY <1>3 DEF SubmitCreates, SpentInv, SpentIn
  <1>4. ASSUME NEW id \in Id, AdvanceSaved(id) PROVE SpentInv'
    <2> DEFINE next == Advanced(data, id)
    <2>1. /\ data \in Seq(Account) /\ CanAdvance(data, id) /\ SpentIn(data)
          /\ disk' = next /\ file' = next /\ data' = next
          /\ spent' = [spent EXCEPT ![id] = CounterOf(data', id)]
      BY <1>4, <1>t DEF AdvanceSaved, NextCodeRow, Store, Accounts, SpentInv
    <2>2. /\ next \in Seq(Account)
          /\ Ids(next) = Ids(data) /\ id \in Ids(data)
          /\ \A j \in Ids(data) \ {id} : CounterOf(next, j) = CounterOf(data, j)
      BY <2>1, AdvancedCountsOnce
    <2> HIDE DEF next
    <2>3. CounterOf(next, id) \in Int
      BY <2>2, CounterOfIsCounter, CounterAssumption
    <2>4. ASSUME NEW j \in Id, spent'[j] > 0
          PROVE  j \in Ids(next) /\ CounterOf(next, j) >= spent'[j]
      <3>1. CASE j = id
        BY <1>t, <2>1, <2>2, <2>3, <3>1
      <3>2. CASE j # id
        <4>1. spent'[j] = spent[j]
          BY <1>t, <2>1, <3>2
        <4>2. j \in Ids(data) /\ CounterOf(data, j) >= spent[j]
          BY <2>1, <2>4, <4>1 DEF SpentIn
        <4>3. QED
          BY <2>2, <3>2, <4>1, <4>2
      <3>3. QED
        BY <3>1, <3>2
    <2>5. QED
      BY <2>1, <2>4 DEF SpentInv, SpentIn
  <1>5. QED
    BY <1>1, <1>2, <1>3, <1>4, ListSteps

\* A code announced as spent is never offered again, whatever fails, syncs,
\* crashes or restarts in between (ui.rs:1026-1040).  It holds even where a
\* startup read may fail: the vault created then announces from zero.
THEOREM AppSpentStaysSpent == Spec => []SpentStaysSpent
  <1>1. Init => SpentInv
    BY DEF Init, SpentInv
  <1>2. AppInv /\ SpentInv => SpentStaysSpent
    BY SpentImplies
  <1>3. QED
    BY <1>1, <1>2, SpentStep, AppInvariance, PTL DEF Spec

-----------------------------------------------------------------------------
(* The list on the disk *)

\* What the next save would write has every account the disk has, as far on;
\* and there is a file in memory whenever there is one on the disk.
BackedInv ==
    /\ running /\ life.phase = "Setup" => file = None
    /\ running /\ disk # None => file # None /\ KeepsUp(file, disk)


\* Only a startup enters "Setup".
LEMMA SetupSteps ==
    ASSUME AppInv, [Next]_vars, running, running'
    PROVE  life'.phase = "Setup" => life.phase = "Setup"
  <1>t. life \in Lifecycle /\ life.phase \in {"Setup", "Locked", "Unlocked"}
    BY DEF AppInv, TypeOK, RestingPhase
  <1>1. CASE LockVault
    BY <1>t, <1>1, LifecycleTypes DEF LockVault
  <1>2. CASE SubmitFails
    BY <1>t, <1>2, SubmissionTypes DEF SubmitFails, Done, Operation, Operations
  <1>3. CASE SubmitUnlocks \/ \E wrote \in WriteOutcomes : SubmitCreates(wrote)
    BY <1>t, <1>3, SubmissionTypes
    DEF SubmitUnlocks, SubmitCreates, Done, Operation, Operations
  <1>4. CASE life' = life
    BY <1>4
  <1>5. QED
    BY <1>1, <1>2, <1>3, <1>4
    DEF Next, vars, vault, ui, Start, Quit, Crash, Gone, Tick, NestedTick,
        TickRuns, AutoLock, LockNow, Pass, Digit, Backspace, SubmitRefused,
        JustActivity, AddAccount, ScanBegins, ScanFindsNothing, ScanEnrolls,
        AdvanceSaved, AdvanceRolledBack, AdvanceRefused, ExtendSession,
        OpenSettings, CloseSettings, SyncBegins, SyncEnds, SyncAdopts

\* The controller starts only where it was not running and stops only where
\* it was; a vault is created only where none is known.
LEMMA RunningSteps ==
    ASSUME AppInv, [Next]_vars
    PROVE  /\ ~running /\ running' =>
                /\ disk' = disk
                /\ \E readable \in StartupReads :
                      file' = IF readable THEN disk ELSE None
                /\ life'.phase = IF file' # None THEN "Locked" ELSE "Setup"
           /\ ~running' => disk' = disk
  <1>1. CASE \E readable \in StartupReads : Start(readable)
    BY <1>1, LifecycleTypes DEF Start
  <1>2. CASE Quit \/ Crash
    BY <1>2 DEF Quit, Crash, Gone
  <1>3. CASE UNCHANGED vars
    BY <1>3 DEF vars
  <1>4. CASE \/ Tick \/ NestedTick \/ Pass \/ LockNow
             \/ Digit \/ Backspace \/ SubmitRefused \/ SubmitFails \/ SubmitUnlocks
             \/ \E wrote \in WriteOutcomes : SubmitCreates(wrote)
    <2>1. running /\ running' = running
      BY <1>4
      DEF Tick, NestedTick, TickRuns, Pass, LockNow, Digit, Backspace,
          SubmitRefused, SubmitFails, SubmitUnlocks, SubmitCreates,
          LastDigit, Keypad, On
    <2>2. QED
      BY <2>1
  <1>5. CASE \/ \E i \in {"CopyCode", "AddAccount"} : JustActivity(i)
             \/ \E a \in NewAccounts, wrote \in WriteOutcomes :
                   AddAccount(a, wrote) \/ ScanEnrolls(a, wrote)
             \/ \E id \in Id :
                   AdvanceSaved(id) \/ AdvanceRefused(id) \/ AdvanceRolledBack(id)
             \/ \E r \in RemoteVaults, wrote \in WriteOutcomes : SyncAdopts(r, wrote)
    <2>1. running /\ running' = running
      BY <1>5
      DEF JustActivity, AddAccount, ScanEnrolls, AdvanceSaved, AdvanceRefused,
          AdvanceRolledBack, NextCodeRow, SyncAdopts, On
    <2>2. QED
      BY <2>1
  <1>6. CASE \/ ScanBegins \/ ScanFindsNothing \/ ExtendSession
             \/ OpenSettings \/ CloseSettings \/ SyncBegins \/ SyncEnds
    <2>1. running /\ running' = running
      BY <1>6
      DEF ScanBegins, ScanFindsNothing, ExtendSession, OpenSettings,
          CloseSettings, SyncBegins, SyncEnds, On
    <2>2. QED
      BY <2>1
  <1>7. QED
    BY <1>1, <1>2, <1>3, <1>4, <1>5, <1>6 DEF Next

\* Every step keeps the disk backed by what the next save would write.
LEMMA BackedStep ==
    ASSUME FALSE \notin StartupReads, AppInv, BackedInv, [Next]_vars
    PROVE  /\ BackedInv'
           /\ disk # None => disk' # None /\ KeepsUp(disk', disk)
  <1>t. /\ disk \in Accounts /\ file \in Accounts /\ data \in Accounts
        /\ disk' = disk => (disk # None => disk' # None /\ KeepsUp(disk', disk))
    BY KeepsUpWithItself DEF AppInv, TypeOK, Accounts
  <1>d. data # None => data \in Seq(Account) /\ file = data
    BY <1>t DEF AppInv, FileIsSealedData, Accounts
  <1>u. running /\ data # None => life.phase # "Setup"
    BY DEF AppInv, MaterialIffUnlocked
  <1>1. CASE ~running'
    BY <1>1, <1>t, RunningSteps DEF BackedInv
  <1>2. CASE ~running /\ running'
    <2>1. /\ disk' = disk /\ file' = disk
          /\ life'.phase = "Setup" => file' = None
      BY <1>2, RunningSteps, AppAssumption
    <2>2. QED
      BY <2>1, <1>t DEF BackedInv
  <1>3. CASE running /\ running'
    <2>s. life'.phase = "Setup" => life.phase = "Setup"
      BY <1>3, SetupSteps
    \* Every other step is a store of a list that keeps up with the disk's.
    <2>k. ASSUME NEW next, next \in Seq(Account), NEW wrote \in BOOLEAN,
                 data # None, KeepsUp(next, data),
                 file' = next, disk' = IF wrote THEN next ELSE disk
          PROVE  /\ BackedInv'
                 /\ disk # None => disk' # None /\ KeepsUp(disk', disk)
      <3>1. next # None /\ life.phase # "Setup"
        BY <2>k, <1>3, <1>u, AppAssumption
      <3>2. KeepsUp(next, next)
        BY <2>k, KeepsUpWithItself
      <3>3. disk # None => KeepsUp(next, disk) /\ KeepsUp(disk, disk)
        <4>1. HAVE disk # None
        <4>2. disk \in Seq(Account) /\ KeepsUp(data, disk)
          BY <4>1, <1>t, <1>d, <1>3, <2>k DEF Accounts, BackedInv
        <4>3. QED
          BY <4>2, <1>d, <2>k, KeepsUpComposes, KeepsUpWithItself
      <3>4. QED
        BY <3>1, <3>2, <3>3, <2>k, <2>s DEF BackedInv
    <2>1. CASE ListsStay
      BY <2>1, <2>s, <1>3, <1>t DEF ListsStay, BackedInv
    <2>2. CASE ListsReload
      <3>1. /\ disk' = disk /\ file' = disk
        BY <2>2, <1>3, AppAssumption DEF ListsReload
      <3>2. life'.phase = "Setup" => file' = None
        BY <3>1, <2>s, <1>3 DEF BackedInv
      <3>3. QED
        BY <3>1, <3>2, <1>t DEF BackedInv
    <2>3. CASE ListsGrow
      BY <2>3, <2>k DEF ListsGrow, Store
    <2>4. ASSUME NEW wrote \in WriteOutcomes, SubmitCreates(wrote)
          PROVE  /\ BackedInv'
                 /\ disk # None => disk' # None /\ KeepsUp(disk', disk)
      <3>1. life.phase = "Setup" /\ disk = None
        BY <2>4, <1>3 DEF SubmitCreates, Operation, BackedInv
      <3>2. life'.phase = "Unlocked"
        BY <2>4, <3>1, SubmissionTypes
        DEF SubmitCreates, Done, Operation, Operations, AppInv, TypeOK
      <3>3. file' = <<>> /\ <<>> \in Seq(Account)
        BY <2>4 DEF SubmitCreates
      <3>4. file' # None /\ KeepsUp(file', file')
        BY <3>3, AppAssumption, KeepsUpWithItself
      <3>5. disk' = None \/ disk' = file'
        BY <2>4, <3>1, <3>3 DEF SubmitCreates
      <3>6. QED
        BY <3>1, <3>2, <3>4, <3>5 DEF BackedInv
    <2>5. ASSUME NEW id \in Id, AdvanceSaved(id)
          PROVE  /\ BackedInv'
                 /\ disk # None => disk' # None /\ KeepsUp(disk', disk)
      <3> DEFINE next == Advanced(data, id)
      <3>1. /\ data # None /\ data \in Seq(Account) /\ CanAdvance(data, id)
            /\ file' = next /\ disk' = next
        BY <2>5, <1>d DEF AdvanceSaved, NextCodeRow, Store
      <3>2. next \in Seq(Account) /\ KeepsUp(next, data)
        BY <3>1, AdvancedCountsOnce, AdvancedKeepsUp
      <3> HIDE DEF next
      <3>3. QED
        BY <3>1, <3>2, <2>k
    <2>6. QED
      BY <2>1, <2>2, <2>3, <2>4, <2>5, ListSteps
  <1>4. QED
    BY <1>1, <1>2, <1>3 DEF AppInv, TypeOK

\* Where the vault file is readable at every startup, no step takes an
\* account off the disk or winds its counter back (ui.rs:125-130, 831-843).
THEOREM AppDiskNeverLosesGround ==
    ASSUME FALSE \notin StartupReads
    PROVE  Spec => DiskNeverLosesGround
  <1>1. Init => BackedInv
    BY DEF Init, BackedInv
  <1>2. AppInv /\ BackedInv /\ [Next]_vars => BackedInv'
    BY BackedStep
  <1>3. AppInv /\ BackedInv /\ [Next]_vars =>
          [ disk # None =>
              /\ disk' # None
              /\ \A id \in Ids(disk) :
                    /\ id \in Ids(disk')
                    /\ CounterOf(disk', id) >= CounterOf(disk, id) ]_vars
    BY BackedStep DEF KeepsUp
  <1>4. QED
    BY <1>1, <1>2, <1>3, AppInvariance, PTL DEF Spec, DiskNeverLosesGround
=============================================================================
