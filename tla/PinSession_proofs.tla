-------------------------- MODULE PinSession_proofs --------------------------
(***************************************************************************)
(* The throttle of PinSession, for every table of backoffs, every limit    *)
(* and every number of accounts.  It rests on two facts about the file:    *)
(* the count in it is the number of wrong PINs answered since it was       *)
(* sealed, and the age in it the true time since the last of them, the     *)
(* second under way included once the wall clock has turned.  The first    *)
(* holds while counts reach the disk, the second while, besides, nobody    *)
(* sets the clock.                                                         *)
(***************************************************************************)
EXTENDS PinSession, TLAPS

\* Longest is a number of seconds and the table holds none above it.
LEMMA BackoffFacts ==
    /\ Longest \in Nat
    /\ \A n \in Nat : BackoffSecs(n) \in Nat /\ BackoffSecs(n) <= Longest
<1>1. /\ Len(BackoffTable) \in Nat \ {0}
      /\ DOMAIN BackoffTable = 1 .. Len(BackoffTable)
      /\ \A n \in 1 .. Len(BackoffTable) : BackoffTable[n] \in Nat
      BY PinAssumption
<1>2. Longest \in Nat
      BY <1>1 DEF Longest
<1>3. ASSUME NEW n \in Nat
      PROVE  BackoffSecs(n) \in Nat /\ BackoffSecs(n) <= Longest
      BY <1>1, PinAssumption DEF BackoffSecs, Longest
<1> QED BY <1>2, <1>3

-----------------------------------------------------------------------------
(* What every step preserves *)

Job(phases) == [phase : phases, account : Account]

\* A newly sealed file is a sealed file, and so is one of before the policy.
LEMMA NewFileType ==
    ASSUME NEW a \in Account
    PROVE  NewFile(a) \in SealedFile /\ Legacy(a) \in SealedFile
<1>1. ASSUME NEW w \in BOOLEAN PROVE Sealed(a, w) \in SealedFile
      BY BackoffFacts, PinAssumption DEF Sealed, SealedFile
<1> QED BY <1>1 DEF NewFile, Legacy

\* A file punished for a wrong PIN is removed or a sealed file with one failure
\* more, an instant ago.
LEMMA PunishedType ==
    ASSUME NEW f \in SealedFile
    PROVE  \/ f.failures + 1 >= MaxPinFailures /\ Punished(f) = None
           \/ /\ Punished(f) \in SealedFile
              /\ Punished(f).failures = f.failures + 1
              /\ Punished(f).age = 0
<1>1. f.failures \in Nat /\ 0 \in -MaxSetBack .. Longest
      BY BackoffFacts, PinAssumption DEF SealedFile
<1>2. CASE f.failures + 1 >= MaxPinFailures
      BY <1>2 DEF Punished
<1>3. CASE ~(f.failures + 1 >= MaxPinFailures)
  <2>1. f.failures + 1 \in 0 .. MaxPinFailures - 1
        BY <1>1, <1>3, PinAssumption
  <2>2. Punished(f) = [f EXCEPT !.failures = @ + 1, !.age = 0]
        BY <1>3 DEF Punished
  <2> QED BY <1>1, <2>1, <2>2 DEF SealedFile
<1> QED BY <1>2, <1>3

\* What Supabase makes of the token, and the age, change nothing else.
LEMMA FileUpdates ==
    ASSUME NEW f \in SealedFile,
           NEW t \in {"good", "spent", "revoked"},
           NEW g \in -MaxSetBack .. Longest
    PROVE  /\ [f EXCEPT !.token = t] \in SealedFile
           /\ [f EXCEPT !.token = t].failures = f.failures
           /\ [f EXCEPT !.token = t].age = f.age
           /\ [f EXCEPT !.age = g] \in SealedFile
           /\ [f EXCEPT !.age = g].failures = f.failures
           /\ [f EXCEPT !.age = g].age = g
BY DEF SealedFile

LEMMA InitIInv == Init => IInv
<1> SUFFICES ASSUME Init PROVE IInv OBVIOUS
<1>1. \/ file = None /\ stored = None
      \/ \E a \in Account : file = Legacy(a) /\ stored = a
      BY DEF Init
<1>2. TypeOK
  <2>1. file \in SealedFile \cup {None}
        BY <1>1, NewFileType
  <2>2. 0 \in Nat /\ Longest \in 0 .. Longest /\ FALSE \in BOOLEAN
        BY BackoffFacts
  <2> QED BY <1>1, <2>1, <2>2 DEF Init, TypeOK
<1>3. \A a \in Account : Legacy(a).failures = 0 /\ Legacy(a).age = Longest
      BY DEF Legacy, NewFile, Sealed
<1>4. CountIsTries
      BY <1>1, <1>3, PinAssumption DEF Init, CountIsTries
<1>6. AgeIsQuiet
      BY <1>1, <1>3 DEF Init, AgeIsQuiet
<1>5. UnlockHasFile
      BY DEF Init, Idle, UnlockHasFile
<1> QED BY <1>2, <1>4, <1>5, <1>6 DEF IInv

\* Sealing anew gives the throttle a fresh file and a fresh history.
LEMMA SealsAnew ==
    ASSUME NEW a \in Account, Seals(a)
    PROVE  /\ file' \in SealedFile
           /\ tries' = 0 /\ quiet' = Longest
           /\ CountIsTries' /\ AgeIsQuiet'
<1>1. file' = NewFile(a) /\ tries' = 0 /\ quiet' = Longest
      BY DEF Seals
<1>2. file'.failures = 0 /\ file'.age = Longest
      BY <1>1 DEF NewFile, Sealed
<1>3. CountIsTries'
      BY <1>1, <1>2, PinAssumption DEF CountIsTries
<1>4. AgeIsQuiet'
      BY <1>1, <1>2, BackoffFacts DEF AgeIsQuiet
<1> QED BY <1>1, <1>3, <1>4, NewFileType

LEMMA StepIInv == IInv /\ [Next]_vars => IInv'
<1> SUFFICES ASSUME IInv, [Next]_vars PROVE IInv' OBVIOUS
<1> USE DEF IInv
<1>a. \/ job = Idle
      \/ job \in Job({"signedIn", "opened", "refreshed", "stored"})
      BY DEF TypeOK, Job
<1>b. Idle.phase = "idle"
      BY DEF Idle
\* The steps that touch neither the file nor the history of attempts.
<1>d. ASSUME NEW wrong, Goes(wrong)
      PROVE  slips' \subseteq Happens /\ slips \subseteq slips'
      BY <1>d DEF Goes, TypeOK
<1>c. ASSUME UNCHANGED <<file, tries, quiet, turned>>,
             slips' \subseteq Happens, slips \subseteq slips',
             stored' \in Account \cup {None}, user' \in Account \cup {None},
             job' \in {Idle} \cup
                      Job({"signedIn", "opened", "refreshed", "stored"}),
             UnlockHasFile'
      PROVE  IInv'
      BY <1>c DEF TypeOK, Job, CountIsTries, AgeIsQuiet, Timed
<1>1. ASSUME NEW a \in Account, NEW withPin \in BOOLEAN, SignsIn(a, withPin)
      PROVE  IInv'
  <2>1. job' = Idle \/ job' = [phase |-> "signedIn", account |-> a]
        BY <1>1 DEF SignsIn
  <2>2. UnlockHasFile'
        BY <2>1, <1>b DEF UnlockHasFile
  <2>3. slips' \subseteq Happens /\ slips \subseteq slips'
        BY <1>1, <1>d DEF SignsIn, TypeOK
  <2> QED BY <1>1, <1>c, <2>1, <2>2, <2>3 DEF SignsIn, Job
<1>2. ASSUME NEW a \in Account, Seals(a), job' = Idle,
             UNCHANGED <<stored, user, turned>>,
             slips' \subseteq Happens
      PROVE  IInv'
  <2>1. UnlockHasFile'
        BY <1>2, <1>b DEF UnlockHasFile
  <2> QED BY <1>2, <2>1, SealsAnew, BackoffFacts DEF TypeOK
<1>3. CASE SealsAfterSignIn
  <2>1. job.account \in Account
        BY <1>3, <1>a, <1>b DEF SealsAfterSignIn, Job
  <2>2. CASE Seals(job.account) /\ slips' = {}
        BY <1>2, <1>3, <2>1, <2>2 DEF SealsAfterSignIn
  <2>3. CASE NotSealed /\ Goes("seal")
        BY <1>3, <1>b, <1>c, <1>d, <2>3
           DEF SealsAfterSignIn, NotSealed, UnlockHasFile, TypeOK
  <2> QED BY <1>3, <2>2, <2>3 DEF SealsAfterSignIn
<1>4. CASE Refused
  <2>1. CASE file' = file
        BY <1>4, <1>c, <2>1 DEF Refused, history, UnlockHasFile, TypeOK, Job
  <2>2. CASE file' = None
    <3>1. UnlockHasFile'
          BY <1>4, <1>b DEF Refused, UnlockHasFile
    <3>2. "count" \notin slips => CountIsTries'
          BY <1>4, <2>2, PinAssumption DEF Refused, history, CountIsTries, TypeOK, SealedFile
    <3> QED BY <1>4, <2>2, <3>1, <3>2 DEF Refused, history, AgeIsQuiet, TypeOK
  <2> QED BY <1>4, <2>1, <2>2 DEF Refused
<1>5. CASE WrongPin
  <2>1. file \in SealedFile /\ file.failures \in Nat /\ tries \in Nat
        BY <1>5, PinAssumption DEF WrongPin, TypeOK, SealedFile
  <2>2. file' \in SealedFile \cup {None} /\ tries' \in Nat
        /\ quiet' = 0 /\ turned' = FALSE
        BY <1>5, <2>1, PunishedType DEF WrongPin, TypeOK
  <2>6. slips' \subseteq Happens /\ slips \subseteq slips'
        BY <1>5, <1>d DEF WrongPin, TypeOK
  <2>3. TypeOK'
    <3>1. 0 \in 0 .. Longest /\ FALSE \in BOOLEAN
          BY BackoffFacts
    <3> QED BY <1>5, <2>2, <2>6, <3>1 DEF WrongPin, TypeOK
  <2>4. UnlockHasFile'
        BY <1>5, <1>b DEF WrongPin, UnlockHasFile
  <2>5. ASSUME "count" \notin slips'
        PROVE  CountIsTries' /\ AgeIsQuiet'
    <3>1. file' = Punished(file) /\ tries' = file.failures + 1
          BY <1>5, <2>5, <2>6 DEF WrongPin, CountIsTries, Goes
    <3>2. file.failures + 1 <= MaxPinFailures
          BY <2>1, PinAssumption DEF SealedFile
    <3>3. CASE file' = None
          BY <3>1, <3>2, <3>3 DEF CountIsTries, AgeIsQuiet
    <3>4. CASE file' # None
          BY <2>1, <2>2, <3>1, <3>4, PunishedType DEF CountIsTries, AgeIsQuiet
    <3> QED BY <3>3, <3>4
  <2> QED BY <2>3, <2>4, <2>5 DEF Timed
<1>6. CASE RightPin
  <2>1. file \in SealedFile
        BY <1>6 DEF RightPin, TypeOK
  <2>2. job' \in Job({"opened"}) /\ 0 \in 0 .. tries
        BY <1>6, <2>1 DEF RightPin, Job, SealedFile, TypeOK
  <2>3. UnlockHasFile'
        BY <1>6 DEF RightPin, UnlockHasFile
  <2> QED BY <1>6, <1>c, <2>2, <2>3 DEF RightPin, history, TypeOK, Job
<1>7. CASE RefreshFails
  <2>1. UnlockHasFile'
        BY <1>7, <1>b DEF RefreshFails, UnlockHasFile
  <2> QED BY <1>7, <1>c, <2>1 DEF RefreshFails, history, TypeOK
<1>8. CASE Refreshes
  <2>1. file \in SealedFile /\ job \in Job({"opened"})
        BY <1>8, <1>a, <1>b DEF Refreshes, UnlockHasFile, TypeOK, Job
  <2>2. /\ file' \in SealedFile
        /\ file'.failures = file.failures
        /\ file'.age = file.age
        BY <1>8, <2>1, FileUpdates, BackoffFacts, PinAssumption
           DEF Refreshes, SealedFile
  <2>3. job' = Idle \/ job' \in Job({"refreshed"})
        BY <1>8, <2>1 DEF Refreshes, Job
  <2>4. TypeOK'
        BY <1>8, <1>d, <2>2, <2>3 DEF Refreshes, history, TypeOK, Job
  <2>5. UnlockHasFile'
        BY <2>2, NoneAssumption DEF UnlockHasFile
  <2>8. slips \subseteq slips'
        BY <1>8, <1>d DEF Refreshes
  <2>6. CountIsTries => CountIsTries'
        BY <1>8, <2>1, <2>2, NoneAssumption DEF Refreshes, history, CountIsTries
  <2>7. AgeIsQuiet => AgeIsQuiet'
        BY <1>8, <2>1, <2>2, NoneAssumption DEF Refreshes, history, AgeIsQuiet
  <2> QED BY <2>4, <2>5, <2>6, <2>7, <2>8 DEF Timed
<1>9. CASE StoresToken
  <2>1. job' \in Job({"stored"}) /\ stored' \in Account \cup {None}
        BY <1>9, <1>a, <1>b DEF StoresToken, Job, TypeOK
  <2>2. UnlockHasFile'
        BY <1>9 DEF StoresToken, UnlockHasFile
  <2> QED BY <1>9, <1>c, <2>1, <2>2 DEF StoresToken, history, TypeOK, Job
<1>10. CASE Reseals
  <2>1. job.account \in Account
        BY <1>10, <1>a, <1>b DEF Reseals, Job
  <2>2. CASE Seals(job.account) /\ slips' = slips \ {"count", "clock"}
        BY <1>2, <1>10, <2>1, <2>2 DEF Reseals, TypeOK
  <2>3. CASE NotSealed /\ (Goes("weak") \/ Goes("seal"))
        BY <1>10, <1>b, <1>c, <1>d, <2>3
           DEF Reseals, NotSealed, UnlockHasFile, TypeOK
  <2> QED BY <1>10, <2>2, <2>3 DEF Reseals
<1>11. CASE ClockTurns
  <2>1. \/ file' = file /\ (file # None => ~(file.age < Longest))
        \/ /\ file \in SealedFile /\ file.age < Longest
           /\ file' = [file EXCEPT !.age = @ + 1]
        BY <1>11 DEF ClockTurns, TypeOK
  <2>2. CASE file' = file /\ (file # None => ~(file.age < Longest))
    <3>1. AgeIsQuiet => AgeIsQuiet'
          BY <1>11, <2>2, NoneAssumption, BackoffFacts
             DEF ClockTurns, AgeIsQuiet, TypeOK, SealedFile
    <3>2. TypeOK'
          BY <1>11, <2>2 DEF ClockTurns, TypeOK
    <3> QED BY <1>11, <2>2, <3>1, <3>2
            DEF ClockTurns, UnlockHasFile, CountIsTries, Timed
  <2>3. CASE /\ file \in SealedFile /\ file.age < Longest
             /\ file' = [file EXCEPT !.age = @ + 1]
    <3>1. file.age + 1 \in -MaxSetBack .. Longest
          BY <2>3, BackoffFacts, PinAssumption DEF SealedFile
    <3>2. /\ file' \in SealedFile
          /\ file'.failures = file.failures
          /\ file'.age = file.age + 1
          BY <2>3, <3>1, FileUpdates
    <3>3. TypeOK'
          BY <1>11, <3>2 DEF ClockTurns, TypeOK
    <3>4. AgeIsQuiet => AgeIsQuiet'
          BY <1>11, <2>3, <3>2, NoneAssumption, BackoffFacts
             DEF ClockTurns, AgeIsQuiet, TypeOK, SealedFile
    <3> QED BY <1>11, <2>3, <3>2, <3>3, <3>4, NoneAssumption
            DEF ClockTurns, UnlockHasFile, CountIsTries, Timed
  <2> QED BY <2>1, <2>2, <2>3
<1>16. CASE Second
  <2>1. AgeIsQuiet => AgeIsQuiet'
        BY <1>16, BackoffFacts DEF Second, AgeIsQuiet, TypeOK
  <2>2. TypeOK'
    <3>1. quiet' \in 0 .. Longest
          BY <1>16, BackoffFacts DEF Second, TypeOK
    <3>2. turned' \in BOOLEAN
          BY <1>16 DEF Second
    <3> QED BY <1>16, <3>1, <3>2 DEF Second, TypeOK
  <2> QED BY <1>16, <2>1, <2>2 DEF Second, UnlockHasFile, CountIsTries, Timed
<1>12. CASE ClockSet
  <2>1. /\ file \in SealedFile
        /\ slips' \subseteq Happens /\ slips \subseteq slips' /\ "clock" \in slips'
        BY <1>12, <1>d DEF ClockSet, TypeOK, Goes
  <2>2. /\ file' \in SealedFile
        /\ file'.failures = file.failures
    <3>1. PICK age \in -MaxSetBack .. Longest : file' = [file EXCEPT !.age = age]
          BY <1>12 DEF ClockSet
    <3> QED BY <2>1, <3>1, FileUpdates
  <2>3. TypeOK'
        BY <1>12, <2>1, <2>2 DEF ClockSet, history, TypeOK
  <2> QED BY <1>12, <2>1, <2>2, <2>3, NoneAssumption
          DEF ClockSet, history, UnlockHasFile, CountIsTries, Timed
<1>13. CASE Revoked
  <2>1. file \in SealedFile
        BY <1>13 DEF Revoked, TypeOK
  <2>2. /\ file' \in SealedFile
        /\ file'.failures = file.failures
        /\ file'.age = file.age
        BY <1>13, <2>1, FileUpdates, BackoffFacts, PinAssumption
           DEF Revoked, SealedFile
  <2>3. TypeOK'
        BY <1>13, <2>2 DEF Revoked, history, TypeOK
  <2> QED BY <1>13, <2>1, <2>2, <2>3, NoneAssumption
          DEF Revoked, history, UnlockHasFile, CountIsTries, AgeIsQuiet, Timed
<1>14. CASE Crash
  <2>1. UnlockHasFile'
        BY <1>14, <1>b DEF Crash, UnlockHasFile
  <2> QED BY <1>14, <1>c, <1>d, <2>1 DEF Crash, history, TypeOK
<1>15. CASE UNCHANGED vars
       BY <1>15, <1>c DEF vars, UnlockHasFile, TypeOK, Job
<1> QED BY <1>1, <1>3, <1>4, <1>5, <1>6, <1>7, <1>8, <1>9, <1>10, <1>11,
           <1>12, <1>13, <1>14, <1>15, <1>16 DEF Next

-----------------------------------------------------------------------------
(* The theorems *)

\* The invariant holds for every table, limit and set of accounts, whatever
\* goes wrong (pin_session.rs:178-190, ui.rs:594-703).
THEOREM Invariance == Spec => []IInv
<1> QED BY InitIInv, StepIInv, PTL DEF Spec

\* The state has its shape in every run: in particular a count that reaches the
\* limit is never on disk, so the guard is never asked to wipe (ui.rs:649-651).
THEOREM TypeCorrect == Spec => []TypeOK
<1>1. IInv => TypeOK
      BY DEF IInv
<1> QED BY <1>1, Invariance, PTL

\* A sealed file answers at most MaxPinFailures wrong PINs, across crashes,
\* restarts and failed refreshes, while counts reach the disk (ui.rs:646-653).
THEOREM WrongPins == Spec => []WrongPinsAreBounded
<1>1. IInv => WrongPinsAreBounded
      BY PinAssumption
         DEF IInv, CountIsTries, WrongPinsAreBounded, TypeOK, SealedFile
<1> QED BY <1>1, Invariance, PTL

\* The elapsed time the guard sees is the true one or less than a second more,
\* and the backoff it asks for the one earned, while counts reach the disk and
\* nobody sets the clock.
LEMMA GuardSeesTheTruth ==
    ASSUME Timed, IInv, file # None
    PROVE  /\ file \in SealedFile /\ file.failures = tries
           /\ quiet <= Elapsed(file) /\ Elapsed(file) <= quiet + 1
           /\ quiet \in Nat /\ tries \in Nat
           /\ Gate(file) = "allow" => quiet + 1 >= BackoffSecs(tries)
           /\ Gate(file) = "backoff" => quiet < BackoffSecs(tries)
<1>1. /\ file \in SealedFile /\ file.failures = tries
      /\ file.age = IF turned /\ quiet < Longest THEN quiet + 1 ELSE quiet
      BY DEF IInv, TypeOK, CountIsTries, AgeIsQuiet, Timed
<1>2. quiet \in Nat /\ tries \in Nat
      BY BackoffFacts DEF IInv, TypeOK
<1>3. /\ Elapsed(file) \in Nat
      /\ quiet <= Elapsed(file) /\ Elapsed(file) <= quiet + 1
      BY <1>1, <1>2 DEF Elapsed
<1>4. BackoffSecs(tries) \in Nat
      BY <1>2, BackoffFacts
<1>5. /\ Gate(file) = "allow" => ~(Elapsed(file) < BackoffSecs(tries))
      /\ Gate(file) = "backoff" => Elapsed(file) < BackoffSecs(tries)
      BY <1>1 DEF Gate
<1> QED BY <1>1, <1>2, <1>3, <1>4, <1>5

\* No PIN is judged before its backoff has really passed, but for less than a
\* second, for every table (pin_session.rs:281-292, ui.rs:627-628).
THEOREM Throttled == Spec => BackoffIsKept
<1> DEFINE Kept == Timed /\ (tries' > tries \/ (job = Idle /\ job'.phase = "opened")) =>
                       quiet + 1 >= BackoffSecs(tries)
<1>1. ASSUME IInv, Next PROVE Kept
  <2>1. CASE WrongPin \/ RightPin
        BY <1>1, <2>1, GuardSeesTheTruth DEF WrongPin, RightPin
  <2>2. CASE ~(WrongPin \/ RightPin)
    <3>1. tries \in Nat /\ Idle.phase = "idle"
          BY <1>1 DEF IInv, TypeOK, Idle
    <3>2. ~(tries' > tries)
          BY <1>1, <2>2, <3>1
             DEF Next, SignsIn, SealsAfterSignIn, Seals, Refused, RefreshFails,
                 Refreshes, StoresToken, Reseals, NotSealed, ClockTurns, Second, ClockSet,
                 Revoked, Crash, history
    <3>3. ~(job = Idle /\ job'.phase = "opened")
          BY <1>1, <2>2, <3>1
             DEF Next, SignsIn, SealsAfterSignIn, Refused, RefreshFails,
                 Refreshes, StoresToken, Reseals, ClockTurns, Second, ClockSet, Revoked,
                 Crash, history
    <3> QED BY <3>2, <3>3
  <2> QED BY <2>1, <2>2
<1>2. IInv /\ [Next]_vars => [Kept]_vars
      BY <1>1
<1> QED BY <1>2, Invariance, PTL DEF Spec, BackoffIsKept

\* Whoever has waited out the longest backoff is let in, for every table
\* (pin_session.rs:267-277).
THEOREM NeverWedged == Spec => []BackoffEnds
<1>1. IInv => BackoffEnds
      BY GuardSeesTheTruth, BackoffFacts DEF BackoffEnds
<1> QED BY <1>1, Invariance, PTL

-----------------------------------------------------------------------------
(* What becomes of the tokens *)

\* A spent token is in the file only between a refresh and the sealing of its
\* successor, or after something went wrong in between.
Lost == {"answer", "crash", "seal", "weak"}
SpentIsTransient ==
    file # None /\ file.token = "spent" =>
        job.phase \in {"refreshed", "stored"} \/ slips \cap Lost # {}

\* The file, the job and the keystore all belong to whoever signed in last,
\* until a sign-in goes unsealed; a sign-in under way has yet to seal its file.
Swapped == {"unsealed", "crash", "seal"}
OneAccount ==
    /\ job.phase = "signedIn" => stored = user /\ job.account = user
    /\ slips \cap Swapped = {} =>
          /\ stored = user
          /\ job # Idle => job.account = user
          /\ file # None /\ job.phase # "signedIn" => file.account = user

LEMMA SealedFields ==
    ASSUME NEW a, Seals(a)
    PROVE  file'.account = a /\ file'.token = "good"
BY DEF Seals, NewFile, Sealed

\* Time, failures and Supabase leave a file its account, and only a refresh
\* spends its token.
LEMMA FileFields ==
    ASSUME NEW f \in SealedFile,
           NEW t \in {"good", "spent", "revoked"},
           NEW g
    PROVE  /\ [f EXCEPT !.token = t].account = f.account
           /\ [f EXCEPT !.token = t].token = t
           /\ [f EXCEPT !.age = g].account = f.account
           /\ [f EXCEPT !.age = g].token = f.token
           /\ Punished(f) # None => /\ Punished(f).account = f.account
                                    /\ Punished(f).token = f.token
BY DEF SealedFile, Punished

\* In each step the file is sealed anew, goes, or keeps its account; its token
\* is spent by a refresh only, and what went wrong stays on record.
LEMMA FileSteps ==
    ASSUME IInv, Next
    PROVE  \/ SealsAfterSignIn /\ Seals(job.account) /\ slips' = {}
           \/ Reseals /\ Seals(job.account) /\ slips' = slips \ {"count", "clock"}
           \/ /\ slips \subseteq slips'
              /\ \/ file' = None
                 \/ /\ file # None /\ file'.account = file.account
                    /\ file'.token = "spent" => file.token = "spent" \/ Refreshes
<1> USE DEF IInv
<1>a. file # None => file \in SealedFile /\ file.token \in {"good", "spent", "revoked"}
      BY DEF TypeOK, SealedFile
<1>b. \A wrong : Goes(wrong) => slips \subseteq slips'
      BY DEF Goes
<1>1. CASE (\E a \in Account, withPin \in BOOLEAN : SignsIn(a, withPin))
           \/ RightPin \/ RefreshFails \/ StoresToken \/ Second \/ Crash
      BY <1>1, <1>b DEF SignsIn, RightPin, RefreshFails, StoresToken, Second, Crash, history
<1>2. CASE SealsAfterSignIn
      BY <1>2, <1>b DEF SealsAfterSignIn, NotSealed
<1>3. CASE Reseals
      BY <1>3, <1>b DEF Reseals, NotSealed
<1>4. CASE Refused
      BY <1>4 DEF Refused
<1>5. CASE WrongPin
      BY <1>5, <1>a, <1>b, FileFields DEF WrongPin
<1>6. CASE Refreshes
  <2>1. file # None
        BY <1>6 DEF Refreshes, UnlockHasFile
  <2>2. file'.account = file.account
        BY <1>6, <1>a, <2>1, FileFields DEF Refreshes
  <2> QED BY <1>6, <1>b, <2>1, <2>2 DEF Refreshes
<1>7. CASE ClockTurns
  <2>1. CASE file' = file
        BY <1>7, <2>1 DEF ClockTurns
  <2>2. CASE file' # file
        BY <1>7, <1>a, <2>2, FileFields DEF ClockTurns
  <2> QED BY <2>1, <2>2
<1>8. CASE ClockSet
      BY <1>8, <1>a, <1>b, FileFields DEF ClockSet
<1>9. CASE Revoked
      BY <1>9, <1>a, FileFields DEF Revoked
<1> QED BY <1>1, <1>2, <1>3, <1>4, <1>5, <1>6, <1>7, <1>8, <1>9 DEF Next

\* A job in progress goes on, ends, or is cut off on record.
LEMMA JobSteps ==
    ASSUME IInv, Next, job.phase \in {"refreshed", "stored"}
    PROVE  \/ UNCHANGED job
           \/ StoresToken /\ job'.phase = "stored"
           \/ Reseals
           \/ "crash" \in slips'
<1>1. job # Idle /\ job \in Job({"refreshed", "stored"})
      BY DEF Idle, IInv, TypeOK, Job
<1>2. CASE StoresToken
      BY <1>1, <1>2 DEF StoresToken, Job
<1>3. CASE ~StoresToken
      BY <1>1, <1>3 DEF Next, SignsIn, SealsAfterSignIn, Refused, WrongPin, RightPin,
            RefreshFails, Refreshes, ClockTurns, Second, ClockSet, Revoked, Crash, Goes
<1> QED BY <1>2, <1>3

LEMMA StepSpent == IInv /\ SpentIsTransient /\ [Next]_vars => SpentIsTransient'
<1> SUFFICES ASSUME IInv, SpentIsTransient, [Next]_vars,
                    file' # None, file'.token = "spent"
             PROVE  job'.phase \in {"refreshed", "stored"} \/ slips' \cap Lost # {}
      BY DEF SpentIsTransient
<1>1. CASE Refreshes
  <2>1. job.phase = "opened" /\ job \in Job({"opened"})
        BY <1>1 DEF Refreshes, IInv, TypeOK, Job, Idle
  <2>2. CASE job' = [job EXCEPT !.phase = "refreshed"]
        BY <2>1, <2>2 DEF Job
  <2>3. CASE Goes("answer")
        BY <2>3 DEF Goes, Lost
  <2> QED BY <1>1, <2>2, <2>3 DEF Refreshes
<1>2. CASE Reseals
  <2>1. ~Seals(job.account)
        BY SealedFields
  <2> QED BY <1>2, <2>1 DEF Reseals, Goes, Lost
<1>3. CASE Next /\ ~Refreshes /\ ~Reseals
  <2>1. slips \subseteq slips' /\ file # None /\ file.token = "spent"
        BY <1>3, FileSteps, SealedFields
  <2>2. CASE slips \cap Lost # {}
        BY <2>1, <2>2
  <2>3. CASE job.phase \in {"refreshed", "stored"}
        BY <1>3, <2>3, JobSteps DEF Lost
  <2> QED BY <2>1, <2>2, <2>3 DEF SpentIsTransient
<1>4. CASE UNCHANGED vars
      BY <1>4 DEF vars, SpentIsTransient
<1> QED BY <1>1, <1>2, <1>3, <1>4

\* Only signing in, sealing and a crash begin, or end on record, a sign-in.
LEMMA OtherSteps ==
    ASSUME IInv, Next, ~SealsAfterSignIn, ~Crash,
           ~\E a \in Account, withPin \in BOOLEAN : SignsIn(a, withPin)
    PROVE  /\ user' = user
           /\ stored' = stored \/ (StoresToken /\ stored' = job.account)
           /\ job'.phase = "signedIn" \/ job.phase = "signedIn" => job' = job
           /\ \/ job' = job \/ job' = Idle
              \/ RightPin
              \/ job # Idle /\ job' # Idle /\ job'.account = job.account
<1>1. Idle.phase = "idle" /\ (job # Idle => job \in
                              Job({"signedIn", "opened", "refreshed", "stored"}))
      BY DEF Idle, IInv, TypeOK, Job
<1>2. user' = user /\ (stored' = stored \/ (StoresToken /\ stored' = job.account))
      BY DEF Next, Refused, WrongPin, RightPin, RefreshFails, Refreshes,
             StoresToken, Reseals, ClockTurns, Second, ClockSet, Revoked, history
<1>3. CASE Refreshes \/ StoresToken
  <2>1. /\ job # Idle /\ job.phase # "signedIn"
        /\ job' = Idle \/ \E p \in {"refreshed", "stored"} : job' = [job EXCEPT !.phase = p]
        BY <1>1, <1>3 DEF Refreshes, StoresToken
  <2>2. \A p \in {"refreshed", "stored"} :
           [job EXCEPT !.phase = p].phase = p /\ [job EXCEPT !.phase = p].account = job.account
        BY <1>1, <2>1 DEF Job
  <2>3. job' = Idle \/ (job' # Idle /\ job'.phase # "signedIn" /\ job'.account = job.account)
        BY <1>1, <2>1, <2>2
  <2> QED BY <1>1, <1>2, <2>1, <2>3
<1>4. CASE RightPin
      BY <1>1, <1>2, <1>4 DEF RightPin
<1>5. CASE ~(Refreshes \/ StoresToken \/ RightPin)
      BY <1>1, <1>2, <1>5
         DEF Next, Refused, WrongPin, RefreshFails, Reseals, ClockTurns, Second, ClockSet, Revoked
<1> QED BY <1>3, <1>4, <1>5

LEMMA StepAccount == IInv /\ OneAccount /\ [Next]_vars => OneAccount'
<1> SUFFICES ASSUME IInv, OneAccount, [Next]_vars PROVE OneAccount' OBVIOUS
<1>a. ASSUME slips' \cap Swapped = {} PROVE \A wrong \in Swapped : ~Goes(wrong)
      BY <1>a DEF Goes
<1>b. Idle.phase = "idle"
      BY DEF Idle
<1>1. ASSUME NEW a \in Account, NEW withPin \in BOOLEAN, SignsIn(a, withPin)
      PROVE  OneAccount'
  <2>1. stored' = a /\ user' = a
        BY <1>1 DEF SignsIn
  <2>2. CASE withPin
        BY <1>1, <2>1, <2>2 DEF SignsIn, OneAccount
  <2>3. CASE ~withPin
        BY <1>1, <1>a, <1>b, <2>1, <2>3 DEF SignsIn, Swapped, OneAccount
  <2> QED BY <2>2, <2>3
<1>2. CASE SealsAfterSignIn
  <2>1. /\ stored = user /\ job.account = user
        /\ stored' = stored /\ user' = user /\ job' = Idle
        BY <1>2 DEF SealsAfterSignIn, OneAccount
  <2>2. ASSUME slips' \cap Swapped = {} PROVE file'.account = user'
        BY <1>2, <1>a, <2>1, <2>2, SealedFields DEF SealsAfterSignIn, Swapped
  <2> QED BY <1>b, <2>1, <2>2 DEF OneAccount
<1>3. CASE Crash
      BY <1>3, <1>b DEF Crash, Goes, Swapped, OneAccount
<1>4. CASE /\ Next /\ ~SealsAfterSignIn /\ ~Crash
           /\ ~\E a \in Account, withPin \in BOOLEAN : SignsIn(a, withPin)
  <2>1. job'.phase = "signedIn" => stored' = user' /\ job'.account = user'
    <3> SUFFICES ASSUME job'.phase = "signedIn"
                 PROVE  stored' = user' /\ job'.account = user'
        OBVIOUS
    <3>1. job' = job /\ user' = user /\ ~StoresToken
          BY <1>4, OtherSteps DEF StoresToken
    <3> QED BY <1>4, <3>1, OtherSteps DEF OneAccount
  <2>2. ASSUME slips' \cap Swapped = {}
        PROVE  /\ stored' = user'
               /\ job' # Idle => job'.account = user'
               /\ file' # None /\ job'.phase # "signedIn" => file'.account = user'
    <3>1. slips \cap Swapped = {}
          BY <1>4, <2>2, FileSteps DEF Swapped
    <3>2. /\ stored = user /\ user' = user
          /\ job # Idle => job.account = user
          /\ file # None /\ job.phase # "signedIn" => file.account = user
          BY <1>4, <3>1, OtherSteps DEF OneAccount
    <3>3. stored' = user'
          BY <1>4, <1>b, <3>2, OtherSteps DEF StoresToken
    <3>4. job' # Idle => job'.account = user'
      <4>1. CASE RightPin
            BY <1>b, <3>2, <4>1 DEF RightPin
      <4>2. CASE ~RightPin
            BY <1>4, <3>2, <4>2, OtherSteps
      <4> QED BY <4>1, <4>2
    <3>5. ASSUME file' # None, job'.phase # "signedIn" PROVE file'.account = user'
      <4>1. CASE Reseals /\ Seals(job.account)
            BY <1>b, <3>2, <4>1, SealedFields DEF Reseals
      <4>2. CASE ~(Reseals /\ Seals(job.account))
        <5>1. file # None /\ file'.account = file.account
              BY <1>4, <3>5, <4>2, FileSteps
        <5>2. job.phase # "signedIn"
              BY <1>4, <3>5, OtherSteps
        <5> QED BY <3>2, <5>1, <5>2
      <4> QED BY <4>1, <4>2
    <3> QED BY <3>3, <3>4, <3>5
  <2> QED BY <2>1, <2>2 DEF OneAccount
<1>5. CASE UNCHANGED vars
      BY <1>5 DEF vars, OneAccount
<1> QED BY <1>1, <1>2, <1>3, <1>4, <1>5

\* Nobody who knows the PIN has to sign in again, for any number of accounts
\* and any mix of failures, short of the four named (ui.rs:667-697).
THEOREM TokenKeepsWorking == Spec => []SealedTokenWorks
<1>1. Init => SpentIsTransient
      BY DEF Init, Legacy, Sealed, SpentIsTransient
<1>2. SpentIsTransient => SealedTokenWorks
      BY DEF SpentIsTransient, SealedTokenWorks, Lost, Idle
<1> QED BY <1>1, <1>2, StepSpent, Invariance, PTL DEF Spec

\* The keystore holds a token of whoever signed in last, unless signing in or
\* unlocking went unsealed or was cut off (ui.rs:540-579, 684-697).
THEOREM TokenIsNotSwapped == Spec => []TokenIsOfLastSignIn
<1>1. Init => OneAccount
      BY DEF Init, Idle, Legacy, Sealed, OneAccount
<1>2. OneAccount => TokenIsOfLastSignIn
      BY DEF OneAccount, TokenIsOfLastSignIn, Swapped
<1> QED BY <1>1, <1>2, StepAccount, Invariance, PTL DEF Spec
=============================================================================
