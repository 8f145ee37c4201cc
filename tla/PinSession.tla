------------------------------ MODULE PinSession ------------------------------
(***************************************************************************)
(* src/pin_session.rs with its callers in src/ui.rs: the session sealed    *)
(* under a PIN.  A sign-in stores a device token in the OS keystore and    *)
(* seals the Supabase refresh token; a PIN unlock opens the sealed file,   *)
(* trades the refresh token for the next one (which spends it), stores a   *)
(* device token and seals again.  The file also carries the count and the  *)
(* time of failed attempts, so the throttle outlives the process.          *)
(*                                                                         *)
(* Happens names what a run lets go wrong:                                 *)
(*   "weak"     a file from before the weak-PIN policy exists at start     *)
(*   "unsealed" signing in without choosing a PIN                          *)
(*   "crash"    the process dies between two steps                         *)
(*   "offline"  Supabase does not get the refresh                          *)
(*   "answer"   Supabase gets it, but its answer is lost                   *)
(*   "revoke"   Supabase revokes the sealed token                          *)
(*   "seal"     saving a newly sealed file fails                           *)
(*   "count"    saving a failure count, or removing the file, fails        *)
(*   "clock"    the wall clock is set                                      *)
(***************************************************************************)
EXTENDS Integers, Sequences

CONSTANTS Account,
          None,            \* no file, no account
          Happens,
          MaxPinFailures,  \* MAX_PIN_FAILURES: 10 in the code
          BackoffTable,    \* backoff_secs: <<0,0,0,5,30,60,300>> in the code
          MaxSetBack,      \* bound: seconds the clock can be set back by
          MaxTries         \* bound: wrong PINs tried on one file
ASSUME PinAssumption == /\ MaxPinFailures \in Nat \ {0}
                        /\ BackoffTable \in Seq(Nat)
                        /\ BackoffTable # <<>>
                        /\ \A n \in DOMAIN BackoffTable :
                              BackoffTable[n] <= BackoffTable[Len(BackoffTable)]
                        /\ MaxSetBack \in Nat
                        /\ MaxTries \in Nat

VARIABLES file,      \* session.sealed, with what Supabase makes of its token
          job,       \* the sign-in or unlock occupying the UI thread
          stored,    \* whose device token the keystore holds
          user,      \* who last signed in
          tries,     \* wrong PINs answered since the file was sealed
          quiet,     \* true seconds since the last wrong PIN, whole ones
          turned,    \* the wall clock shows a second that quiet has yet to count
          slips      \* what went wrong since the file was sealed
vars == <<file, job, stored, user, tries, quiet, turned, slips>>
history == <<user, tries, quiet, turned>>

Idle == [phase |-> "idle"]
BackoffSecs(n) ==
    BackoffTable[IF n < Len(BackoffTable) THEN n + 1 ELSE Len(BackoffTable)]
Longest == BackoffTable[Len(BackoffTable)]   \* where both clocks stop counting

\* age: wall-clock seconds since the last recorded failure, negative when the
\* clock was set back past it.  A file without failures is as old as can be.
SealedFile == [account : Account, token : {"good", "spent", "revoked"},
               weak : BOOLEAN, failures : 0 .. MaxPinFailures - 1,
               age : -MaxSetBack .. Longest]
ASSUME NoneAssumption == None \notin SealedFile

Sealed(a, weak) == [account |-> a, token |-> "good", weak |-> weak,
                    failures |-> 0, age |-> Longest]
NewFile(a) == Sealed(a, FALSE)
Legacy(a) == Sealed(a, TRUE)

Init == /\ \/ /\ file = None
              /\ stored = None
           \/ \E a \in Account : /\ "weak" \in Happens
                                 /\ file = Legacy(a)
                                 /\ stored = a
        /\ user = stored
        /\ job = Idle
        /\ tries = 0
        /\ quiet = Longest
        /\ turned = FALSE
        /\ slips = {}

Goes(wrong) == wrong \in Happens /\ slips' = slips \cup {wrong}

-----------------------------------------------------------------------------
(* PinGuard *)

Elapsed(f) == IF f.age < 0 THEN 0 ELSE f.age   \* saturating_sub
Gate_Inclusive(f) == IF f.failures >= MaxPinFailures THEN "wipe"
                     ELSE IF /\ BackoffSecs(f.failures) > 0
                             /\ Elapsed(f) <= BackoffSecs(f.failures)
                     THEN "backoff" ELSE "allow"
Gate(f) == IF f.failures >= MaxPinFailures THEN "wipe"
           ELSE IF Elapsed(f) < BackoffSecs(f.failures) THEN "backoff"
           ELSE "allow"

\* One more failure recorded; the last one allowed costs the file.
Punished_NotCounted(f) == [f EXCEPT !.age = 0]
Punished_NotTimed(f) == IF f.failures + 1 >= MaxPinFailures THEN None
                        ELSE [f EXCEPT !.failures = @ + 1]
Punished(f) == IF f.failures + 1 >= MaxPinFailures THEN None
               ELSE [f EXCEPT !.failures = @ + 1, !.age = 0]

-----------------------------------------------------------------------------
(* Signing in *)

\* Sign-in, enrollment and the keystore all worked; a PIN given here is well
\* formed and not weak, or nothing would have been sent.
SignsIn(a, withPin) ==
    /\ job = Idle
    /\ IF withPin THEN UNCHANGED slips ELSE Goes("unsealed")
    /\ stored' = a
    /\ user' = a
    /\ job' = IF withPin THEN [phase |-> "signedIn", account |-> a] ELSE Idle
    /\ UNCHANGED <<file, tries, quiet, turned>>

Seals(a) == /\ file' = NewFile(a)
            /\ tries' = 0
            /\ quiet' = Longest
NotSealed == UNCHANGED <<file, tries, quiet>>
SealsAfterSignIn_KeepsOld ==
    /\ job.phase = "signedIn"
    /\ IF file = None THEN Seals(job.account) ELSE NotSealed
    /\ slips' = {}
    /\ job' = Idle
    /\ UNCHANGED <<stored, user, turned>>
SealsAfterSignIn ==
    /\ job.phase = "signedIn"
    /\ \/ Seals(job.account) /\ slips' = {}
       \/ NotSealed /\ Goes("seal")
    /\ job' = Idle
    /\ UNCHANGED <<stored, user, turned>>

-----------------------------------------------------------------------------
(* Unlocking with the PIN *)

Refused == /\ job = Idle
           /\ file # None
           /\ Gate(file) # "allow"
           /\ file' = IF Gate(file) = "wipe" THEN None ELSE file
           /\ UNCHANGED <<job, stored, history, slips>>

\* A malformed PIN is answered like a wrong one.
WrongPin == /\ job = Idle
            /\ file # None
            /\ Gate(file) = "allow"
            /\ tries < MaxTries
            /\ \/ file' = Punished(file) /\ UNCHANGED slips
               \/ file' = file /\ Goes("count")
            /\ tries' = tries + 1
            /\ quiet' = 0
            /\ turned' = FALSE
            /\ UNCHANGED <<job, stored, user>>

RightPin == /\ job = Idle
            /\ file # None
            /\ Gate(file) = "allow"
            /\ job' = [phase |-> "opened", account |-> file.account]
            /\ UNCHANGED <<file, stored, history, slips>>

RefreshFails == /\ job.phase = "opened"
                /\ file.token # "good" \/ "offline" \in Happens
                /\ job' = Idle
                /\ UNCHANGED <<file, stored, history, slips>>

\* Supabase rotates: the token traded in is spent, whoever hears of the next.
Refreshes == /\ job.phase = "opened"
             /\ file.token = "good"
             /\ file' = [file EXCEPT !.token = "spent"]
             /\ \/ job' = [job EXCEPT !.phase = "refreshed"] /\ UNCHANGED slips
                \/ job' = Idle /\ Goes("answer")
             /\ UNCHANGED <<stored, history>>

\* A new device token, or the sealed one when enrolling fails: of the same
\* account either way.  That the keystore refuses it goes unnoticed.
StoresToken == /\ job.phase = "refreshed"
               /\ stored' \in {job.account, stored}
               /\ job' = [job EXCEPT !.phase = "stored"]
               /\ UNCHANGED <<file, history, slips>>

\* Sealing refuses a weak PIN even when that PIN has just opened the file; it
\* and a failed save go unnoticed.
Reseals_StaleToken ==
    /\ job.phase = "stored"
    /\ file' = [NewFile(job.account) EXCEPT !.token = file.token]
    /\ tries' = 0 /\ quiet' = Longest
    /\ job' = Idle
    /\ UNCHANGED <<stored, user, turned, slips>>
Reseals ==
    /\ job.phase = "stored"
    /\ \/ ~file.weak /\ Seals(job.account) /\ slips' = slips \ {"count", "clock"}
       \/ file.weak /\ NotSealed /\ Goes("weak")
       \/ ~file.weak /\ NotSealed /\ Goes("seal")
    /\ job' = Idle
    /\ UNCHANGED <<stored, user, turned>>

-----------------------------------------------------------------------------
(* Surroundings *)

\* now_unix counts whole seconds of the wall clock, which turn at some moment
\* within the second that follows a wrong PIN, not at its end.
ClockTurns == /\ ~turned
              /\ turned' = TRUE
              /\ file' = IF file # None /\ file.age < Longest
                         THEN [file EXCEPT !.age = @ + 1] ELSE file
              /\ UNCHANGED <<job, stored, user, tries, quiet, slips>>
Second == /\ turned
          /\ turned' = FALSE
          /\ quiet' = IF quiet < Longest THEN quiet + 1 ELSE quiet
          /\ UNCHANGED <<file, job, stored, user, tries, slips>>

\* Nobody sets the clock back past the epoch, which is the time in a file
\* without failures.
ClockSet == /\ Goes("clock")
            /\ file # None
            /\ file.failures > 0
            /\ \E age \in -MaxSetBack .. Longest :
                  file' = [file EXCEPT !.age = age]
            /\ UNCHANGED <<job, stored, history>>

Revoked == /\ "revoke" \in Happens
           /\ file # None
           /\ file.token = "good"
           /\ file' = [file EXCEPT !.token = "revoked"]
           /\ UNCHANGED <<job, stored, history, slips>>

Crash == /\ Goes("crash")
         /\ job # Idle
         /\ job' = Idle
         /\ UNCHANGED <<file, stored, history>>

Next == \/ \E a \in Account, withPin \in BOOLEAN : SignsIn(a, withPin)
        \/ SealsAfterSignIn
        \/ Refused \/ WrongPin \/ RightPin
        \/ RefreshFails \/ Refreshes \/ StoresToken \/ Reseals
        \/ ClockTurns \/ Second \/ ClockSet \/ Revoked \/ Crash

Spec == Init /\ [][Next]_vars

-----------------------------------------------------------------------------
(* Properties *)

\* The shape of the state; a count that reaches the limit is never on disk
\* (pin_session.rs:183-190, ui.rs:649-651).
TypeOK == /\ file \in SealedFile \cup {None}
          /\ job \in {Idle} \cup
                [phase : {"signedIn", "opened", "refreshed", "stored"},
                 account : Account]
          /\ stored \in Account \cup {None}
          /\ user \in Account \cup {None}
          /\ tries \in Nat
          /\ quiet \in 0 .. Longest
          /\ turned \in BOOLEAN
          /\ slips \subseteq Happens

\* What the throttle rests on: an unlock has the file it opened, the count on
\* disk is that of the wrong PINs answered and the age on disk the true time
\* since the last one, or a second that is not over more, unless counts or clocks
\* go wrong (pin_session.rs:178-190, ui.rs:628).
UnlockHasFile ==
    job.phase \in {"opened", "refreshed", "stored"} => file # None
CountIsTries == IF file = None THEN tries <= MaxPinFailures
                ELSE file.failures = tries
AgeIsQuiet ==
    file # None => file.age = IF turned /\ quiet < Longest THEN quiet + 1 ELSE quiet
Timed == "count" \notin slips /\ "clock" \notin slips
IInv == /\ TypeOK
        /\ UnlockHasFile
        /\ "count" \notin slips => CountIsTries
        /\ Timed => AgeIsQuiet

\* However the application is restarted or an unlock fails half way, a sealed
\* file never answers more than MaxPinFailures wrong PINs, if every count since
\* it was sealed has reached the disk (pin_session.rs:220).
WrongPinsAreBounded == "count" \notin slips => tries <= MaxPinFailures

\* No PIN is judged, right or wrong, before the backoff earned by the wrong
\* ones so far has really passed but for less than a second, which now_unix
\* may count early, if besides nobody set the clock (pin_session.rs:178-181,
\* 267-277, ui.rs:628).
BackoffIsKept ==
    [][ Timed /\ (tries' > tries \/ (job = Idle /\ job'.phase = "opened")) =>
            quiet + 1 >= BackoffSecs(tries) ]_vars

\* Nor is anybody who waited out the longest backoff told to wait more
\* (pin_session.rs:267-268).
BackoffEnds == Timed /\ file # None /\ quiet = Longest => Gate(file) # "backoff"

\* The sealed token works: nobody who knows the PIN has to sign in again, short
\* of a revocation, an answer that is lost, or an unlock that is cut off or
\* cannot save after it (pin_session.rs:8-9, ui.rs:591-593).
SealedTokenWorks ==
    file # None /\ job = Idle /\ file.token = "spent" =>
        slips \cap {"answer", "crash", "seal", "weak"} # {}

\* The same, as the documentation has it: a PIN that opens its file keeps
\* opening it, whatever the policy has become since (pin_session.rs:8-9).
PinKeepsWorking ==
    file # None /\ job = Idle /\ file.token = "spent" =>
        slips \cap {"answer", "crash", "seal"} # {}

\* Unlocking with the PIN never swaps the account: the keystore holds a token
\* of whoever signed in last, if that sign-in was sealed (ui.rs:557-559).
TokenIsOfLastSignIn ==
    stored # user => slips \cap {"unsealed", "crash", "seal"} # {}
=============================================================================
