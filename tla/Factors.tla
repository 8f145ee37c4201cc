------------------------------- MODULE Factors -------------------------------
(***************************************************************************)
(* The authentication factors of src/auth and the session they open and    *)
(* extend.  A caller submits passcodes, puts voice challenges, collects    *)
(* the proofs it is given and presents them at either gate; what it could  *)
(* not use it throws away.  Touch ID and platform passkeys are stubs that  *)
(* are never available, so that no proof of theirs is ever collected.      *)
(*                                                                         *)
(* A passcode is what the check makes of it: not six digits, wrong, right. *)
(***************************************************************************)
EXTENDS SessionTimers

CONSTANTS UnlockFactors,   \* policy.unlock_factors
          Digits,          \* voice challenges; none is drawn twice
          Nothing,         \* no passcode entered, no challenge put
          MaxTyped         \* bound: passcodes typed
ASSUME FactorsAssumption == /\ UnlockFactors \in Nat
                            /\ MaxTyped \in Nat
                            /\ Nothing \notin Digits \cup {"malformed", "wrong", "right"}
                            /\ <<>> \in Proofs

VARIABLES phc,        \* PasscodeFactor.phc_hash: of a passcode, or corrupt
          voice,      \* VoiceFactor.mode, or "absent" if nobody is enrolled
          entered,    \* PasscodeFactor.entered
          expected,   \* VoiceFactor.expected_challenge
          proofs,     \* the caller's: what it has collected
          asked,      \* history: the challenges put so far, in order
          typed,      \* history: how many passcodes were typed
          given,      \* history: how many passcode proofs were given
          fooled      \* history: the answer to an old challenge was accepted
factors == <<phc, voice, entered, expected, asked, typed, given, fooled>>
allvars == <<vars, factors, proofs>>

FactorsInit == /\ Init
               /\ phc \in {"set", "corrupt"}
               /\ voice \in {"FixedPin", "Challenge", "absent"}
               /\ entered = Nothing
               /\ expected = Nothing
               /\ proofs = <<>>
               /\ asked = <<>>
               /\ typed = 0
               /\ given = 0
               /\ fooled = FALSE

Collects(kind) == Append(proofs, kind) \in Proofs /\ proofs' = Append(proofs, kind)

-----------------------------------------------------------------------------
(* The passcode: passcode.rs *)

Submits(passcode) ==
    /\ typed < MaxTyped
    /\ typed' = typed + 1
    /\ entered' = passcode
    /\ UNCHANGED <<vars, phc, voice, expected, asked, given, fooled, proofs>>

IsValidFormat == entered \in {"right", "wrong"}
Wiped_OnFailure == IF entered = "right" THEN entered ELSE Nothing
Wiped == IF IsValidFormat /\ phc = "corrupt" THEN entered ELSE Nothing
VerifiesPasscode ==
    /\ entered' = Wiped
    /\ IF entered = "right" /\ phc = "set"
       THEN Collects("Passcode") /\ given' = given + 1
       ELSE UNCHANGED <<proofs, given>>
    /\ UNCHANGED <<vars, phc, voice, expected, asked, typed, fooled>>

-----------------------------------------------------------------------------
(* The voice: voice.rs *)

Challenged_Once(digits) == IF expected = Nothing THEN digits ELSE expected
Challenged(digits) == digits
SetsChallengeDigits(digits) ==
    /\ \A n \in DOMAIN asked : asked[n] # digits
    /\ expected' = Challenged(digits)
    /\ asked' = Append(asked, digits)
    /\ UNCHANGED <<vars, phc, voice, entered, typed, given, fooled, proofs>>

\* Whose voice, and which digits.  What was ever asked for may have been
\* recorded when the user answered, and be played again.
Pin == "pin"
Utterance == [mine : BOOLEAN, digits : {Pin} \cup {asked[n] : n \in DOMAIN asked}]

\* Nobody has to be enrolled for a challenge to be answered, only for the
\* speaker to be known.
ChecksDigits(u) == IF voice = "Challenge" THEN expected # Nothing /\ u.digits = expected
                   ELSE voice = "FixedPin" /\ u.digits = Pin
ChecksSpeaker(u) == voice # "absent" /\ u.mine
VerifiesVoice(u) ==
    /\ ChecksDigits(u) /\ ChecksSpeaker(u)
    /\ Collects("Voice")
    /\ fooled' = (fooled \/ (voice = "Challenge" /\ u.digits # asked[Len(asked)]))
    /\ UNCHANGED <<vars, phc, voice, entered, expected, asked, typed, given>>

-----------------------------------------------------------------------------
(* The gates, and the session in between *)

Opens == /\ proofs # <<>>
         /\ IsSatisfied(UnlockFactors, proofs)
         /\ Unlock(proofs[1])
         /\ proofs' = <<>>
         /\ UNCHANGED factors
Extends == TryExtend(proofs) /\ proofs' = <<>> /\ UNCHANGED factors
SessionStep == /\ Poll \/ Lock \/ Pass \/ \E i \in Interaction : Interact(i)
               /\ UNCHANGED <<factors, proofs>>

FactorsNext == \/ \E passcode \in {"malformed", "wrong", "right"} : Submits(passcode)
               \/ \E digits \in Digits : SetsChallengeDigits(digits)
               \/ \E u \in Utterance : VerifiesVoice(u)
               \/ VerifiesPasscode \/ Opens \/ Extends \/ SessionStep
FactorsSpec == FactorsInit /\ [][FactorsNext]_allvars

-----------------------------------------------------------------------------
(* Properties *)

\* A passcode typed once proves its factor once, however often and in whatever
\* order the check is called (passcode.rs:69-86).
SubmissionProvesOnce == given <= typed

\* Once a new challenge is put, no recording of the user answering an earlier
\* one proves anything (voice.rs:3-5, 130-147).
RecordingsGoStale == ~fooled
=============================================================================
