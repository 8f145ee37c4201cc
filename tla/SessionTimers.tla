---------------------------- MODULE SessionTimers ----------------------------
(***************************************************************************)
(* src/session.rs as a library: any caller may interact, poll, ask for an  *)
(* extension or lock at any moment, and may let any time pass in between,  *)
(* deadlines included, since the library has no thread of its own.  Only   *)
(* the rule the code states for unlock() is assumed of the caller: it      *)
(* opens a session it knows to be locked, having checked the policy.       *)
(*                                                                         *)
(* held, quiet, openedWith and renewals are history variables.             *)
(***************************************************************************)
EXTENDS SessionRules

CONSTANTS Horizon,         \* bound: no session is left unpolled past this age
          ExtendFactors,   \* policy.extend_factors of the vault
          Proofs           \* the proof lists an extension may come with
ASSUME CallerAssumption == /\ Horizon \in Nat
                           /\ ExtendFactors \in Nat
                           /\ Proofs \subseteq Seq(FactorKind)

VARIABLES sess,         \* the Session value
          held,         \* ticks since the vault was unlocked, 0 while locked
          quiet,        \* ticks since the user last did anything that counts
          openedWith,   \* factor kind the session was unlocked with
          renewals      \* for each extension granted since, the kinds it was granted on
vars == <<sess, held, quiet, openedWith, renewals>>

TypeOK == /\ sess \in Session
          /\ held \in Nat
          /\ quiet \in Nat
          /\ openedWith \in FactorKind
          /\ renewals \in SUBSET SUBSET FactorKind
          /\ sess.idle <= sess.age
          /\ ~sess.unlocked => sess = ClosedSession /\ held = 0

Init == /\ sess = ClosedSession
        /\ held = 0
        /\ quiet = 0
        /\ openedWith = "Passcode"
        /\ renewals = {}

Becomes(s, used) ==
    /\ sess' = s
    /\ held' = IF s.unlocked THEN held ELSE 0
    /\ quiet' = IF s.unlocked /\ ~used THEN quiet ELSE 0
    /\ UNCHANGED openedWith

Unlock(kind) == /\ ~sess.unlocked
                /\ sess' = OpenedSession
                /\ held' = 0
                /\ quiet' = 0
                /\ openedWith' = kind
                /\ renewals' = {}
Interact(i)  == Becomes(Noted(sess, i), i \in UserActivity) /\ UNCHANGED renewals
Poll         == Becomes(Polled(sess), FALSE) /\ UNCHANGED renewals
Lock         == Becomes(ClosedSession, FALSE) /\ UNCHANGED renewals
TryExtend(proofs) ==
    LET s == Extended(sess, ExtendFactors, proofs)
        granted == s.unlocked /\ IsSatisfied(ExtendFactors, proofs)
    IN  /\ Becomes(s, granted)
        /\ renewals' = IF granted
                       THEN renewals \cup {{proofs[n] : n \in DOMAIN proofs}}
                       ELSE renewals
Pass == /\ sess.age < Horizon
        /\ sess' = Aged(sess, 1)
        /\ held' = IF sess.unlocked THEN held + 1 ELSE 0
        /\ quiet' = IF sess.unlocked THEN quiet + 1 ELSE 0
        /\ UNCHANGED <<openedWith, renewals>>

Next == \/ \E kind \in FactorKind : Unlock(kind)
        \/ \E i \in Interaction : Interact(i)
        \/ \E proofs \in Proofs : TryExtend(proofs)
        \/ Poll \/ Lock \/ Pass

Spec == Init /\ [][Next]_vars

-----------------------------------------------------------------------------
(* Properties *)

\* Nothing moves the origin of the hard cap: neither activity nor a granted
\* extension, in any number and order, makes a session younger than the time
\* the vault has really been open (session.rs:19-20, 136-141, 216-239).
CapCountsFromUnlock == sess.unlocked => sess.age = held

\* The countdown on screen is the truth about the next poll: n whole seconds
\* shown means the earlier deadline is at least n and less than n+1 seconds
\* away, and that a poll before it leaves the session open (session.rs:182-214).
CountdownMatchesPoll ==
    sess.unlocked =>
        LET n == LockSecondsRemaining(sess)
        IN  /\ n > 0 => PollResult(Aged(sess, n * Second - 1)) = "Active"
            /\ PollResult(Aged(sess, (n + 1) * Second)) = "JustLocked"

\* The idle clock of an open session counts from the last thing the user did
\* that the library calls activity, or the last extension granted: ticks, the
\* "Keep open" press, the lock press and a refused extension never set it back,
\* and nothing that counts is missed (session.rs:84-95, 146-152, 233-238).
IdleCountsFromLastUse == sess.unlocked => sess.idle = quiet

\* Where the policy asks for two factors or more, each single extension was
\* granted on a factor other than the one that unlocked, whatever proofs were
\* repeated in it and however an earlier extension was granted.  With the default
\* policy of one factor the unlocking one extends, although session.rs:5-7 says
\* otherwise (auth/mod.rs:95-123, session.rs:233).
ExtensionFactorIsDistinct ==
    ExtendFactors >= 2 => \A kinds \in renewals : \E k \in kinds : k # openedWith
=============================================================================
