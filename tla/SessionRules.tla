---------------------------- MODULE SessionRules ----------------------------
(***************************************************************************)
(* The auto-lock rules of src/session.rs, and the factor count of          *)
(* src/auth/mod.rs they consult, as operators on a session value           *)
(* [unlocked, age, idle].  The code keeps two Instants, opened_at and      *)
(* last_activity, and reads them only as durations up to "now"; age and    *)
(* idle are those durations, and a locked session, whose Instants are      *)
(* None, has both at zero.  Time is counted in ticks, Second of them to a  *)
(* second, so that what as_secs() truncates away is still there to see.    *)
(***************************************************************************)
EXTENDS Integers, FiniteSets, Sequences

CONSTANTS Second,        \* ticks per second
          IdleTimeout,   \* 90 s in the code
          MaxSession     \* 300 s in the code
ASSUME SessionAssumption ==
    /\ Second \in Nat \ {0}
    /\ IdleTimeout \in Nat \ {0}
    /\ MaxSession \in Nat \ {0}

UserActivity == {"KeypadInput", "AddAccount", "ScanQr", "CopyCode",
                 "AdvanceCounter", "Navigate", "Sync"}
Interaction  == UserActivity \cup {"TimerTick", "ExtendRequest", "LockNow"}
FactorKind   == {"Passcode", "Biometric", "Passkey", "Voice"}

Session == [unlocked : BOOLEAN, age : Nat, idle : Nat]
ClosedSession == [unlocked |-> FALSE, age |-> 0, idle |-> 0]
OpenedSession == [unlocked |-> TRUE,  age |-> 0, idle |-> 0]

\* d ticks go by.
Aged(s, d) == IF s.unlocked THEN [s EXCEPT !.age = @ + d, !.idle = @ + d] ELSE s

Touched(s) == [s EXCEPT !.idle = 0]
Noted_TicksCount(s, interaction) == IF s.unlocked THEN Touched(s) ELSE s
Noted(s, interaction) ==
    IF s.unlocked /\ interaction \in UserActivity THEN Touched(s) ELSE s

\* Whole seconds left of a limit (saturating_sub, then as_secs).
SecondsLeft(limit, elapsed) ==
    IF elapsed < limit THEN (limit - elapsed) \div Second ELSE 0

Lesser(a, b) == IF a <= b THEN a ELSE b
SessionSecondsRemaining(s) ==
    IF s.unlocked THEN SecondsLeft(MaxSession, s.age) ELSE 0
LockSecondsRemaining_IdleOnly(s) ==
    IF s.unlocked THEN SecondsLeft(IdleTimeout, s.idle) ELSE 0
LockSecondsRemaining(s) ==
    IF s.unlocked
    THEN Lesser(SecondsLeft(IdleTimeout, s.idle), SessionSecondsRemaining(s))
    ELSE 0

Expired(s) == s.idle >= IdleTimeout \/ s.age >= MaxSession
PollResult(s) == IF ~s.unlocked THEN "Locked"
                 ELSE IF Expired(s) THEN "JustLocked" ELSE "Active"
Polled(s) == IF PollResult(s) = "JustLocked" THEN ClosedSession ELSE s

\* PolicyEngine: distinct kinds presented against the policy, which can never
\* ask for fewer than one.
Required(factors) == IF factors = 0 THEN 1 ELSE factors
IsSatisfied_CountsProofs(factors, proofs) == Len(proofs) >= Required(factors)
IsSatisfied(factors, proofs) ==
    Cardinality({proofs[n] : n \in DOMAIN proofs}) >= Required(factors)

\* try_extend: in the last second of the session there are no whole seconds
\* left, and the request locks.
Extended_MovesCap(s, factors, proofs) ==
    IF s.unlocked /\ IsSatisfied(factors, proofs) THEN OpenedSession ELSE s
Extended(s, factors, proofs) ==
    IF ~s.unlocked THEN s
    ELSE IF SessionSecondsRemaining(s) = 0 THEN ClosedSession
    ELSE IF IsSatisfied(factors, proofs) THEN Touched(s)
    ELSE s
=============================================================================
