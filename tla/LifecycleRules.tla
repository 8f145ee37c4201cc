--------------------------- MODULE LifecycleRules ---------------------------
(***************************************************************************)
(* The transition function of VaultLifecycle (src/app_state.rs) as guards  *)
(* and effects on a lifecycle value [phase, generation, active].  It has   *)
(* no variables, so that VaultLifecycle can take one call per step while   *)
(* DesktopApp composes the several calls one GUI callback makes.           *)
(* A refused call returns the value unchanged.                             *)
(*                                                                         *)
(* An operator Name_Fault is Name with a plausible bug.  No specification  *)
(* uses one; each is there to show that a property would catch that bug.   *)
(***************************************************************************)
EXTENDS Naturals

CONSTANT MaxGeneration   \* u64::MAX in the code: the last generation there is
ASSUME MaxGenerationAssumption == MaxGeneration \in Nat

NoToken    == [generation |-> 0, operation |-> "None"]
Operations == {"Create", "Unlock"}
Token      == [generation : 1 .. MaxGeneration, operation : Operations]
Phase      == {"Loading", "Setup", "Creating", "Locked", "Unlocking",
               "Unlocked", "Disposed"}
Lifecycle  == [phase      : Phase,
               generation : 0 .. MaxGeneration,
               active     : Token \cup {NoToken}]

NewLifecycle == [phase |-> "Loading", generation |-> 0, active |-> NoToken]

\* Where an operation starts and where its failure returns to, and the phase
\* it holds while it is in flight.
HomePhase(op) == IF op = "Create" THEN "Setup" ELSE "Locked"
BusyPhase(op) == IF op = "Create" THEN "Creating" ELSE "Unlocking"

CanInitialize(s) == s.phase = "Loading"
Initialized(s, vaultExists) ==
    [s EXCEPT !.phase = IF vaultExists THEN "Locked" ELSE "Setup"]

\* checked_add: the last generation is never stamped on a second token.
CanBegin(s, op) == s.phase = HomePhase(op) /\ s.generation < MaxGeneration
NextToken(s, op) == [generation |-> s.generation + 1, operation |-> op]
Begun(s, op) ==
    [phase |-> BusyPhase(op), generation |-> s.generation + 1,
     active |-> NextToken(s, op)]

CanComplete_AnyToken(s, token) == s.phase = BusyPhase(token.operation)
CanComplete(s, token) ==
    s.active = token /\ s.phase = BusyPhase(token.operation)
Completed_FailsToSetup(s, token, succeeded) ==
    [s EXCEPT !.active = NoToken,
              !.phase  = IF succeeded THEN "Unlocked" ELSE "Setup"]
Completed(s, token, succeeded) ==
    [s EXCEPT !.active = NoToken,
              !.phase  = IF succeeded THEN "Unlocked"
                         ELSE HomePhase(token.operation)]

\* saturating_add: revocation is never refused for want of a generation.
Saturated(g) == IF g < MaxGeneration THEN g + 1 ELSE g

CanRevoke(s) == s.phase # "Disposed"
Locked(s) ==
    [phase |-> IF s.phase \in {"Loading", "Setup"} THEN s.phase ELSE "Locked",
     generation |-> Saturated(s.generation), active |-> NoToken]
Disposed(s) ==
    [phase |-> "Disposed", generation |-> Saturated(s.generation),
     active |-> NoToken]

\* owns_generation: may work that captured this generation still apply?
Owns_AnyPhase(s, generation) == s.generation = generation
Owns(s, generation) == s.phase = "Unlocked" /\ s.generation = generation
=============================================================================
