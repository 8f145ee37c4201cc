--------------------------- MODULE VaultLifecycle ---------------------------
(***************************************************************************)
(* src/app_state.rs: the lifecycle as its callers see it.  A caller may    *)
(* hold on to any token it was ever given and deliver its outcome at any   *)
(* later moment, in any order and as often as it likes; what a callback    *)
(* captured as "its" generation may likewise come back at any time.        *)
(*                                                                         *)
(* issued, opener and closed are history variables: the code keeps none of *)
(* them, no guard reads them, the properties do.                           *)
(***************************************************************************)
EXTENDS LifecycleRules

VARIABLES life,     \* the VaultLifecycle value
          issued,   \* every token a begin_* call has returned
          opener,   \* the token whose success opened the vault, while open
          closed    \* generations of the unlocked sessions that have ended
lifevars == <<life, issued, opener, closed>>

LifecycleTypeOK ==
    /\ life \in Lifecycle
    /\ issued \in SUBSET Token
    /\ opener \in Token \cup {NoToken}
    /\ closed \in SUBSET (1 .. MaxGeneration)

LifecycleInit ==
    /\ life = NewLifecycle
    /\ issued = {}
    /\ opener = NoToken
    /\ closed = {}

Initialize(vaultExists) ==
    /\ CanInitialize(life)
    /\ life' = Initialized(life, vaultExists)
    /\ UNCHANGED <<issued, opener, closed>>

Begin(op) ==
    /\ CanBegin(life, op)
    /\ life' = Begun(life, op)
    /\ issued' = issued \cup {NextToken(life, op)}
    /\ UNCHANGED <<opener, closed>>

Complete(token, succeeded) ==
    /\ CanComplete(life, token)
    /\ life' = Completed(life, token, succeeded)
    /\ opener' = IF succeeded THEN token ELSE opener
    /\ UNCHANGED <<issued, closed>>

\* lock and dispose both end whatever session is open.
EndSession ==
    /\ opener' = NoToken
    /\ closed' = IF opener = NoToken THEN closed
                 ELSE closed \cup {opener.generation}
    /\ UNCHANGED issued

LockVault == CanRevoke(life) /\ life' = Locked(life)   /\ EndSession
Dispose   == CanRevoke(life) /\ life' = Disposed(life) /\ EndSession

LifecycleNext ==
    \/ \E vaultExists \in BOOLEAN : Initialize(vaultExists)
    \/ \E op \in Operations : Begin(op)
    \/ \E token \in issued, succeeded \in BOOLEAN :
          Complete(token, succeeded)
    \/ LockVault
    \/ Dispose

LifecycleSpec == LifecycleInit /\ [][LifecycleNext]_lifevars

-----------------------------------------------------------------------------
(* Properties *)

\* Late asynchronous work never applies: once an unlocked session has ended,
\* owns_generation refuses the generation it ran under for ever after, even
\* when the 64-bit counter has saturated and lock() no longer moves it
\* (app_state.rs:126, 161-165, 217-232).
ClosedGenerationsStayForeign == \A g \in closed : ~Owns(life, g)

\* The token in flight is the newest one and matches its phase, so at most
\* one completion is ever acceptable and it is not one that a lock, a dispose
\* or a newer begin has overtaken (app_state.rs:195-205).
OnlyNewestInFlight ==
    life.active # NoToken =>
        /\ life.active \in issued
        /\ life.phase = BusyPhase(life.active.operation)
        /\ \A t \in issued : t.generation <= life.active.generation
        /\ life.active.generation = life.generation

\* The lifecycle implements PermitGate with its tokens as permits: the vault is
\* opened only by the one operation in flight, no token is issued twice, and
\* one that was completed or overtaken never opens it (app_state.rs:195-241).
InFlight == {life.active} \ {NoToken}
Gate == INSTANCE PermitGate WITH
            Permit      <- Token,
            outstanding <- InFlight,
            spent       <- issued \ InFlight,
            openUnder   <- {opener} \ {NoToken}
ImplementsGate == Gate!Spec

\* The vault is open exactly while the session of some token is
\* (app_state.rs:126, 206-207).
OpenerIsCurrent ==
    (life.phase = "Unlocked") <=> (opener # NoToken)

\* Shutdown is final, and no call ever returns a vault that has been opened
\* or found to exist to the setup screen, where creating would replace it
\* (app_state.rs:141-154, 208-212, 217-241).
NeverForgetsTheVault ==
    [][ /\ life.phase = "Disposed" => life'.phase = "Disposed"
        /\ life.phase \in {"Locked", "Unlocking", "Unlocked"} =>
              life'.phase \notin {"Loading", "Setup", "Creating"} ]_lifevars

\* The inductive invariant behind the three properties above: every generation
\* in circulation is at most the current one, an operation is in flight
\* exactly in a busy phase, and neither the operation in flight nor the open
\* session runs under a generation that has already been closed.
LifecycleInv ==
    /\ LifecycleTypeOK
    /\ OnlyNewestInFlight
    /\ OpenerIsCurrent
    /\ life.phase \in {"Creating", "Unlocking"} <=> life.active # NoToken
    /\ \A t \in issued : t.generation <= life.generation
    /\ \A g \in closed : g <= life.generation
    /\ opener # NoToken => /\ opener \in issued
                           /\ opener.generation = life.generation
    /\ life.phase \in {"Creating", "Unlocking", "Unlocked"} =>
          life.generation \notin closed
=============================================================================
