-------------------------- MODULE Unlocking_proofs --------------------------
(***************************************************************************)
(* Who may have the vault open, and for how long.  The lifecycle, for      *)
(* every number of generations; the session timers, for every timeout,     *)
(* every cap, every clock resolution and every policy; and the factors and *)
(* the session together, for every set of challenges and any number of     *)
(* submissions: a caller that collects proofs is one of those              *)
(* SessionTimers allows, so what is proved of the session carries over,    *)
(* and the two factors cannot be replayed.                                 *)
(***************************************************************************)
EXTENDS VaultLifecycle, Factors, FiniteSetTheorems, TLAPS

-----------------------------------------------------------------------------
(* The lifecycle *)

\* A token is never the placeholder for "no token", and is built from its parts.
LEMMA NoTokenFresh == NoToken \notin Token
  BY DEF NoToken, Token, Operations

\* A begin that is not refused stamps a well-formed token, newer than any
\* generation used so far (app_state.rs:155-194).
LEMMA NextTokenType ==
  ASSUME NEW s \in Lifecycle, NEW op \in Operations, CanBegin(s, op)
  PROVE  /\ NextToken(s, op) \in Token
         /\ NextToken(s, op).generation = s.generation + 1
         /\ NextToken(s, op).operation = op
         /\ Begun(s, op) \in Lifecycle
  BY MaxGenerationAssumption
     DEF NextToken, Token, CanBegin, Lifecycle, Begun, BusyPhase, Phase, Operations

\* saturating_add never leaves the range and never goes down.
LEMMA SaturatedRange ==
  ASSUME NEW g \in 0 .. MaxGeneration
  PROVE  Saturated(g) \in 0 .. MaxGeneration /\ Saturated(g) >= g
  BY MaxGenerationAssumption DEF Saturated

\* The invariant holds of a lifecycle that was just created.
LEMMA LifecycleInitInv == LifecycleInit => LifecycleInv
  BY MaxGenerationAssumption, NoTokenFresh
     DEF LifecycleInit, LifecycleInv, LifecycleTypeOK, NewLifecycle, Lifecycle,
         Phase, OnlyNewestInFlight, OpenerIsCurrent

\* Every step of the lifecycle keeps the inductive invariant.
LEMMA LifecycleStepInv == LifecycleInv /\ [LifecycleNext]_lifevars => LifecycleInv'
  <1> SUFFICES ASSUME LifecycleInv, [LifecycleNext]_lifevars PROVE LifecycleInv'
    OBVIOUS
  <1> USE MaxGenerationAssumption, NoTokenFresh
  <1>t. /\ life \in Lifecycle /\ life.phase \in Phase
        /\ life.generation \in 0 .. MaxGeneration
        /\ life.active \in Token \cup {NoToken}
        /\ issued \in SUBSET Token /\ closed \in SUBSET (1 .. MaxGeneration)
        /\ opener \in Token \cup {NoToken}
    BY DEF LifecycleInv, LifecycleTypeOK, Lifecycle
  <1>1. ASSUME NEW vaultExists \in BOOLEAN, Initialize(vaultExists)
        PROVE  LifecycleInv'
    <2>1. /\ life'.phase \in {"Locked", "Setup"}
          /\ life'.generation = life.generation /\ life'.active = life.active
          /\ life' \in Lifecycle
      BY <1>1, <1>t DEF Initialize, Initialized, CanInitialize, Lifecycle, Phase
    <2> QED
      BY <1>1, <2>1, <1>t
         DEF LifecycleInv, LifecycleTypeOK, Initialize, CanInitialize,
             OnlyNewestInFlight, OpenerIsCurrent
  <1>2. ASSUME NEW op \in Operations, Begin(op)
        PROVE  LifecycleInv'
    <2> DEFINE tok == NextToken(life, op)
    <2>1. /\ tok \in Token /\ tok.generation = life.generation + 1
          /\ tok.operation = op /\ Begun(life, op) \in Lifecycle
      BY <1>2, <1>t, NextTokenType DEF Begin
    <2>2. /\ life' \in Lifecycle /\ life'.active = tok
          /\ life'.generation = life.generation + 1
          /\ life'.phase = BusyPhase(op)
          /\ life.phase = HomePhase(op) /\ issued' = issued \cup {tok}
          /\ opener' = opener /\ closed' = closed
      BY <1>2, <2>1 DEF Begin, Begun, CanBegin
    <2>3. /\ BusyPhase(op) \in {"Creating", "Unlocking"}
          /\ HomePhase(op) \in {"Setup", "Locked"}
      BY DEF BusyPhase, HomePhase
    <2> HIDE DEF tok
    <2>4. opener = NoToken
      BY <2>2, <2>3 DEF LifecycleInv, OpenerIsCurrent
    <2>5. \A t \in issued' : t.generation <= life'.generation
      BY <2>1, <2>2, <1>t DEF LifecycleInv, Token
    <2>6. \A g \in closed' : g < life'.generation
      BY <2>1, <2>2, <1>t DEF LifecycleInv
    <2>7. OnlyNewestInFlight'
      BY <2>1, <2>2, <2>5 DEF OnlyNewestInFlight
    <2>8. LifecycleTypeOK'
      BY <2>1, <2>2, <1>t DEF LifecycleTypeOK
    <2> QED
      BY <2>1, <2>2, <2>3, <2>4, <2>5, <2>6, <2>7, <2>8, <1>t
         DEF LifecycleInv, OpenerIsCurrent
  <1>3. ASSUME NEW token \in issued, NEW succeeded \in BOOLEAN,
               Complete(token, succeeded)
        PROVE  LifecycleInv'
    <2>1. /\ life' \in Lifecycle /\ life'.active = NoToken
          /\ life'.generation = life.generation
          /\ life'.phase = IF succeeded THEN "Unlocked" ELSE HomePhase(token.operation)
          /\ opener' = IF succeeded THEN token ELSE opener
          /\ issued' = issued /\ closed' = closed
      BY <1>3, <1>t DEF Complete, Completed, Lifecycle, Phase, HomePhase
    <2>2. /\ life.active = token /\ token \in Token
          /\ life.phase \in {"Creating", "Unlocking"}
          /\ HomePhase(token.operation) \in {"Setup", "Locked"}
      BY <1>3, <1>t DEF Complete, CanComplete, BusyPhase, HomePhase
    <2>3. /\ token.generation = life.generation /\ opener = NoToken
      BY <2>2 DEF LifecycleInv, OnlyNewestInFlight, OpenerIsCurrent
    <2> QED
      BY <2>1, <2>2, <2>3, <1>t
         DEF LifecycleInv, LifecycleTypeOK, OnlyNewestInFlight, OpenerIsCurrent
  <1>4. ASSUME LockVault \/ Dispose PROVE LifecycleInv'
    <2>1. /\ life' \in Lifecycle /\ life'.active = NoToken
          /\ life'.generation \in 0 .. MaxGeneration
          /\ life'.generation >= life.generation
          /\ life'.phase \in {"Loading", "Setup", "Locked", "Disposed"}
      BY <1>4, <1>t, SaturatedRange
         DEF LockVault, Dispose, Locked, Disposed, Lifecycle, Phase
    <2>2. /\ opener' = NoToken /\ issued' = issued
          /\ closed' = IF opener = NoToken THEN closed
                       ELSE closed \cup {opener.generation}
      BY <1>4 DEF LockVault, Dispose, EndSession
    <2>3. opener # NoToken => /\ opener.generation \in 1 .. MaxGeneration
                              /\ opener.generation = life.generation
      BY <1>t DEF LifecycleInv, Token
    <2>4. LifecycleTypeOK'
      BY <2>1, <2>2, <2>3, <1>t DEF LifecycleTypeOK
    <2>5. \A t \in issued' : t.generation <= life'.generation
      BY <2>1, <2>2, <1>t DEF LifecycleInv, Token
    <2>6. \A g \in closed' : g <= life'.generation
      BY <2>1, <2>2, <2>3, <1>t DEF LifecycleInv
    <2> QED
      BY <2>1, <2>2, <2>4, <2>5, <2>6 DEF LifecycleInv, OnlyNewestInFlight, OpenerIsCurrent
  <1>5. CASE UNCHANGED lifevars
    BY <1>5 DEF lifevars, LifecycleInv, LifecycleTypeOK, OnlyNewestInFlight, OpenerIsCurrent
  <1> QED
    BY <1>1, <1>2, <1>3, <1>4, <1>5 DEF LifecycleNext

\* The inductive invariant holds in every reachable state.
THEOREM LifecycleInvariance == LifecycleSpec => []LifecycleInv
  BY LifecycleInitInv, LifecycleStepInv, PTL DEF LifecycleSpec

\* Every reachable lifecycle value has its type: generations never leave the
\* range of the counter (app_state.rs:59-63).
THEOREM LifecycleTypeCorrect == LifecycleSpec => []LifecycleTypeOK
  <1>1. LifecycleInv => LifecycleTypeOK
    BY DEF LifecycleInv
  <1> QED
    BY LifecycleInvariance, <1>1, PTL

\* Work that captured the generation of a session that has ended is refused
\* for ever after (app_state.rs:126).
THEOREM LateWorkIsRefused == LifecycleSpec => []ClosedGenerationsStayForeign
  <1>1. LifecycleInv => ClosedGenerationsStayForeign
    BY DEF LifecycleInv, ClosedGenerationsStayForeign, Owns
  <1> QED
    BY LifecycleInvariance, <1>1, PTL

\* Disposal is final and a vault, once known, is never forgotten
\* (app_state.rs:141-154, 208-241).
THEOREM VaultIsNeverForgotten == LifecycleSpec => NeverForgetsTheVault
  <1>1. LifecycleInv /\ [LifecycleNext]_lifevars =>
          [ /\ life.phase = "Disposed" => life'.phase = "Disposed"
            /\ life.phase \in {"Locked", "Unlocking", "Unlocked"} =>
                  life'.phase \notin {"Loading", "Setup", "Creating"} ]_lifevars
    <2> SUFFICES ASSUME LifecycleInv, LifecycleNext
                 PROVE  /\ life.phase = "Disposed" => life'.phase = "Disposed"
                        /\ life.phase \in {"Locked", "Unlocking", "Unlocked"} =>
                              life'.phase \notin {"Loading", "Setup", "Creating"}
      OBVIOUS
    <2>t. life \in Lifecycle
      BY DEF LifecycleInv, LifecycleTypeOK
    <2>1. ASSUME NEW e \in BOOLEAN, Initialize(e) PROVE life.phase = "Loading"
      BY <2>1 DEF Initialize, CanInitialize
    <2>2. ASSUME NEW op \in Operations, Begin(op)
          PROVE  \/ life.phase = "Setup"
                 \/ life.phase = "Locked" /\ life'.phase = "Unlocking"
      BY <2>2 DEF Begin, Begun, CanBegin, HomePhase, BusyPhase, Operations
    <2>3. ASSUME NEW token \in issued, NEW ok \in BOOLEAN, Complete(token, ok)
          PROVE  \/ life.phase = "Creating"
                 \/ life.phase = "Unlocking" /\ life'.phase \in {"Unlocked", "Locked"}
      BY <2>3, <2>t DEF Complete, CanComplete, Completed, HomePhase, BusyPhase, Lifecycle
    <2>4. ASSUME LockVault
          PROVE  /\ life.phase # "Disposed"
                 /\ life.phase \notin {"Loading", "Setup"} => life'.phase = "Locked"
      BY <2>4 DEF LockVault, CanRevoke, Locked
    <2>5. ASSUME Dispose PROVE life'.phase = "Disposed"
      BY <2>5 DEF Dispose, Disposed
    <2> QED
      BY <2>1, <2>2, <2>3, <2>4, <2>5 DEF LifecycleNext
  <1> QED
    BY LifecycleInvariance, <1>1, PTL DEF LifecycleSpec, NeverForgetsTheVault

\* The lifecycle implements PermitGate: it opens only for the one token in
\* flight, and never again for a token completed or overtaken
\* (app_state.rs:155-241).
THEOREM LifecycleRefinesGate == LifecycleSpec => ImplementsGate
  <1>1. LifecycleInit => Gate!Init
    BY NoTokenFresh DEF LifecycleInit, NewLifecycle, Gate!Init, InFlight
  <1>2. LifecycleInv /\ [LifecycleNext]_lifevars => [Gate!Next]_Gate!vars
    <2> SUFFICES ASSUME LifecycleInv, [LifecycleNext]_lifevars
                 PROVE  Gate!Next \/ UNCHANGED Gate!vars
      BY DEF Gate!Next, Gate!vars
    <2>t. /\ life \in Lifecycle /\ life.active \in Token \cup {NoToken}
          /\ issued \in SUBSET Token /\ opener \in Token \cup {NoToken}
          /\ NoToken \notin Token
      BY NoTokenFresh DEF LifecycleInv, LifecycleTypeOK, Lifecycle
    <2>1. ASSUME NEW e \in BOOLEAN, Initialize(e)
          PROVE  UNCHANGED Gate!vars
      <3>1. life'.active = life.active
        BY <2>1, <2>t DEF Initialize, Initialized, Lifecycle
      <3> QED
        BY <2>1, <3>1 DEF Gate!vars, InFlight, Initialize
    <2>2. ASSUME NEW op \in Operations, Begin(op)
          PROVE  Gate!Issue(NextToken(life, op)) /\ NextToken(life, op) \in Token
      <3> DEFINE tok == NextToken(life, op)
      <3>1. /\ tok \in Token /\ tok.generation = life.generation + 1
            /\ life'.active = tok /\ life.phase \in {"Setup", "Locked"}
            /\ issued' = issued \cup {tok} /\ opener' = opener
        BY <2>2, <2>t, NextTokenType DEF Begin, Begun, CanBegin, HomePhase
      <3> HIDE DEF tok
      <3>2. tok \notin issued
        BY <3>1, <2>t DEF LifecycleInv, Lifecycle
      <3>3. life.active = NoToken /\ opener = NoToken
        BY <3>1 DEF LifecycleInv, OpenerIsCurrent
      <3>4. Gate!Issue(tok)
        BY <3>1, <3>2, <3>3, <2>t DEF Gate!Issue, InFlight
      <3> QED
        BY <3>1, <3>4 DEF tok
    <2>3. ASSUME NEW token \in issued, NEW ok \in BOOLEAN, Complete(token, ok)
          PROVE  Gate!Redeem(token) \/ Gate!Refuse(token)
      <3>1. /\ life.active = token /\ life'.active = NoToken
            /\ opener' = IF ok THEN token ELSE opener
            /\ issued' = issued
        BY <2>3, <2>t DEF Complete, CanComplete, Completed, Lifecycle
      <3>2. token \in Token
        BY <2>t
      <3>3. CASE ok
        BY <3>1, <3>2, <3>3, <2>t DEF Gate!Redeem, InFlight
      <3>4. CASE ~ok
        BY <3>1, <3>2, <3>4, <2>t DEF Gate!Refuse, InFlight
      <3> QED
        BY <3>3, <3>4
    <2>4. ASSUME LockVault \/ Dispose
          PROVE  Gate!Revoke
      <3>1. life'.active = NoToken /\ opener' = NoToken /\ issued' = issued
        BY <2>4 DEF LockVault, Dispose, Locked, Disposed, EndSession
      <3>2. InFlight \subseteq issued
        BY DEF LifecycleInv, OnlyNewestInFlight, InFlight
      <3> QED
        BY <3>1, <3>2, <2>t DEF Gate!Revoke, InFlight
    <2>5. CASE UNCHANGED lifevars
      BY <2>5 DEF lifevars, Gate!vars, InFlight
    <2> QED
      BY <2>1, <2>2, <2>3, <2>4, <2>5, <2>t DEF LifecycleNext, Gate!Next
  <1> QED
    BY LifecycleInvariance, <1>1, <1>2, PTL DEF LifecycleSpec, ImplementsGate, Gate!Spec
-----------------------------------------------------------------------------
(* The session *)

\* The quotient of a division brackets its argument.
LEMMA Quotient ==
  ASSUME NEW a \in Nat, NEW b \in Nat \ {0}
  PROVE  /\ a \div b \in Nat
         /\ (a \div b) * b <= a
         /\ a < (a \div b + 1) * b
  BY SMT

\* Multiplication by a natural number keeps the order.
LEMMA ProductGrows ==
  ASSUME NEW a \in Nat, NEW b \in Nat, NEW c \in Nat, a <= b
  PROVE  a * c \in Nat /\ b * c \in Nat /\ a * c <= b * c
  BY SMT

\* Truncation to whole seconds loses less than one second and never claims
\* time that is not there (session.rs:163-180).
LEMMA WholeSeconds ==
  ASSUME NEW limit \in Nat, NEW elapsed \in Nat, NEW n, n = SecondsLeft(limit, elapsed)
  PROVE  /\ n \in Nat
         /\ n * Second \in Nat /\ (n + 1) * Second \in Nat
         /\ n > 0 => elapsed + n * Second <= limit
         /\ limit < elapsed + (n + 1) * Second
  <1> USE SessionAssumption
  <1>1. CASE elapsed < limit
    <2>1. limit - elapsed \in Nat /\ n = (limit - elapsed) \div Second
      BY <1>1 DEF SecondsLeft
    <2>2. n \in Nat /\ n * Second <= limit - elapsed /\ limit - elapsed < (n + 1) * Second
      BY <2>1, Quotient
    <2>3. n * Second \in Nat /\ (n + 1) * Second \in Nat
      BY <2>2, ProductGrows
    <2> QED
      BY <2>2, <2>3
  <1>2. CASE ~(elapsed < limit)
    <2>1. n = 0
      BY <1>2 DEF SecondsLeft
    <2>2. n * Second = 0 /\ (n + 1) * Second = Second
      BY <2>1
    <2> QED
      BY <1>2, <2>1, <2>2
  <1> QED
    BY <1>1, <1>2

-----------------------------------------------------------------------------

\* What every step preserves: a session is as old as the vault has been open
\* and as idle as the user has been quiet, never idle for longer than it is
\* old, and has no timers once it is locked.
IInv == TypeOK /\ CapCountsFromUnlock /\ IdleCountsFromLastUse

\* Each rule returns a session of the right type that is no older, and only a
\* locked one has its age set back to zero.
LEMMA RulesType ==
  ASSUME NEW s \in Session, s.idle <= s.age, ~s.unlocked => s = ClosedSession,
         NEW r \in {Polled(s), ClosedSession} \cup {Noted(s, i) : i \in Interaction}
                       \cup {Extended(s, ExtendFactors, p) : p \in Proofs}
  PROVE  /\ r \in Session
         /\ r.idle <= r.age
         /\ ~r.unlocked => r = ClosedSession
         /\ r.unlocked => s.unlocked /\ r.age = s.age
  <1>1. r \in {s, ClosedSession, Touched(s)} /\ (r = Touched(s) /\ r # s => s.unlocked)
    <2>1. \A i : Noted(s, i) = s \/ (Noted(s, i) = Touched(s) /\ s.unlocked)
      BY DEF Noted
    <2>2. \A p : \/ Extended(s, ExtendFactors, p) \in {s, ClosedSession}
                 \/ Extended(s, ExtendFactors, p) = Touched(s) /\ s.unlocked
      BY DEF Extended
    <2>3. Polled(s) \in {s, ClosedSession}
      BY DEF Polled
    <2> QED
      BY <2>1, <2>2, <2>3
  <1>2. CASE r = s
    BY <1>2 DEF Session
  <1>3. CASE r = ClosedSession
    BY <1>3 DEF Session, ClosedSession
  <1>4. CASE r = Touched(s) /\ s.unlocked
    BY <1>4 DEF Session, Touched
  <1> QED
    BY <1>1, <1>2, <1>3, <1>4

\* What a rule does to the idle clock: activity and a granted extension clear
\* it, anything else that leaves the session open leaves it alone.
LEMMA RulesIdle ==
  ASSUME NEW s \in Session
  PROVE  /\ \A i \in Interaction : Noted(s, i).unlocked =>
              Noted(s, i).idle = IF i \in UserActivity THEN 0 ELSE s.idle
         /\ \A p \in Proofs : Extended(s, ExtendFactors, p).unlocked =>
              Extended(s, ExtendFactors, p).idle =
                IF IsSatisfied(ExtendFactors, p) THEN 0 ELSE s.idle
         /\ Polled(s).unlocked => Polled(s).idle = s.idle
  <1>1. Touched(s).idle = 0 /\ Touched(s).unlocked = s.unlocked
    BY DEF Touched, Session
  <1>2. ~ClosedSession.unlocked
    BY DEF ClosedSession
  <1> QED
    BY <1>1, <1>2 DEF Noted, Extended, Polled

\* Every operation preserves the invariant.
LEMMA StepInv == IInv /\ [Next]_vars => IInv'
  <1> SUFFICES ASSUME IInv, [Next]_vars PROVE IInv'
    OBVIOUS
  <1> USE DEF IInv, TypeOK, CapCountsFromUnlock, IdleCountsFromLastUse
  <1>1. ASSUME NEW r \in {Polled(sess), ClosedSession}
                    \cup {Noted(sess, i) : i \in Interaction}
                    \cup {Extended(sess, ExtendFactors, p) : p \in Proofs},
               NEW used \in BOOLEAN,
               r.unlocked => r.idle = IF used THEN 0 ELSE sess.idle,
               Becomes(r, used), renewals' \in SUBSET SUBSET FactorKind
        PROVE  IInv'
    <2>1. /\ r \in Session
          /\ r.idle <= r.age
          /\ ~r.unlocked => r = ClosedSession
          /\ r.unlocked => sess.unlocked /\ r.age = sess.age
      BY <1>1, RulesType
    <2> QED
      BY <1>1, <2>1 DEF Becomes
  <1>2. ASSUME NEW kind \in FactorKind, Unlock(kind) PROVE IInv'
    BY <1>2 DEF Unlock, OpenedSession, Session
  <1>3. ASSUME NEW i \in Interaction, Interact(i) PROVE IInv'
    <2> DEFINE used == i \in UserActivity
    <2>1. Noted(sess, i).unlocked =>
            Noted(sess, i).idle = IF used THEN 0 ELSE sess.idle
      BY RulesIdle
    <2>2. Becomes(Noted(sess, i), used) /\ renewals' \in SUBSET SUBSET FactorKind
      BY <1>3 DEF Interact
    <2>3. used \in BOOLEAN
      OBVIOUS
    <2> HIDE DEF used
    <2> QED
      BY <1>1, <2>1, <2>2, <2>3
  <1>4. CASE Poll
    <2>1. Polled(sess).unlocked => Polled(sess).idle = sess.idle
      BY RulesIdle
    <2>2. Becomes(Polled(sess), FALSE) /\ renewals' \in SUBSET SUBSET FactorKind
      BY <1>4 DEF Poll
    <2> QED
      BY <1>1, <2>1, <2>2
  <1>5. CASE Lock
    <2>1. ~ClosedSession.unlocked
      BY DEF ClosedSession
    <2>2. Becomes(ClosedSession, FALSE) /\ renewals' \in SUBSET SUBSET FactorKind
      BY <1>5 DEF Lock
    <2> QED
      BY <1>1, <2>1, <2>2
  <1>6. ASSUME NEW shown \in Proofs, TryExtend(shown) PROVE IInv'
    <2> DEFINE s == Extended(sess, ExtendFactors, shown)
               granted == s.unlocked /\ IsSatisfied(ExtendFactors, shown)
    <2>1. {shown[n] : n \in DOMAIN shown} \subseteq FactorKind
      BY CallerAssumption
    <2>2. Becomes(s, granted) /\ renewals' \in SUBSET SUBSET FactorKind
      BY <1>6, <2>1 DEF TryExtend
    <2>3. s.unlocked => s.idle = IF granted THEN 0 ELSE sess.idle
      BY RulesIdle
    <2>4. granted \in BOOLEAN
      BY <2>1 DEF IsSatisfied
    <2> HIDE DEF granted
    <2> QED
      BY <1>1, <2>2, <2>3, <2>4
  <1>7. CASE Pass
    <2>1. CASE sess.unlocked
      <3>1. /\ sess' = [sess EXCEPT !.age = @ + 1, !.idle = @ + 1]
            /\ held' = held + 1 /\ quiet' = quiet + 1
            /\ UNCHANGED <<openedWith, renewals>>
        BY <1>7, <2>1 DEF Pass, Aged
      <3>2. /\ sess' = [unlocked |-> TRUE, age |-> sess.age + 1, idle |-> sess.idle + 1]
            /\ sess.age \in Nat /\ sess.idle \in Nat
        BY <2>1, <3>1 DEF Session
      <3>3. sess' \in Session /\ sess'.unlocked /\ sess'.idle <= sess'.age
        BY <3>2 DEF Session
      <3>4. sess'.age = held' /\ sess'.idle = quiet'
        BY <2>1, <3>1, <3>2
      <3>5. held' \in Nat /\ quiet' \in Nat
        BY <3>1
      <3> QED
        BY <3>1, <3>3, <3>4, <3>5
    <2>2. CASE ~sess.unlocked
      BY <1>7, <2>2 DEF Pass, Aged
    <2> QED
      BY <2>1, <2>2
  <1>8. CASE UNCHANGED vars
    BY <1>8 DEF vars
  <1> QED
    BY <1>2, <1>3, <1>4, <1>5, <1>6, <1>7, <1>8 DEF Next

\* The invariant holds in every reachable state.
LEMMA Invariance == Spec => []IInv
  <1>1. Init => IInv
    BY DEF Init, IInv, TypeOK, CapCountsFromUnlock, IdleCountsFromLastUse,
           ClosedSession, Session, FactorKind
  <1> QED
    BY <1>1, StepInv, PTL DEF Spec

\* Session values keep their type and a locked session keeps no timers
\* (session.rs:98-104, 154-160).
THEOREM TypeCorrect == Spec => []TypeOK
  <1>1. IInv => TypeOK
    BY DEF IInv
  <1> QED
    BY Invariance, <1>1, PTL

\* No activity and no extension ever moves the origin of the hard cap
\* (session.rs:136-141, 216-239).
THEOREM CapOriginIsFixed == Spec => []CapCountsFromUnlock
  <1>1. IInv => CapCountsFromUnlock
    BY DEF IInv
  <1> QED
    BY Invariance, <1>1, PTL

\* Whatever is pressed and however often the application ticks, the idle clock
\* counts from genuine use (session.rs:84-95, 146-152, 233-238).
THEOREM IdleOriginIsUse == Spec => []IdleCountsFromLastUse
  <1>1. IInv => IdleCountsFromLastUse
    BY DEF IInv
  <1> QED
    BY Invariance, <1>1, PTL

\* The countdown always agrees with what the next poll will do, whichever of
\* the two deadlines is the nearer (session.rs:182-214).
THEOREM CountdownIsHonest == Spec => []CountdownMatchesPoll
  <1>1. IInv => CountdownMatchesPoll
    <2> SUFFICES ASSUME IInv, sess.unlocked,
                        NEW n, n = LockSecondsRemaining(sess)
                 PROVE  /\ n > 0 => PollResult(Aged(sess, n * Second - 1)) = "Active"
                        /\ PollResult(Aged(sess, (n + 1) * Second)) = "JustLocked"
      BY DEF CountdownMatchesPoll
    <2> DEFINE i == SecondsLeft(IdleTimeout, sess.idle)
               m == SecondsLeft(MaxSession, sess.age)
    <2>t. sess \in Session /\ sess.idle \in Nat /\ sess.age \in Nat
      BY DEF IInv, TypeOK, Session
    <2>1. n = Lesser(i, m)
      BY DEF LockSecondsRemaining, SessionSecondsRemaining
    <2>2. /\ i \in Nat
          /\ i * Second \in Nat /\ (i + 1) * Second \in Nat
          /\ i > 0 => sess.idle + i * Second <= IdleTimeout
          /\ IdleTimeout < sess.idle + (i + 1) * Second
      BY <2>t, WholeSeconds, SessionAssumption
    <2>3. /\ m \in Nat
          /\ m * Second \in Nat /\ (m + 1) * Second \in Nat
          /\ m > 0 => sess.age + m * Second <= MaxSession
          /\ MaxSession < sess.age + (m + 1) * Second
      BY <2>t, WholeSeconds, SessionAssumption
    <2> HIDE DEF i, m
    <2>4. n \in Nat /\ n <= i /\ n <= m /\ (n = i \/ n = m)
      BY <2>1, <2>2, <2>3 DEF Lesser
    <2>5. /\ n * Second \in Nat
          /\ n * Second <= i * Second /\ n * Second <= m * Second
      BY <2>2, <2>3, <2>4, ProductGrows, SessionAssumption
    <2>6. \A d \in Int : /\ Aged(sess, d).unlocked
                         /\ Aged(sess, d).age = sess.age + d
                         /\ Aged(sess, d).idle = sess.idle + d
      BY <2>t DEF Aged, Session
    <2>7. ASSUME n > 0 PROVE PollResult(Aged(sess, n * Second - 1)) = "Active"
      <3> DEFINE d == n * Second - 1
      <3>1. /\ sess.idle + n * Second <= IdleTimeout
            /\ sess.age + n * Second <= MaxSession
        BY <2>2, <2>3, <2>4, <2>5, <2>7, <2>t, SessionAssumption
      <3>2. d \in Int /\ sess.idle + d < IdleTimeout /\ sess.age + d < MaxSession
        BY <3>1, <2>5, <2>t, SessionAssumption
      <3> HIDE DEF d
      <3>3. PollResult(Aged(sess, d)) = "Active"
        BY <3>2, <2>6, <2>t, SessionAssumption DEF PollResult, Expired
      <3> QED
        BY <3>3 DEF d
    <2>8. PollResult(Aged(sess, (n + 1) * Second)) = "JustLocked"
      <3> DEFINE d == (n + 1) * Second
      <3>1. d \in Nat /\ (sess.idle + d >= IdleTimeout \/ sess.age + d >= MaxSession)
        BY <2>2, <2>3, <2>4, <2>t, SessionAssumption
      <3> HIDE DEF d
      <3>2. PollResult(Aged(sess, d)) = "JustLocked"
        BY <3>1, <2>6, <2>t DEF PollResult, Expired
      <3> QED
        BY <3>2 DEF d
    <2> QED
      BY <2>7, <2>8
  <1> QED
    BY Invariance, <1>1, PTL

\* Two distinct kinds cannot both be the one given.
LEMMA SomeOtherKind ==
  ASSUME NEW K, Cardinality(K) >= 2, NEW x
  PROVE  \E k \in K : k # x
  <1> SUFFICES ASSUME \A k \in K : k = x PROVE FALSE
    OBVIOUS
  <1>1. IsFiniteSet({x}) /\ Cardinality({x}) = 1
    BY FS_Singleton
  <1>2. K \in SUBSET {x}
    OBVIOUS
  <1>3. IsFiniteSet(K) /\ Cardinality(K) <= 1
    BY <1>1, <1>2, FS_Subset
  <1>4. Cardinality(K) \in Nat
    BY <1>3, FS_CardinalityType
  <1> QED
    BY <1>3, <1>4

\* A list of proofs names finitely many kinds.
LEMMA KindsAreFinite ==
  ASSUME NEW shown \in Seq(FactorKind)
  PROVE  IsFiniteSet({shown[n] : n \in DOMAIN shown})
  <1>1. IsFiniteSet(FactorKind)
    <2>1. IsFiniteSet({"Passcode"})
      BY FS_Singleton
    <2>2. IsFiniteSet({"Passcode"} \cup {"Biometric"})
      BY <2>1, FS_AddElement
    <2>3. IsFiniteSet({"Passcode", "Biometric"} \cup {"Passkey"})
      <3>1. {"Passcode"} \cup {"Biometric"} = {"Passcode", "Biometric"}
        OBVIOUS
      <3> QED
        BY <2>2, <3>1, FS_AddElement
    <2>4. IsFiniteSet({"Passcode", "Biometric", "Passkey"} \cup {"Voice"})
      <3>1. {"Passcode", "Biometric"} \cup {"Passkey"} = {"Passcode", "Biometric", "Passkey"}
        OBVIOUS
      <3> QED
        BY <2>3, <3>1, FS_AddElement
    <2>5. FactorKind = {"Passcode", "Biometric", "Passkey"} \cup {"Voice"}
      BY DEF FactorKind
    <2> QED
      BY <2>4, <2>5
  <1>2. {shown[n] : n \in DOMAIN shown} \subseteq FactorKind
    OBVIOUS
  <1> QED
    BY <1>1, <1>2, FS_Subset

\* Under every policy of two or more extension factors, and for every list of
\* proofs, repetitions included, no extension is granted on the unlocking factor
\* alone, whatever was granted before it (auth/mod.rs:95-123, session.rs:219-239).
THEOREM ExtensionIsDistinct == Spec => []ExtensionFactorIsDistinct
  <1>1. Init => ExtensionFactorIsDistinct
    BY DEF Init, ExtensionFactorIsDistinct
  <1>2. ExtensionFactorIsDistinct /\ [Next]_vars => ExtensionFactorIsDistinct'
    <2> SUFFICES ASSUME ExtensionFactorIsDistinct, [Next]_vars
                 PROVE  ExtensionFactorIsDistinct'
      OBVIOUS
    <2>1. ASSUME UNCHANGED <<openedWith, renewals>> PROVE ExtensionFactorIsDistinct'
      BY <2>1 DEF ExtensionFactorIsDistinct
    <2>2. ASSUME NEW kind \in FactorKind, Unlock(kind) PROVE ExtensionFactorIsDistinct'
      BY <2>2 DEF Unlock, ExtensionFactorIsDistinct
    <2>3. ASSUME NEW i \in Interaction, Interact(i) PROVE ExtensionFactorIsDistinct'
      BY <2>3, <2>1 DEF Interact, Becomes
    <2>4. CASE Poll \/ Lock \/ Pass
      BY <2>4, <2>1 DEF Poll, Lock, Pass, Becomes
    <2>5. ASSUME NEW shown \in Proofs, TryExtend(shown) PROVE ExtensionFactorIsDistinct'
      <3> DEFINE kinds == {shown[n] : n \in DOMAIN shown}
                 granted == /\ Extended(sess, ExtendFactors, shown).unlocked
                            /\ IsSatisfied(ExtendFactors, shown)
      <3>1. /\ openedWith' = openedWith
            /\ renewals' = IF granted THEN renewals \cup {kinds} ELSE renewals
        BY <2>5 DEF TryExtend, Becomes
      <3>2. CASE granted
        <4> SUFFICES ASSUME ExtendFactors >= 2
                     PROVE  \A ks \in renewals' : \E k \in ks : k # openedWith'
          BY DEF ExtensionFactorIsDistinct
        <4>1. Required(ExtendFactors) = ExtendFactors
          BY CallerAssumption DEF Required
        <4>2. Cardinality(kinds) >= ExtendFactors
          BY <3>2, <4>1 DEF IsSatisfied
        <4>3. \E k \in kinds : k # openedWith
          <5>1. IsFiniteSet(kinds)
            BY KindsAreFinite, CallerAssumption
          <5>2. Cardinality(kinds) \in Nat
            BY <5>1, FS_CardinalityType
          <5>3. Cardinality(kinds) >= 2
            BY <4>2, <5>2, CallerAssumption
          <5> HIDE DEF kinds
          <5> QED
            BY <5>3, SomeOtherKind
        <4> HIDE DEF kinds, granted
        <4> QED
          BY <3>1, <3>2, <4>3 DEF ExtensionFactorIsDistinct
      <3>3. CASE ~granted
        BY <2>1, <3>1, <3>3
      <3> QED
        BY <3>2, <3>3
    <2>6. CASE UNCHANGED vars
      BY <2>6, <2>1 DEF vars
    <2> QED
      BY <2>2, <2>3, <2>4, <2>5, <2>6 DEF Next
  <1> QED
    BY <1>1, <1>2, PTL DEF Spec

-----------------------------------------------------------------------------
(* The session is used as SessionTimers has it *)

\* What the caller has collected is a list of proofs the gates may see.
Collected == proofs \in Proofs

LEMMA CollectedHolds == FactorsSpec => []Collected
  <1>1. FactorsInit => Collected
    BY FactorsAssumption DEF FactorsInit, Collected
  <1>2. Collected /\ [FactorsNext]_allvars => Collected'
    <2> SUFFICES ASSUME Collected, [FactorsNext]_allvars PROVE Collected'
      OBVIOUS
    <2>1. ASSUME NEW kind, Collects(kind) PROVE proofs' \in Proofs
      BY <2>1 DEF Collects
    <2>2. ASSUME NEW passcode, Submits(passcode) PROVE proofs' = proofs
      BY <2>2 DEF Submits
    <2>3. ASSUME NEW digits, SetsChallengeDigits(digits) PROVE proofs' = proofs
      BY <2>3 DEF SetsChallengeDigits
    <2>4. ASSUME NEW u, VerifiesVoice(u) PROVE proofs' \in Proofs
      BY <2>1, <2>4 DEF VerifiesVoice
    <2>5. CASE VerifiesPasscode
      BY <2>1, <2>5 DEF VerifiesPasscode, Collected
    <2>6. CASE Opens \/ Extends
      BY <2>6, FactorsAssumption DEF Opens, Extends, Collected
    <2>7. CASE SessionStep
      BY <2>7 DEF SessionStep, Collected
    <2>8. CASE UNCHANGED allvars
      BY <2>8 DEF allvars, Collected
    <2> QED
      BY <2>2, <2>3, <2>4, <2>5, <2>6, <2>7, <2>8 DEF FactorsNext, Collected
  <1> QED
    BY <1>1, <1>2, PTL DEF FactorsSpec

\* Whoever collects proofs and presents them at the gates uses the session the
\* way SessionTimers allows (auth/mod.rs:95-123, session.rs:219-239).
THEOREM FactorsUseTheSession == FactorsSpec => Spec
  <1>1. FactorsInit => Init
    BY DEF FactorsInit
  <1>2. Collected /\ [FactorsNext]_allvars => [Next]_vars
    <2> SUFFICES ASSUME Collected, FactorsNext PROVE [Next]_vars
      BY DEF allvars, vars
    <2>1. ASSUME NEW passcode, Submits(passcode) PROVE UNCHANGED vars
      BY <2>1 DEF Submits
    <2>2. ASSUME NEW digits, SetsChallengeDigits(digits) PROVE UNCHANGED vars
      BY <2>2 DEF SetsChallengeDigits
    <2>3. ASSUME NEW u, VerifiesVoice(u) PROVE UNCHANGED vars
      BY <2>3 DEF VerifiesVoice
    <2>4. CASE VerifiesPasscode
      BY <2>4 DEF VerifiesPasscode
    <2>5. CASE Opens
      <3>1. proofs[1] \in FactorKind
        BY <2>5, CallerAssumption DEF Opens, Collected
      <3> QED
        BY <2>5, <3>1 DEF Opens, Next
    <2>6. CASE Extends
      BY <2>6 DEF Extends, Collected, Next
    <2>7. CASE SessionStep
      BY <2>7 DEF SessionStep, Next
    <2> QED
      BY <2>1, <2>2, <2>3, <2>4, <2>5, <2>6, <2>7 DEF FactorsNext
  <1> QED
    BY <1>1, <1>2, CollectedHolds, PTL DEF FactorsSpec, Spec

\* With any factors, the cap is measured from the unlock (session.rs:19-20).
COROLLARY CapWithFactors == FactorsSpec => []CapCountsFromUnlock
  BY FactorsUseTheSession, CapOriginIsFixed

\* With any factors, the idle clock counts from the last use or granted
\* extension (session.rs:146-152, 233-238).
COROLLARY IdleWithFactors == FactorsSpec => []IdleCountsFromLastUse
  BY FactorsUseTheSession, IdleOriginIsUse

\* With any factors, the countdown brackets the moment poll locks
\* (session.rs:182-214).
COROLLARY CountdownWithFactors == FactorsSpec => []CountdownMatchesPoll
  BY FactorsUseTheSession, CountdownIsHonest

\* Whatever a caller collects, repeats and presents, under a policy of two or
\* more extension factors each extension it is granted rests on a factor other
\* than the unlocking one (auth/mod.rs:95-123).
COROLLARY DistinctWithFactors == FactorsSpec => []ExtensionFactorIsDistinct
  BY FactorsUseTheSession, ExtensionIsDistinct

-----------------------------------------------------------------------------
(* The factors *)

\* Every passcode that still may prove something is one that was typed and has
\* not proved anything yet.
Pending == IF entered = Nothing THEN 0 ELSE 1
PasscodeInv == /\ typed \in Nat
               /\ given \in Nat
               /\ given + Pending <= typed

\* A passcode typed once proves its factor once, for every policy and any order
\* of calls (passcode.rs:69-86).
THEOREM PasscodesProveOnce == FactorsSpec => []SubmissionProvesOnce
  <1>1. FactorsInit => PasscodeInv
    BY DEF FactorsInit, PasscodeInv, Pending
  <1>2. PasscodeInv /\ [FactorsNext]_allvars => PasscodeInv'
    <2> SUFFICES ASSUME PasscodeInv, [FactorsNext]_allvars PROVE PasscodeInv'
      OBVIOUS
    <2>t. typed \in Nat /\ given \in Nat /\ given + Pending <= typed /\ Pending \in {0, 1}
      BY DEF PasscodeInv, Pending
    <2>1. ASSUME UNCHANGED <<entered, typed, given>> PROVE PasscodeInv'
      BY <2>1 DEF PasscodeInv, Pending
    <2>2. ASSUME NEW passcode, Submits(passcode) PROVE PasscodeInv'
      BY <2>2, <2>t DEF Submits, PasscodeInv, Pending
    <2>3. CASE VerifiesPasscode
      <3>1. CASE entered = "right" /\ phc = "set"
        <4>1. entered # Nothing /\ Wiped = Nothing
          BY <3>1, FactorsAssumption DEF Wiped
        <4>2. entered' = Nothing /\ given' = given + 1 /\ typed' = typed
          BY <2>3, <3>1, <4>1 DEF VerifiesPasscode
        <4> QED
          BY <4>1, <4>2, <2>t DEF PasscodeInv, Pending
      <3>2. CASE ~(entered = "right" /\ phc = "set")
        <4>1. given' = given /\ typed' = typed /\ entered' \in {entered, Nothing}
          BY <2>3, <3>2 DEF VerifiesPasscode, Wiped
        <4> QED
          BY <4>1, <2>t DEF PasscodeInv, Pending
      <3> QED
        BY <3>1, <3>2
    <2>4. ASSUME NEW digits, SetsChallengeDigits(digits) PROVE PasscodeInv'
      BY <2>4, <2>1 DEF SetsChallengeDigits
    <2>5. ASSUME NEW u, VerifiesVoice(u) PROVE PasscodeInv'
      BY <2>5, <2>1 DEF VerifiesVoice
    <2>6. CASE Opens \/ Extends \/ SessionStep
      BY <2>6, <2>1 DEF Opens, Extends, SessionStep, factors
    <2>7. CASE UNCHANGED allvars
      BY <2>7, <2>1 DEF allvars, factors
    <2> QED
      BY <2>2, <2>3, <2>4, <2>5, <2>6, <2>7 DEF FactorsNext
  <1>3. PasscodeInv => SubmissionProvesOnce
    BY DEF PasscodeInv, Pending, SubmissionProvesOnce
  <1> QED
    BY <1>1, <1>2, <1>3, PTL DEF FactorsSpec

\* The challenge in force is the one put last.
VoiceInv == /\ asked \in Seq(Digits)
            /\ expected = IF asked = <<>> THEN Nothing ELSE asked[Len(asked)]
            /\ ~fooled

\* No recording of an answer to an earlier challenge proves anything, for any
\* number of challenges (voice.rs:3-5, 130-147).
THEOREM OldRecordingsAreRefused == FactorsSpec => []RecordingsGoStale
  <1>1. FactorsInit => VoiceInv
    BY DEF FactorsInit, VoiceInv
  <1>2. VoiceInv /\ [FactorsNext]_allvars => VoiceInv'
    <2> SUFFICES ASSUME VoiceInv, [FactorsNext]_allvars PROVE VoiceInv'
      OBVIOUS
    <2>1. ASSUME UNCHANGED <<expected, asked, fooled>> PROVE VoiceInv'
      BY <2>1 DEF VoiceInv
    <2>2. ASSUME NEW digits \in Digits, SetsChallengeDigits(digits) PROVE VoiceInv'
      <3>1. /\ asked' = Append(asked, digits)
            /\ expected' = digits
            /\ fooled' = fooled
        BY <2>2 DEF SetsChallengeDigits, Challenged
      <3>2. /\ asked' \in Seq(Digits)
            /\ asked' # <<>>
            /\ asked'[Len(asked')] = digits
        BY <3>1 DEF VoiceInv
      <3> QED
        BY <3>1, <3>2 DEF VoiceInv
    <2>3. ASSUME NEW u, VerifiesVoice(u) PROVE VoiceInv'
      <3>1. voice = "Challenge" => u.digits = asked[Len(asked)]
        BY <2>3 DEF VerifiesVoice, ChecksDigits, VoiceInv
      <3>2. ~fooled' /\ UNCHANGED <<expected, asked>>
        BY <2>3, <3>1 DEF VerifiesVoice, VoiceInv
      <3> QED
        BY <3>2 DEF VoiceInv
    <2>4. ASSUME NEW passcode, Submits(passcode) PROVE VoiceInv'
      BY <2>4, <2>1 DEF Submits
    <2>5. CASE VerifiesPasscode
      BY <2>5, <2>1 DEF VerifiesPasscode
    <2>6. CASE Opens \/ Extends \/ SessionStep
      BY <2>6, <2>1 DEF Opens, Extends, SessionStep, factors
    <2>7. CASE UNCHANGED allvars
      BY <2>7, <2>1 DEF allvars, factors
    <2> QED
      BY <2>2, <2>3, <2>4, <2>5, <2>6, <2>7 DEF FactorsNext
  <1>3. VoiceInv => RecordingsGoStale
    BY DEF VoiceInv, RecordingsGoStale
  <1> QED
    BY <1>1, <1>2, <1>3, PTL DEF FactorsSpec
=============================================================================
