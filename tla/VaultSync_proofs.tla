-------------------------- MODULE VaultSync_proofs --------------------------
(***************************************************************************)
(* What reconciling through the server guarantees for any number of        *)
(* devices, ids, passwords and accounts, and any order of requests,        *)
(* losses, late answers and crashes.                                       *)
(***************************************************************************)
EXTENDS VaultSync, VaultContents_proofs, FiniteSetTheorems

-----------------------------------------------------------------------------
(* The state as the arguments see it *)

\* The pushes that may still reach the server, late or waited for.
Waiting == {d \in Device : sync[d].phase = "wait"}
Pushes  == late \cup {sync[d].push : d \in Waiting}

\* The list a device that is syncing has merged so far.
Busy(d) == sync[d] # Idle
InHand(d) == IF sync[d].phase = "wait" THEN sync[d].push.blob.list
             ELSE IF sync[d].phase = "retry" THEN sync[d].working.list
             ELSE sync[d].list

-----------------------------------------------------------------------------
(* The steps, by what they do to the lists and to the server *)

\* Nothing but syncs that end or are refused, and a device's id.
QuietStep == /\ UNCHANGED <<vault, server, history>>
             /\ Pushes' \subseteq Pushes
             /\ \A d \in Device :
                   /\ Busy(d)' => Busy(d) /\ InHand(d)' = InHand(d)
                   /\ sync'[d].phase = "ok" => sync'[d] = sync[d]

\* An account is enrolled, or a counter advanced.
EditStep(d) == \E list \in Seq(Account) :
                  /\ \/ \E account \in Enrollable : list = Append(vault[d], account)
                     \/ \E id \in Id : CanAdvance(vault[d], id) /\ list = Advanced(vault[d], id)
                  /\ Edit(d, list)

\* A device sends what merging the server's list into its own gives.
SendStep(d) == \E attempt \in 1 .. MaxAttempts, working \in Seq(Account), password \in Password :
                  /\ \/ /\ ~Busy(d) /\ working = vault[d]
                        /\ goal' = [goal EXCEPT ![d] =
                              IF \A e \in Device : round[e] >= 1 THEN 2 ELSE 1]
                     \/ Busy(d) /\ working = InHand(d) /\ goal' = goal
                  /\ PullAndPush(d, attempt, working, password)

\* The server takes a push, late or waited for.
AcceptStep == \E push \in Pushes :
                 /\ Accepts(push)
                 /\ UNCHANGED <<vault, history>>
                 /\ Pushes' \subseteq Pushes
                 /\ \A d \in Device :
                       /\ Busy(d)' => Busy(d) /\ InHand(d)' = InHand(d)
                       /\ sync'[d].phase = "ok" =>
                             sync'[d] = sync[d] \/ InHand(d)' = push.blob.list

\* The phase of a sync says which fields it has.
LEMMA SyncKinds ==
    ASSUME TypeOK, NEW d \in Device
    PROVE  /\ sync[d].phase = "wait" =>
                 /\ sync[d] \in [phase : {"wait"}, attempt : 1 .. MaxAttempts, push : Push]
                 /\ Busy(d)
           /\ sync[d].phase = "retry" =>
                 /\ sync[d] \in [phase : {"retry"}, attempt : 1 .. MaxAttempts, working : Blob]
                 /\ Busy(d)
           /\ sync[d].phase = "ok" =>
                 /\ sync[d] \in [phase : {"ok"}, list : Seq(Account), seen : Version]
                 /\ Busy(d)
           /\ Busy(d) => /\ sync[d].phase \in {"wait", "retry", "ok"}
                         /\ InHand(d) \in Seq(Account)
  <1>1. sync[d] \in SyncState
    BY DEF TypeOK
  <1>2. \/ sync[d] = Idle
        \/ sync[d] \in [phase : {"wait"}, attempt : 1 .. MaxAttempts, push : Push]
        \/ sync[d] \in [phase : {"retry"}, attempt : 1 .. MaxAttempts, working : Blob]
        \/ sync[d] \in [phase : {"ok"}, list : Seq(Account), seen : Version]
    BY <1>1 DEF SyncState
  <1>3. QED
    BY <1>2 DEF Idle, Busy, InHand, Push, Blob

\* Enrolling and advancing are edits.
LEMMA EditSteps ==
    ASSUME TypeOK, NEW d \in Device,
           \/ \E account \in Enrollable : Enroll(d, account)
           \/ \E id \in Id : Spend(d, id)
    PROVE  EditStep(d)
  <1>t. vault[d] \in Seq(Account)
    BY DEF TypeOK
  <1>1. ASSUME NEW account \in Enrollable, Enroll(d, account) PROVE EditStep(d)
    <2>1. Append(vault[d], account) \in Seq(Account)
      BY <1>t, SyncAssumption
    <2>2. QED
      BY <1>1, <2>1 DEF Enroll, EditStep
  <1>2. ASSUME NEW id \in Id, Spend(d, id) PROVE EditStep(d)
    <2>1. Advanced(vault[d], id) \in Seq(Account)
      BY <1>2, <1>t, AdvancedCountsOnce DEF Spend
    <2>2. QED
      BY <1>2, <2>1 DEF Spend, EditStep
  <1>3. QED
    BY <1>1, <1>2

\* Starting a sync and retrying one are sends.
LEMMA SendSteps ==
    ASSUME TypeOK, NEW d \in Device,
           (\E password \in Password : Begins(d, password)) \/ Retries(d)
    PROVE  SendStep(d)
  <1>1. CASE \E password \in Password : Begins(d, password)
    BY <1>1, SyncAssumption DEF TypeOK, Begins, SendStep, Busy
  <1>2. CASE Retries(d)
    <2>1. /\ sync[d].attempt \in 1 .. MaxAttempts
          /\ sync[d].working.list \in Seq(Account)
          /\ sync[d].working.password \in Password
          /\ Busy(d) /\ InHand(d) = sync[d].working.list
      BY <1>2, SyncKinds DEF Retries, Busy, InHand, Blob
    <2>2. /\ goal' = goal
          /\ PullAndPush(d, sync[d].attempt, sync[d].working.list, sync[d].working.password)
      BY <1>2 DEF Retries
    <2>3. QED
      BY <2>1, <2>2 DEF SendStep
  <1>3. QED
    BY <1>1, <1>2

\* Every step is of one of these kinds.
LEMMA SyncSteps ==
    ASSUME TypeOK, [Next]_vars
    PROVE  \/ QuietStep \/ AcceptStep
           \/ \E d \in Device : EditStep(d) \/ SendStep(d) \/ HearsOk(d)
  <1>t. /\ vault \in [Device -> Seq(Account)] /\ sync \in [Device -> SyncState]
        /\ late \in SUBSET Push
    BY DEF TypeOK
  <1>1. ASSUME UNCHANGED vars PROVE QuietStep
    BY <1>1 DEF vars, server, history, QuietStep, Pushes, Waiting, Busy, InHand
  <1>2. ASSUME NEW d \in Device,
               \/ \E account \in Enrollable : Enroll(d, account)
               \/ \E id \in Id : Spend(d, id)
        PROVE  EditStep(d)
    BY <1>2, EditSteps
  <1>3. ASSUME NEW d \in Device,
               (\E password \in Password : Begins(d, password)) \/ Retries(d)
        PROVE  SendStep(d)
    BY <1>3, SendSteps
  <1>4. ASSUME NEW d \in Device, StartsUnderNewId(d) PROVE QuietStep
    BY <1>4 DEF StartsUnderNewId, server, history, QuietStep, Pushes, Waiting,
                Busy, InHand
  <1>7. ASSUME NEW d \in Device, NEW password \in Password, StopsAtPull(d, password)
        PROVE  QuietStep
    BY <1>7, <1>1 DEF StopsAtPull
  <1>8. ASSUME NEW d \in Device, ServerAccepts(d) PROVE AcceptStep
    <2>1. /\ sync[d].push \in Pushes /\ Accepts(sync[d].push)
          /\ sync' = [sync EXCEPT ![d] = [phase |-> "ok",
                         list |-> sync[d].push.blob.list, seen |-> version']]
          /\ late' \subseteq late
          /\ UNCHANGED <<vault, history>>
      BY <1>8, <1>t DEF ServerAccepts, Pushes, Waiting, Pending
    <2>2. \A e \in Device : e # d => sync'[e] = sync[e]
      BY <1>t, <2>1
    <2>3. /\ sync'[d].phase = "ok" /\ InHand(d)' = sync[d].push.blob.list
          /\ InHand(d) = sync[d].push.blob.list /\ Busy(d)
      BY <1>8, <1>t, <2>1, SyncKinds DEF ServerAccepts, InHand, Busy
    <2>4. Pushes' \subseteq Pushes
      BY <2>1, <2>2, <2>3 DEF Pushes, Waiting
    <2>5. \A e \in Device :
             /\ Busy(e)' => Busy(e) /\ InHand(e)' = InHand(e)
             /\ sync'[e].phase = "ok" =>
                   sync'[e] = sync[e] \/ InHand(e)' = sync[d].push.blob.list
      BY <2>2, <2>3 DEF Busy, InHand
    <2>6. QED
      BY <2>1, <2>4, <2>5 DEF AcceptStep
  <1>9. ASSUME NEW d \in Device, ServerRefuses(d) PROVE QuietStep
    <2>1. /\ sync' = [sync EXCEPT ![d] = [phase |-> "retry",
                         attempt |-> sync[d].attempt + 1, working |-> sync[d].push.blob]]
          /\ UNCHANGED <<vault, late, server, history>>
      BY <1>9, <1>t DEF ServerRefuses
    <2>2. \A e \in Device : e # d => sync'[e] = sync[e]
      BY <1>t, <2>1
    <2>3. /\ sync'[d].phase = "retry" /\ InHand(d)' = sync[d].push.blob.list
          /\ InHand(d) = sync[d].push.blob.list /\ Busy(d)
      BY <1>9, <1>t, <2>1, SyncKinds DEF ServerRefuses, InHand, Busy
    <2>4. Pushes' \subseteq Pushes
      BY <2>1, <2>2, <2>3 DEF Pushes, Waiting
    <2>5. \A e \in Device :
             /\ Busy(e)' => Busy(e) /\ InHand(e)' = InHand(e)
             /\ sync'[e].phase = "ok" => sync'[e] = sync[e]
      BY <2>2, <2>3 DEF Busy, InHand
    <2>6. QED
      BY <2>1, <2>4, <2>5 DEF QuietStep
  <1>10. ASSUME NEW d \in Device, GivesUp(d) PROVE QuietStep
    <2>1. /\ sync' = [sync EXCEPT ![d] = Idle]
          /\ UNCHANGED <<vault, server, history>>
          /\ late' \subseteq Pushes
      BY <1>10 DEF GivesUp, Pushes, Waiting, Pending
    <2>2. \A e \in Device : e # d => sync'[e] = sync[e]
      BY <1>t, <2>1
    <2>3. sync'[d] = Idle /\ sync'[d].phase = "idle"
      BY <1>t, <2>1 DEF Idle
    <2>4. Pushes' \subseteq Pushes
      BY <2>1, <2>2, <2>3 DEF Pushes, Waiting
    <2>5. \A e \in Device :
             /\ Busy(e)' => Busy(e) /\ InHand(e)' = InHand(e)
             /\ sync'[e].phase = "ok" => sync'[e] = sync[e]
      BY <2>2, <2>3 DEF Busy, InHand
    <2>6. QED
      BY <2>1, <2>4, <2>5 DEF QuietStep
  <1>11. ASSUME NEW push \in late, LateAccepted(push) PROVE AcceptStep
    BY <1>11 DEF LateAccepted, AcceptStep, Pushes, Waiting, Busy, InHand, Pending
  <1>12. QED
    BY <1>1, <1>2, <1>3, <1>4, <1>7, <1>8, <1>9, <1>10, <1>11 DEF Next

-----------------------------------------------------------------------------
(* Types, and what a push that is still on its way is based on *)

\* The version only grows, so a push is based on one the server has had, one
\* that was well-formed; while the server is still at it, the push carries the
\* password of the list it would replace.
PushesAreBased ==
    \A push \in Pushes :
        /\ Dominates(version, push.base_version)
        /\ WellFormed(push.base_version)
        /\ push.base_version = version /\ blob # None =>
              push.blob.password = blob.password

\* What every argument below starts from.
SyncInv == TypeOK /\ PushesAreBased

\* Pushes have their type.
LEMMA PushesAreTyped ==
    ASSUME TypeOK
    PROVE  \A push \in Pushes : push \in Push
  BY DEF TypeOK, Pushes, Waiting, SyncState, Idle

\* A push is accepted only at the version it is based on, and moves the
\* server to one that no push on its way is based on.
LEMMA AcceptedIsCurrent ==
    ASSUME SyncInv, NEW push \in Pushes, Accepts(push)
    PROVE  /\ push.base_version = version
           /\ version' \in Version
           /\ \A other \in Pushes :
                 /\ Dominates(version', other.base_version)
                 /\ other.base_version # version'
  <1>1. /\ push.base_version \in Version /\ version \in Version
        /\ push.device_id \in DeviceId
        /\ \A other \in Pushes : other.base_version \in Version
    BY PushesAreTyped DEF SyncInv, TypeOK, Push
  <1>2. /\ \A i \in DeviceId : push.base_version[i] >= version[i]
        /\ \A other \in Pushes : \A i \in DeviceId : version[i] >= other.base_version[i]
    BY DEF SyncInv, PushesAreBased, Accepts, Dominates
  <1>3. push.base_version = version
    <2>1. \A i \in DeviceId : push.base_version[i] = version[i]
      BY <1>1, <1>2, SyncAssumption DEF Version
    <2>2. QED
      BY <1>1, <2>1 DEF Version
  <1>4. version' = [version EXCEPT ![push.device_id] = version[push.device_id] + 1]
    BY <1>1, <1>3 DEF Accepts, Bumped, Version
  <1>5. version[push.device_id] + 1 \in 0 .. MaxPushes
    BY <1>1, SyncAssumption DEF Accepts, Version
  <1>6. version' \in Version
    BY <1>1, <1>4, <1>5 DEF Version
  <1>7. \A i \in DeviceId : version'[i] >= version[i]
    BY <1>1, <1>4, SyncAssumption DEF Version
  <1>8. ASSUME NEW other \in Pushes
        PROVE  Dominates(version', other.base_version) /\ other.base_version # version'
    <2>1. \A i \in DeviceId : /\ version'[i] \in Int /\ version[i] \in Int
                              /\ other.base_version[i] \in Int
      BY <1>1, <1>6, SyncAssumption DEF Version
    <2>2. \A i \in DeviceId : version'[i] >= other.base_version[i]
      BY <1>2, <1>7, <2>1
    <2>3. version'[push.device_id] > other.base_version[push.device_id]
      BY <1>1, <1>2, <1>4, <2>1 DEF Version
    <2>4. QED
      BY <1>1, <2>1, <2>2, <2>3 DEF Dominates
  <1>9. QED
    BY <1>3, <1>6, <1>8

\* Nothing is under way at first.
LEMMA SyncInit == Init => SyncInv
  <1> SUFFICES ASSUME Init PROVE SyncInv
    OBVIOUS
  <1>1. Idle \in SyncState
    BY DEF SyncState
  <1>2. version \in Version /\ acked \in [Id -> 0 .. MaxCounter + 1]
    BY SyncAssumption, CounterAssumption DEF Init, Version
  <1>3. TypeOK
    BY <1>1, <1>2 DEF Init, TypeOK
  <1>4. Pushes = {}
    BY DEF Init, Pushes, Waiting, Idle
  <1>5. QED
    BY <1>3, <1>4 DEF SyncInv, PushesAreBased

\* What a merge gives is a list of accounts.
LEMMA PulledListIsTyped ==
    ASSUME TypeOK, NEW working, working \in Seq(Account)
    PROVE  PullMerged(working) \in Seq(Account)
  BY MergedKeepsBoth DEF TypeOK, Blob, PullMerged

\* Every step keeps the shape of the state.
LEMMA TypeStep == SyncInv /\ [Next]_vars => TypeOK'
  <1> SUFFICES ASSUME SyncInv, [Next]_vars PROVE TypeOK'
    OBVIOUS
  <1>t. TypeOK
    BY DEF SyncInv
  <1>1. CASE UNCHANGED vars
    BY <1>1, <1>t DEF vars, server, history, TypeOK
  <1>2. ASSUME NEW d \in Device, EditStep(d) PROVE TypeOK'
    <2>1. PICK list \in Seq(Account) : Edit(d, list)
      BY <1>2 DEF EditStep
    <2>2. QED
      BY <2>1, <1>t DEF Edit, server, TypeOK
  <1>3. ASSUME NEW d \in Device, StartsUnderNewId(d) PROVE TypeOK'
    BY <1>3, <1>t DEF StartsUnderNewId, server, history, TypeOK
  <1>4. ASSUME NEW d \in Device, SendStep(d) PROVE TypeOK'
    <2>1. PICK attempt \in 1 .. MaxAttempts, working \in Seq(Account),
               password \in Password :
             /\ Sends(d, attempt, working, password)
             /\ \/ goal' = goal
                \/ goal' = [goal EXCEPT ![d] =
                      IF \A e \in Device : round[e] >= 1 THEN 2 ELSE 1]
      BY <1>4 DEF SendStep, PullAndPush
    <2> DEFINE push == [device_id |-> deviceId[d],
                        blob |-> [list |-> PullMerged(working), password |-> password],
                        base_version |-> version]
               sent == [phase |-> "wait", attempt |-> attempt, push |-> push]
    <2>2. PullMerged(working) \in Seq(Account)
      BY <1>t, PulledListIsTyped
    <2>3. push \in Push
      BY <1>t, <2>2 DEF TypeOK, Push, Blob
    <2>4. sent \in SyncState
      <3> HIDE DEF push
      <3> QED BY <2>3 DEF SyncState
    <2>5. sync' = [sync EXCEPT ![d] = sent]
      BY <2>1 DEF Sends
    <2> HIDE DEF sent
    <2>6. sync' \in [Device -> SyncState]
      BY <1>t, <2>4, <2>5 DEF TypeOK
    <2>7. goal' \in [Device -> 1 .. 2]
      <3>1. goal \in [Device -> 1 .. 2]
        BY <1>t DEF TypeOK
      <3>2. (IF \A e \in Device : round[e] >= 1 THEN 2 ELSE 1) \in 1 .. 2
        OBVIOUS
      <3>3. QED
        BY <2>1, <3>1, <3>2
    <2>8. UNCHANGED <<vault, deviceId, late, blob, version, acked, round>>
      BY <2>1 DEF Sends, server
    <2>9. QED
      BY <1>t, <2>6, <2>7, <2>8 DEF TypeOK
  <1>5. ASSUME NEW d \in Device, ServerAccepts(d) PROVE TypeOK'
    <2>1. /\ sync[d].push \in Push /\ sync[d].push \in Pushes
          /\ Accepts(sync[d].push)
      BY <1>5, <1>t, SyncKinds DEF ServerAccepts, Pushes, Waiting
    <2>2. /\ version' \in Version /\ blob' \in Blob
          /\ sync[d].push.blob.list \in Seq(Account)
      BY <2>1, AcceptedIsCurrent DEF Accepts, Push, Blob
    <2>3. [phase |-> "ok", list |-> sync[d].push.blob.list, seen |-> version']
             \in SyncState
      BY <2>2 DEF SyncState
    <2>4. QED
      BY <1>5, <1>t, <2>2, <2>3 DEF ServerAccepts, TypeOK, Pending, history
  <1>6. ASSUME NEW d \in Device, ServerRefuses(d) PROVE TypeOK'
    <2>1. /\ sync[d].push.blob \in Blob
          /\ sync[d].attempt + 1 \in 1 .. MaxAttempts
      BY <1>6, <1>t, SyncAssumption
      DEF ServerRefuses, TypeOK, SyncState, Idle, Push
    <2>2. [phase |-> "retry", attempt |-> sync[d].attempt + 1,
           working |-> sync[d].push.blob] \in SyncState
      BY <2>1 DEF SyncState
    <2>3. QED
      BY <1>6, <1>t, <2>2 DEF ServerRefuses, TypeOK, server, history
  <1>7. ASSUME NEW push \in late, LateAccepted(push) PROVE TypeOK'
    <2>1. push \in Push /\ push \in Pushes /\ Accepts(push)
      BY <1>7, <1>t DEF LateAccepted, TypeOK, Pushes
    <2>2. version' \in Version /\ blob' \in Blob
      BY <2>1, AcceptedIsCurrent DEF Accepts, Push
    <2>3. QED
      BY <1>7, <1>t, <2>2 DEF LateAccepted, TypeOK, Pending, history
  <1>8. ASSUME NEW d \in Device, HearsOk(d) PROVE TypeOK'
    <2>1. sync[d].list \in Seq(Account)
      BY <1>8, <1>t, SyncKinds DEF HearsOk
    <2>2. \A id \in Id : Reach(sync[d].list, id) \in 0 .. MaxCounter + 1
      BY <2>1, CounterOfIsCounter, CounterAssumption DEF Reach
    <2>3. acked' \in [Id -> 0 .. MaxCounter + 1]
      BY <1>8, <1>t, <2>2 DEF HearsOk, TypeOK
    <2>4. /\ vault' \in [Device -> Seq(Account)]
          /\ sync' \in [Device -> SyncState]
          /\ round' \in [Device -> 0 .. 2]
      BY <1>8, <1>t, <2>1 DEF HearsOk, TypeOK, SyncState
    <2>5. QED
      BY <1>8, <1>t, <2>3, <2>4 DEF HearsOk, TypeOK, server
  <1>9. ASSUME NEW d \in Device, GivesUp(d) PROVE TypeOK'
    <2>1. late' \in SUBSET Push
      BY <1>9, <1>t DEF GivesUp, TypeOK, SyncState, Idle, Pending
    <2>2. sync' \in [Device -> SyncState]
      BY <1>9, <1>t DEF GivesUp, TypeOK, SyncState
    <2>3. QED
      BY <1>9, <1>t, <2>1, <2>2 DEF GivesUp, TypeOK, server, history
  <1>10. QED
    BY <1>1, <1>2, <1>3, <1>4, <1>5, <1>6, <1>7, <1>8, <1>9, <1>t,
       EditSteps, SendSteps
    DEF Next, StopsAtPull

\* Every step keeps pushes based on a version the server has had.
LEMMA PushStep == SyncInv /\ [Next]_vars => PushesAreBased'
  <1> SUFFICES ASSUME SyncInv, [Next]_vars PROVE PushesAreBased'
    OBVIOUS
  <1>t. TypeOK /\ PushesAreBased
    BY DEF SyncInv
  <1>1. CASE UNCHANGED server /\ Pushes' \subseteq Pushes
    BY <1>1, <1>t DEF server, PushesAreBased
  <1>2. CASE AcceptStep
    <2>1. PICK push \in Pushes : Accepts(push) /\ Pushes' \subseteq Pushes
      BY <1>2 DEF AcceptStep
    <2>2. \A other \in Pushes : /\ Dominates(version', other.base_version)
                                /\ other.base_version # version'
      BY <2>1, AcceptedIsCurrent
    <2>3. QED
      BY <1>t, <2>1, <2>2 DEF PushesAreBased
  <1>3. ASSUME NEW d \in Device, SendStep(d) PROVE PushesAreBased'
    <2>1. PICK attempt \in 1 .. MaxAttempts, working \in Seq(Account),
               password \in Password :
             PullAndPush(d, attempt, working, password)
      BY <1>3 DEF SendStep
    <2> DEFINE push == [device_id |-> deviceId[d],
                        blob |-> [list |-> PullMerged(working), password |-> password],
                        base_version |-> version]
    <2>2. /\ sync' = [sync EXCEPT ![d] =
                        [phase |-> "wait", attempt |-> attempt, push |-> push]]
          /\ UNCHANGED <<late, server>>
          /\ WellFormed(version) /\ Readable(password)
      BY <2>1 DEF PullAndPush, Sends
    <2>3. push.base_version = version /\ push.blob.password = password
      OBVIOUS
    <2> HIDE DEF push
    <2>4. \A e \in Device : e # d => sync'[e] = sync[e]
      BY <1>t, <2>2 DEF TypeOK
    <2>5. sync'[d].push = push
      BY <1>t, <2>2 DEF TypeOK
    <2>6. Pushes' \subseteq Pushes \cup {push}
      BY <2>2, <2>4, <2>5 DEF Pushes, Waiting
    <2>7. Dominates(version, version)
      BY <1>t, SyncAssumption DEF TypeOK, Version, Dominates
    <2>8. QED
      BY <1>t, <2>2, <2>3, <2>6, <2>7 DEF PushesAreBased, Readable, server
  <1>4. ASSUME NEW d \in Device, EditStep(d) PROVE PushesAreBased'
    <2>1. UNCHANGED <<sync, late, server>>
      BY <1>4 DEF EditStep, Edit
    <2>2. QED
      BY <1>t, <2>1 DEF PushesAreBased, Pushes, Waiting, server
  <1>5. ASSUME NEW d \in Device, HearsOk(d) PROVE PushesAreBased'
    <2>1. UNCHANGED <<late, server>> /\ sync' = [sync EXCEPT ![d] = Idle]
      BY <1>5 DEF HearsOk
    <2>2. \A e \in Device : e # d => sync'[e] = sync[e]
      BY <1>t, <2>1 DEF TypeOK
    <2>3. sync'[d].phase # "wait"
      BY <1>t, <2>1 DEF TypeOK, Idle
    <2>4. Pushes' \subseteq Pushes
      BY <2>1, <2>2, <2>3 DEF Pushes, Waiting
    <2>5. QED
      BY <1>1, <2>1, <2>4
  <1>6. QED
    BY <1>1, <1>2, <1>3, <1>4, <1>5, <1>t, SyncSteps DEF QuietStep

\* The invariant holds in every reachable state.
LEMMA SyncInvariance == Spec => []SyncInv
  <1>1. SyncInv /\ [Next]_vars => SyncInv'
    BY TypeStep, PushStep DEF SyncInv
  <1>2. QED
    BY <1>1, SyncInit, PTL DEF Spec

\* The state keeps its shape (sync/mod.rs:139-191).
THEOREM SyncTypeCorrect == Spec => []TypeOK
  BY SyncInvariance, PTL DEF SyncInv

-----------------------------------------------------------------------------
(* The server's list keeps its password; an overfull vector freezes it *)

\* The server's list and version change only by a push it accepts, one based on
\* the version it is at.
LEMMA ServerStep ==
    ASSUME SyncInv, [Next]_vars
    PROVE  \/ UNCHANGED server
           \/ \E push \in Pushes : Accepts(push) /\ push.base_version = version
  <1>1. CASE AcceptStep
    BY <1>1, AcceptedIsCurrent DEF AcceptStep
  <1>2. CASE QuietStep \/ \E d \in Device : EditStep(d) \/ SendStep(d) \/ HearsOk(d)
    BY <1>2 DEF QuietStep, EditStep, Edit, SendStep, PullAndPush, Sends, HearsOk
  <1>3. QED
    BY <1>1, <1>2, SyncSteps DEF SyncInv

\* No device that cannot open the list on the server replaces it, by any race,
\* retry or late push (sync/mod.rs:154-159).
THEOREM SyncKeepsThePassword == Spec => BlobPasswordIsKept
  <1>1. ASSUME SyncInv, [Next]_vars
        PROVE  [ blob # None => blob'.password = blob.password ]_vars
    BY <1>1, ServerStep DEF SyncInv, PushesAreBased, Accepts, server
  <1>2. QED
    BY <1>1, SyncInvariance, PTL DEF Spec, BlobPasswordIsKept

\* Nothing is accepted on top of a vector too long for the protocol
\* (protocol.rs:131-141, sync/mod.rs:147-153).
THEOREM SyncFreezesWhenOverfull == Spec => OverfullVectorFreezes
  <1>1. ASSUME SyncInv, [Next]_vars
        PROVE  [ ~WellFormed(version) => UNCHANGED server ]_vars
    BY <1>1, ServerStep DEF SyncInv, PushesAreBased
  <1>2. QED
    BY <1>1, SyncInvariance, PTL DEF Spec, OverfullVectorFreezes

-----------------------------------------------------------------------------
(* A sync costs a device nothing it holds *)

\* What a device is about to adopt is its own list, in place, with counters
\* raised and accounts of new ids added once each.
InHandKeepsLocal ==
    \A d \in Device : Busy(d) => /\ KeepsUp(InHand(d), vault[d])
                                 /\ GrowsFrom(InHand(d), vault[d])

\* A merge grows from the device's own list.
LEMMA PulledKeepsLocal ==
    ASSUME TypeOK, NEW working, working \in Seq(Account)
    PROVE  /\ PullMerged(working) \in Seq(Account)
           /\ KeepsUp(PullMerged(working), working)
           /\ GrowsFrom(PullMerged(working), working)
  <1>1. CASE blob = None
    BY <1>1, KeepsUpWithItself, GrowsFromItself DEF PullMerged
  <1>2. CASE blob # None
    <2>1. blob.list \in Seq(Account)
      BY <1>2 DEF TypeOK, Blob
    <2>2. QED
      BY <1>2, <2>1, MergedKeepsBoth DEF PullMerged
  <1>3. QED
    BY <1>1, <1>2

\* What sending does to the lists: the sender's is merged, the others stay.
LEMMA SentList ==
    ASSUME TypeOK, NEW d \in Device, SendStep(d)
    PROVE  /\ UNCHANGED <<vault, server, acked, round>>
           /\ \A e \in Device : e # d => sync'[e] = sync[e]
           /\ sync'[d].phase = "wait"
           /\ \E working \in Seq(Account) :
                 /\ \/ /\ ~Busy(d) /\ working = vault[d]
                       /\ goal' = [goal EXCEPT ![d] =
                             IF \A e \in Device : round[e] >= 1 THEN 2 ELSE 1]
                    \/ Busy(d) /\ working = InHand(d) /\ goal' = goal
                 /\ InHand(d)' = PullMerged(working)
                 /\ \A push \in Pushes' \ Pushes : push.blob.list = PullMerged(working)
  <1>1. PICK attempt \in 1 .. MaxAttempts, working \in Seq(Account),
             password \in Password :
           /\ \/ /\ ~Busy(d) /\ working = vault[d]
                 /\ goal' = [goal EXCEPT ![d] =
                       IF \A e \in Device : round[e] >= 1 THEN 2 ELSE 1]
              \/ Busy(d) /\ working = InHand(d) /\ goal' = goal
           /\ Sends(d, attempt, working, password)
    BY DEF SendStep, PullAndPush
  <1> DEFINE push == [device_id |-> deviceId[d],
                      blob |-> [list |-> PullMerged(working), password |-> password],
                      base_version |-> version]
  <1>2. /\ sync' = [sync EXCEPT ![d] =
                      [phase |-> "wait", attempt |-> attempt, push |-> push]]
        /\ UNCHANGED <<vault, late, server, acked, round>>
    BY <1>1 DEF Sends
  <1>3. push.blob.list = PullMerged(working)
    OBVIOUS
  <1> HIDE DEF push
  <1>4. /\ \A e \in Device : e # d => sync'[e] = sync[e]
        /\ sync'[d].phase = "wait" /\ sync'[d].push = push
    BY <1>2 DEF TypeOK
  <1>5. Pushes' \subseteq Pushes \cup {push}
    BY <1>2, <1>4 DEF Pushes, Waiting
  <1>6. InHand(d)' = PullMerged(working)
    BY <1>3, <1>4 DEF InHand
  <1>7. QED
    BY <1>1, <1>2, <1>3, <1>4, <1>5, <1>6

\* A device's list changes only between its syncs or when one is heard of.
LEMMA EditedList ==
    ASSUME TypeOK, NEW d \in Device, EditStep(d)
    PROVE  /\ ~Busy(d) /\ UNCHANGED <<sync, late, server, acked>>
           /\ vault'[d] \in Seq(Account) /\ KeepsUp(vault'[d], vault[d])
           /\ \A e \in Device : e # d => vault'[e] = vault[e]
  <1>1. PICK list \in Seq(Account) :
           /\ \/ \E account \in Enrollable : list = Append(vault[d], account)
              \/ \E id \in Id : CanAdvance(vault[d], id) /\ list = Advanced(vault[d], id)
           /\ Edit(d, list)
    BY DEF EditStep
  <1>2. vault[d] \in Seq(Account)
    BY DEF TypeOK
  <1>3. ASSUME NEW account \in Enrollable, list = Append(vault[d], account)
        PROVE  KeepsUp(list, vault[d])
    <2>1. \A id \in Ids(vault[d]) : CounterOf(vault[d], id) \in Int
      BY <1>2, CounterIsInt
    <2>2. /\ Ids(list) = Ids(vault[d]) \cup {account.id}
          /\ \A id \in Ids(vault[d]) : CounterOf(list, id) = CounterOf(vault[d], id)
      BY <1>2, <1>3, AppendKeepsUp, SyncAssumption
    <2>3. QED
      BY <2>1, <2>2 DEF KeepsUp
  <1>4. ASSUME NEW id \in Id, CanAdvance(vault[d], id), list = Advanced(vault[d], id)
        PROVE  KeepsUp(list, vault[d])
    BY <1>2, <1>4, AdvancedKeepsUp
  <1>5. QED
    BY <1>1, <1>3, <1>4 DEF Edit, Busy, TypeOK

\* A device told that its push was stored adopts the list it pushed.
LEMMA HeardList ==
    ASSUME TypeOK, NEW d \in Device, HearsOk(d)
    PROVE  /\ Busy(d) /\ vault'[d] = InHand(d) /\ InHand(d) = sync[d].list
           /\ sync'[d] = Idle
           /\ UNCHANGED <<late, server>>
           /\ \A e \in Device : e # d => vault'[e] = vault[e] /\ sync'[e] = sync[e]
  <1>1. Busy(d) /\ InHand(d) = sync[d].list
    BY SyncKinds DEF HearsOk, InHand
  <1>2. QED
    BY <1>1 DEF HearsOk, TypeOK

\* Every step keeps what is in hand grown from the vault.
LEMMA InHandStep == SyncInv /\ InHandKeepsLocal /\ [Next]_vars => InHandKeepsLocal'
  <1> SUFFICES ASSUME SyncInv, InHandKeepsLocal, [Next]_vars,
                      NEW e \in Device, Busy(e)'
               PROVE  KeepsUp(InHand(e)', vault'[e]) /\ GrowsFrom(InHand(e)', vault'[e])
    BY DEF InHandKeepsLocal
  <1>t. TypeOK
    BY DEF SyncInv
  <1>1. CASE QuietStep \/ AcceptStep
    BY <1>1 DEF QuietStep, AcceptStep, InHandKeepsLocal
  <1>2. ASSUME NEW d \in Device, EditStep(d)
        PROVE  KeepsUp(InHand(e)', vault'[e]) /\ GrowsFrom(InHand(e)', vault'[e])
    BY <1>2, <1>t, EditedList DEF Busy, InHand, InHandKeepsLocal
  <1>3. ASSUME NEW d \in Device, HearsOk(d)
        PROVE  KeepsUp(InHand(e)', vault'[e]) /\ GrowsFrom(InHand(e)', vault'[e])
    BY <1>3, <1>t, HeardList DEF Busy, InHand, InHandKeepsLocal
  <1>4. ASSUME NEW d \in Device, SendStep(d)
        PROVE  KeepsUp(InHand(e)', vault'[e]) /\ GrowsFrom(InHand(e)', vault'[e])
    <2>1. CASE e # d
      BY <1>4, <1>t, <2>1, SentList DEF Busy, InHand, InHandKeepsLocal
    <2>2. CASE e = d
      <3>1. PICK working \in Seq(Account) :
               /\ \/ ~Busy(d) /\ working = vault[d]
                  \/ Busy(d) /\ working = InHand(d)
               /\ InHand(d)' = PullMerged(working)
        BY <1>4, <1>t, SentList
      <3>2. vault' = vault /\ vault[d] \in Seq(Account)
        BY <1>4, <1>t, SentList DEF TypeOK
      <3>3. KeepsUp(working, vault[d]) /\ GrowsFrom(working, vault[d])
        BY <3>1, <3>2, KeepsUpWithItself, GrowsFromItself DEF InHandKeepsLocal
      <3> DEFINE next == PullMerged(working)
      <3>4. /\ next \in Seq(Account)
            /\ KeepsUp(next, working) /\ GrowsFrom(next, working)
        BY <1>t, PulledKeepsLocal
      <3> HIDE DEF next
      <3>5. KeepsUp(next, vault[d]) /\ GrowsFrom(next, vault[d])
        BY <3>2, <3>3, <3>4, KeepsUpComposes, GrowsFromComposes
      <3>6. QED
        BY <2>2, <3>1, <3>2, <3>5 DEF next
    <2>3. QED
      BY <2>1, <2>2
  <1>5. QED
    BY <1>1, <1>2, <1>3, <1>4, <1>t, SyncSteps

\* It does so in every reachable state.
LEMMA InHandInvariance == Spec => []InHandKeepsLocal
  <1>1. Init => InHandKeepsLocal
    BY DEF Init, InHandKeepsLocal, Busy
  <1>2. QED
    BY <1>1, InHandStep, SyncInvariance, PTL DEF Spec

\* Keeping up, in the terms of the properties.
LEMMA KeepsUpCovers ==
    ASSUME NEW a, a \in Seq(Account), NEW b, b \in Seq(Account), KeepsUp(a, b)
    PROVE  Covers(a, b)
  <1> SUFFICES ASSUME NEW id \in Id PROVE Reach(a, id) >= Reach(b, id)
    BY DEF Covers
  <1>1. CASE id \in Ids(b)
    <2>1. id \in Ids(a) /\ CounterOf(a, id) >= CounterOf(b, id)
      BY <1>1 DEF KeepsUp
    <2>2. CounterOf(a, id) \in Int /\ CounterOf(b, id) \in Int
      BY <1>1, <2>1, CounterIsInt
    <2>3. QED
      BY <1>1, <2>1, <2>2 DEF Reach
  <1>2. CASE id \notin Ids(b)
    <2>1. id \in Ids(a) => CounterOf(a, id) \in Nat
      BY CounterOfIsCounter, CounterAssumption
    <2>2. QED
      BY <1>2, <2>1 DEF Reach
  <1>3. QED
    BY <1>1, <1>2

\* A vault changes by an edit or becomes what its device has in hand.
LEMMA VaultStep ==
    ASSUME TypeOK, InHandKeepsLocal, [Next]_vars, NEW d \in Device
    PROVE  /\ KeepsUp(vault'[d], vault[d]) /\ vault'[d] \in Seq(Account)
           /\ Busy(d) => vault'[d] = vault[d] \/ vault'[d] = InHand(d)
  <1>1. vault[d] \in Seq(Account) /\ KeepsUp(vault[d], vault[d])
    BY KeepsUpWithItself DEF TypeOK
  <1>2. CASE QuietStep \/ AcceptStep
    BY <1>1, <1>2 DEF QuietStep, AcceptStep
  <1>3. ASSUME NEW e \in Device, EditStep(e) \/ SendStep(e) \/ HearsOk(e)
        PROVE  /\ KeepsUp(vault'[d], vault[d]) /\ vault'[d] \in Seq(Account)
               /\ Busy(d) => vault'[d] = vault[d] \/ vault'[d] = InHand(d)
    BY <1>1, <1>3, EditedList, SentList, HeardList, SyncKinds DEF InHandKeepsLocal
  <1>4. QED
    BY <1>2, <1>3, SyncSteps

\* Syncing never costs a device anything it holds, however the sync ends
\* (sync/mod.rs:91-95).
THEOREM SyncKeepsLocal == Spec => LocalNeverLosesGround
  <1>1. ASSUME SyncInv, InHandKeepsLocal, [Next]_vars
        PROVE  [ \A d \in Device : Covers(vault'[d], vault[d]) ]_vars
    <2>1. ASSUME NEW d \in Device PROVE Covers(vault'[d], vault[d])
      BY <1>1, VaultStep, KeepsUpCovers DEF SyncInv, TypeOK
    <2>2. QED
      BY <2>1
  <1>2. QED
    BY <1>1, SyncInvariance, InHandInvariance, PTL DEF Spec, LocalNeverLosesGround

\* Where a list grows only by accounts of new ids, no id is enrolled again.
LEMMA GrowthAddsOnce ==
    ASSUME NEW a, a \in Seq(Account), NEW b, b \in Seq(Account), GrowsFrom(a, b),
           NEW id \in Ids(a)
    PROVE  Copies(a, id) <= Copies(b, id) \/ Copies(a, id) = 1
  <1> DEFINE A == {n \in DOMAIN a : a[n].id = id}
             B == {n \in DOMAIN b : b[n].id = id}
  <1>1. /\ DOMAIN a = 1 .. Len(a) /\ Len(a) \in Nat
        /\ DOMAIN b = 1 .. Len(b) /\ Len(b) \in Nat
    OBVIOUS
  <1>2. DOMAIN b \subseteq DOMAIN a /\ B \subseteq A
    BY <1>1 DEF GrowsFrom
  <1>3. CASE \E n \in A : n > Len(b)
    <2>1. PICK n \in A : n > Len(b)
      BY <1>3
    <2>2. \A m \in A : m = n
      <3> SUFFICES ASSUME NEW m \in A, m # n PROVE FALSE
        OBVIOUS
      <3>1. m \in Nat /\ n \in Nat
        BY <1>1
      <3>2. CASE m < n
        BY <2>1, <3>2 DEF GrowsFrom
      <3>3. CASE m > n
        BY <1>1, <2>1, <3>1, <3>3 DEF GrowsFrom
      <3>4. QED
        BY <3>1, <3>2, <3>3
    <2>3. A = {n}
      BY <2>1, <2>2
    <2>4. Cardinality(A) = 1
      BY <2>3, FS_Singleton
    <2>5. QED
      BY <2>4 DEF Copies
  <1>4. CASE ~ \E n \in A : n > Len(b)
    <2>1. A = B
      BY <1>1, <1>2, <1>4 DEF GrowsFrom
    <2>2. IsFiniteSet(B)
      <3>1. IsFiniteSet(1 .. Len(b))
        BY <1>1, FS_Interval
      <3>2. QED
        BY <1>1, <3>1, FS_Subset
    <2>3. Cardinality(B) \in Nat
      BY <2>2, FS_CardinalityType
    <2>4. Copies(a, id) = Cardinality(A) /\ Copies(b, id) = Cardinality(B)
      BY DEF Copies
    <2> HIDE DEF A, B
    <2>5. QED
      BY <2>1, <2>3, <2>4
  <1>5. QED
    BY <1>3, <1>4

\* Merging the same list again never enrolls an id a second time
\* (sync/mod.rs:108-119).
THEOREM SyncEnrollsOnce == Spec => SyncAddsAnIdOnce
  <1> DEFINE AddsOnce ==
               \A d \in Device : sync[d] # Idle =>
                  \A id \in Ids(vault'[d]) :
                     Copies(vault'[d], id) <= Copies(vault[d], id) \/
                     Copies(vault'[d], id) = 1
  <1>1. ASSUME SyncInv, InHandKeepsLocal, [Next]_vars PROVE AddsOnce
    <2>1. ASSUME NEW d \in Device, Busy(d)
          PROVE  GrowsFrom(vault'[d], vault[d]) /\ vault'[d] \in Seq(Account)
      <3>1. /\ vault[d] \in Seq(Account) /\ vault'[d] \in Seq(Account)
            /\ vault'[d] = vault[d] \/ vault'[d] = InHand(d)
        BY <1>1, <2>1, VaultStep DEF SyncInv, TypeOK
      <3>2. GrowsFrom(vault[d], vault[d]) /\ GrowsFrom(InHand(d), vault[d])
        BY <1>1, <2>1, <3>1, GrowsFromItself DEF InHandKeepsLocal
      <3>3. QED
        BY <3>1, <3>2
    <2>2. QED
      BY <1>1, <2>1, GrowthAddsOnce DEF SyncInv, TypeOK, Busy
  <1>2. SyncInv /\ InHandKeepsLocal /\ [Next]_vars => [AddsOnce]_vars
    BY <1>1
  <1>3. QED
    BY <1>2, SyncInvariance, InHandInvariance, PTL DEF Spec, SyncAddsAnIdOnce

-----------------------------------------------------------------------------
(* What the server was told it keeps.  From here on, no enrollable id may    *)
(* name two kinds of account: a merge keeps the kind it has, so the other    *)
(* device's account would be dropped.                                        *)

\* The accounts there can be: enrolled ones, counted on if counter based.
Known == {x \in Account : \E e \in Enrollable :
             e.id = x.id /\ e.hotp = x.hotp /\ (x.hotp \/ x.counter = e.counter)}

\* Every list anywhere is made of such accounts.
KnownInv == /\ \A d \in Device : /\ vault[d] \in Seq(Known)
                                 /\ Busy(d) => InHand(d) \in Seq(Known)
            /\ \A push \in Pushes : push.blob.list \in Seq(Known)
            /\ blob # None => blob.list \in Seq(Known)

\* If no enrollable id names two kinds of account, no known one does.
LEMMA KnownAgree ==
    /\ Known \subseteq Account /\ Enrollable \subseteq Known
    /\ Agreeing(Enrollable) => Agreeing(Known)
  <1>1. Known \subseteq Account
    BY DEF Known
  <1>2. Enrollable \subseteq Known
    BY SyncAssumption DEF Known
  <1>3. Agreeing(Enrollable) => Agreeing(Known)
    BY DEF Agreeing, Known
  <1>4. QED
    BY <1>1, <1>2, <1>3

\* An advance leads from known accounts to known accounts.
LEMMA AdvancedIsKnown ==
    ASSUME NEW list, list \in Seq(Known), NEW id, CanAdvance(list, id)
    PROVE  Advanced(list, id) \in Seq(Known)
  <1> DEFINE n == FirstWith(list, id)
             c == CounterOf(list, id) + 1
             changed == [list[n] EXCEPT !.counter = c]
  <1>1. list \in Seq(Account)
    BY KnownAgree
  <1>2. /\ id \in Ids(list) /\ c \in 0 .. MaxCounter
        /\ Advanced(list, id) = Raised(list, id, c)
    BY <1>1, AdvancedIsRaised
  <1>3. n \in DOMAIN list /\ list[n].hotp
    BY <1>1, <1>2, FirstWithIsFirst DEF CanAdvance
  <1>4. Raised(list, id, c) = [list EXCEPT ![n] = changed]
    BY DEF Raised
  <1> HIDE DEF n, c
  <1>5. list[n] \in Known
    BY <1>3
  <1>6. changed \in Known
    BY <1>2, <1>3, <1>5 DEF Known, Account
  <1> HIDE DEF changed
  <1>7. [list EXCEPT ![n] = changed] \in Seq(Known)
    BY <1>3, <1>6
  <1>8. QED
    BY <1>2, <1>4, <1>7

\* newer has every copy older has, and every lookup finds one as far on.
Retains(newer, older) == KeepsUp(newer, older) /\ Holds(newer, older)

\* Retaining is reflexive ...
LEMMA RetainsItself ==
    ASSUME NEW list, list \in Seq(Account) PROVE Retains(list, list)
  BY KeepsUpWithItself, HoldsItself DEF Retains

\* ... and transitive.
LEMMA RetainsComposes ==
    ASSUME NEW a, a \in Seq(Account), NEW b, b \in Seq(Account),
           NEW c, c \in Seq(Account), Retains(a, b), Retains(b, c)
    PROVE  Retains(a, c)
  BY KeepsUpComposes, HoldsComposes DEF Retains

\* What merging the server's list into a known one gives.
LEMMA PulledRetains ==
    ASSUME Agreeing(Enrollable), KnownInv, NEW working, working \in Seq(Known)
    PROVE  LET pulled == PullMerged(working)
           IN  /\ pulled \in Seq(Known)
               /\ Retains(pulled, working)
               /\ blob # None => /\ Retains(pulled, blob.list)
                                 /\ TakesIn(pulled, blob.list)
               /\ \A n \in DOMAIN pulled :
                     \/ Offers(working, pulled[n])
                     \/ blob # None /\ Offers(blob.list, pulled[n])
  <1>1. Known \in SUBSET Account /\ Agreeing(Known) /\ working \in Seq(Account)
    BY KnownAgree
  <1>2. CASE blob = None
    BY <1>1, <1>2, RetainsItself, HoldsItself DEF PullMerged, Holds
  <1>3. CASE blob # None
    <2> DEFINE pulled == Merged(working, blob.list)
    <2>1. blob.list \in Seq(Known) /\ blob.list \in Seq(Account)
      BY <1>1, <1>3 DEF KnownInv
    <2>2. /\ pulled \in Seq(Known) /\ KeepsUp(pulled, working)
          /\ KeepsUp(pulled, blob.list)
      BY <1>1, <2>1, MergedKeepsBoth
    <2>3. /\ Holds(pulled, working) /\ TakesIn(pulled, blob.list)
          /\ \A n \in DOMAIN pulled :
                Offers(working, pulled[n]) \/ Offers(blob.list, pulled[n])
      BY <1>1, <2>1, MergedCopies
    <2>4. PullMerged(working) = pulled
      BY <1>3 DEF PullMerged
    <2> HIDE DEF pulled
    <2>5. Holds(pulled, blob.list)
      <3>1. pulled \in Seq(Account)
        BY <1>1, <2>2
      <3>2. QED
        BY <2>1, <2>3, <3>1, TakesInHolds
    <2>6. QED
      BY <1>3, <2>2, <2>3, <2>4, <2>5 DEF Retains
  <1>4. QED
    BY <1>2, <1>3

\* Every step makes lists of known accounts only.
LEMMA KnownStep ==
    ASSUME Agreeing(Enrollable), SyncInv, KnownInv, [Next]_vars
    PROVE  KnownInv'
  <1>t. TypeOK
    BY DEF SyncInv
  <1>1. CASE QuietStep
    BY <1>1 DEF QuietStep, KnownInv, server
  <1>2. CASE AcceptStep
    <2>1. blob' \in {push.blob : push \in Pushes}
      BY <1>2 DEF AcceptStep, Accepts
    <2>2. QED
      BY <1>2, <2>1 DEF AcceptStep, KnownInv
  <1>3. ASSUME NEW d \in Device, EditStep(d) PROVE KnownInv'
    <2>1. PICK list \in Seq(Account) :
             /\ \/ \E account \in Enrollable : list = Append(vault[d], account)
                \/ \E id \in Id : CanAdvance(vault[d], id) /\ list = Advanced(vault[d], id)
             /\ vault' = [vault EXCEPT ![d] = list]
             /\ UNCHANGED <<sync, late, server>>
      BY <1>3 DEF EditStep, Edit
    <2>2. vault[d] \in Seq(Known)
      BY DEF KnownInv
    <2>3. ASSUME NEW account \in Enrollable, list = Append(vault[d], account)
          PROVE  list \in Seq(Known)
      <3>1. account \in Known
        BY KnownAgree
      <3>2. QED
        BY <2>2, <2>3, <3>1
    <2>4. list \in Seq(Known)
      BY <2>1, <2>2, <2>3, AdvancedIsKnown
    <2>5. \A e \in Device : vault'[e] \in Seq(Known)
      BY <1>t, <2>1, <2>4 DEF KnownInv, TypeOK
    <2>6. QED
      BY <2>1, <2>5 DEF KnownInv, Busy, InHand, Pushes, Waiting, server
  <1>4. ASSUME NEW d \in Device, SendStep(d) PROVE KnownInv'
    <2>1. PICK working \in Seq(Account) :
             /\ working = vault[d] \/ (Busy(d) /\ working = InHand(d))
             /\ InHand(d)' = PullMerged(working)
             /\ \A push \in Pushes' \ Pushes : push.blob.list = PullMerged(working)
      BY <1>4, <1>t, SentList
    <2>2. PullMerged(working) \in Seq(Known)
      BY <2>1, PulledRetains DEF KnownInv
    <2>3. /\ UNCHANGED <<vault, server>>
          /\ \A e \in Device : e # d => sync'[e] = sync[e]
      BY <1>4, <1>t, SentList
    <2>4. QED
      BY <2>1, <2>2, <2>3 DEF KnownInv, Busy, InHand, server
  <1>5. ASSUME NEW d \in Device, HearsOk(d) PROVE KnownInv'
    <2>1. /\ Busy(d) /\ vault'[d] = InHand(d) /\ sync'[d] = Idle
          /\ UNCHANGED <<late, server>>
          /\ \A e \in Device : e # d => vault'[e] = vault[e] /\ sync'[e] = sync[e]
      BY <1>5, <1>t, HeardList
    <2>2. Pushes' \subseteq Pushes
      BY <2>1 DEF Pushes, Waiting, Idle
    <2>3. QED
      BY <2>1, <2>2 DEF KnownInv, Busy, InHand, server
  <1>6. QED
    BY <1>1, <1>2, <1>3, <1>4, <1>5, <1>t, SyncSteps

\* A push the server would take retains what the server has, and the server
\* retains what it accepted from anyone who has yet to hear of it.
ServerInv ==
    /\ \A push \in Pushes : push.base_version = version /\ blob # None =>
          Retains(push.blob.list, blob.list)
    /\ \A d \in Device : sync[d].phase = "ok" =>
          blob # None /\ Retains(blob.list, InHand(d))
    /\ AckedStaysOnServer

\* The list on the server is replaced only by one that retains it.
LEMMA ServerListStep ==
    ASSUME SyncInv, ServerInv, [Next]_vars, blob # None
    PROVE  /\ blob' # None /\ blob.list \in Seq(Account) /\ blob'.list \in Seq(Account)
           /\ Retains(blob'.list, blob.list)
  <1>1. blob.list \in Seq(Account)
    BY DEF SyncInv, TypeOK, Blob
  <1>2. CASE UNCHANGED server
    BY <1>1, <1>2, RetainsItself DEF server
  <1>3. ASSUME NEW push \in Pushes, Accepts(push), push.base_version = version
        PROVE  /\ blob' # None /\ blob'.list \in Seq(Account)
               /\ Retains(blob'.list, blob.list)
    <2>1. blob' = push.blob /\ push.blob \in Blob
      BY <1>3, PushesAreTyped DEF SyncInv, Push, Accepts
    <2>2. QED
      BY <1>3, <2>1, SyncAssumption DEF Blob, ServerInv
  <1>4. QED
    BY <1>1, <1>2, <1>3, ServerStep

\* Retaining, in the terms of the properties.
LEMMA ReachGrows ==
    ASSUME NEW a, a \in Seq(Account), NEW b, b \in Seq(Account), Retains(a, b),
           NEW id \in Id
    PROVE  Reach(a, id) >= Reach(b, id) /\ Reach(a, id) \in Int /\ Reach(b, id) \in Int
  BY KeepsUpCovers, CounterIsInt DEF Retains, Covers, Reach

\* Every step keeps the server's promise.
LEMMA ServerInvStep ==
    ASSUME Agreeing(Enrollable), SyncInv, KnownInv, ServerInv, [Next]_vars
    PROVE  ServerInv'
  <1>t. TypeOK /\ TypeOK' /\ \A d \in Device : Busy(d) => InHand(d) \in Seq(Account)
    BY TypeStep, SyncKinds DEF SyncInv
  <1>s. blob # None => /\ blob' # None /\ blob.list \in Seq(Account)
                       /\ blob'.list \in Seq(Account)
                       /\ Retains(blob'.list, blob.list)
    BY ServerListStep
  <1>k. \A id \in Id : acked[id] \in Int
    BY <1>t, CounterAssumption DEF TypeOK
  <1>a. ASSUME acked' = acked PROVE AckedStaysOnServer'
    <2> SUFFICES ASSUME NEW id \in Id, acked[id] > 0
                 PROVE  blob' # None /\ Reach(blob'.list, id) >= acked[id]
      BY <1>a DEF AckedStaysOnServer
    <2>1. blob # None /\ Reach(blob.list, id) >= acked[id]
      BY DEF ServerInv, AckedStaysOnServer
    <2>2. QED
      BY <1>s, <1>k, <2>1, ReachGrows
  <1>o. ASSUME NEW d \in Device, sync'[d] = sync[d], sync[d].phase = "ok"
        PROVE  blob' # None /\ Retains(blob'.list, InHand(d)')
    <2>1. blob # None /\ Retains(blob.list, InHand(d)) /\ InHand(d)' = InHand(d)
      BY <1>o DEF ServerInv, InHand
    <2>2. InHand(d) \in Seq(Account)
      BY <1>t, <1>o, SyncKinds
    <2>3. QED
      BY <1>s, <2>1, <2>2, RetainsComposes
  <1>1. CASE QuietStep
    BY <1>1, <1>a, <1>o DEF QuietStep, ServerInv, server, history
  <1>2. CASE AcceptStep
    <2>1. PICK push \in Pushes :
             /\ Accepts(push) /\ Pushes' \subseteq Pushes /\ acked' = acked
             /\ \A d \in Device : sync'[d].phase = "ok" =>
                   sync'[d] = sync[d] \/ InHand(d)' = push.blob.list
      BY <1>2 DEF AcceptStep, history
    <2>2. \A other \in Pushes : other.base_version # version'
      BY <2>1, AcceptedIsCurrent
    <2>3. blob' = push.blob /\ blob' \in Blob
      BY <1>t, <2>1, PushesAreTyped DEF Push, Accepts
    <2>4. blob' # None /\ Retains(blob'.list, push.blob.list)
      BY <2>3, SyncAssumption, RetainsItself DEF Blob
    <2>5. \A d \in Device : sync'[d].phase = "ok" =>
             blob' # None /\ Retains(blob'.list, InHand(d)')
      BY <1>o, <2>1, <2>4
    <2>6. QED
      BY <1>a, <2>1, <2>2, <2>5 DEF ServerInv
  <1>3. ASSUME NEW d \in Device, EditStep(d) PROVE ServerInv'
    <2>1. UNCHANGED <<sync, late, server, acked>>
      BY <1>3, <1>t, EditedList
    <2>2. QED
      BY <1>a, <1>o, <2>1 DEF ServerInv, Pushes, Waiting, server
  <1>4. ASSUME NEW d \in Device, SendStep(d) PROVE ServerInv'
    <2>1. PICK working \in Seq(Account) :
             /\ working = vault[d] \/ (Busy(d) /\ working = InHand(d))
             /\ \A push \in Pushes' \ Pushes : push.blob.list = PullMerged(working)
      BY <1>4, <1>t, SentList
    <2>2. blob # None => Retains(PullMerged(working), blob.list)
      BY <2>1, PulledRetains DEF KnownInv
    <2>3. /\ UNCHANGED <<server, acked>> /\ sync'[d].phase = "wait"
          /\ \A e \in Device : e # d => sync'[e] = sync[e]
      BY <1>4, <1>t, SentList
    <2>4. \A e \in Device : sync'[e].phase = "ok" =>
             blob' # None /\ Retains(blob'.list, InHand(e)')
      BY <1>o, <2>3
    <2>5. QED
      BY <1>a, <2>1, <2>2, <2>3, <2>4 DEF ServerInv, server
  <1>5. ASSUME NEW d \in Device, HearsOk(d) PROVE ServerInv'
    <2>1. /\ Busy(d) /\ InHand(d) = sync[d].list /\ sync'[d] = Idle
          /\ UNCHANGED <<late, server>>
          /\ \A e \in Device : e # d => sync'[e] = sync[e]
      BY <1>5, <1>t, HeardList
    <2>2. Pushes' \subseteq Pushes /\ sync'[d].phase # "ok"
      BY <2>1 DEF Pushes, Waiting, Idle
    <2>3. \A e \in Device : sync'[e].phase = "ok" =>
             blob' # None /\ Retains(blob'.list, InHand(e)')
      BY <1>o, <2>1, <2>2
    <2>4. blob # None /\ Retains(blob.list, InHand(d))
      BY <1>5 DEF HearsOk, ServerInv
    <2>5. ASSUME NEW id \in Id, acked'[id] > 0
          PROVE  blob' # None /\ Reach(blob'.list, id) >= acked'[id]
      <3>1. acked'[id] \in {Reach(InHand(d), id), acked[id]}
        BY <1>5, <2>1 DEF HearsOk
      <3>2. Reach(blob.list, id) >= Reach(InHand(d), id)
        BY <1>t, <1>s, <2>1, <2>4, ReachGrows
      <3>3. acked[id] > 0 => Reach(blob.list, id) >= acked[id]
        BY DEF ServerInv, AckedStaysOnServer
      <3>4. QED
        BY <2>1, <2>4, <2>5, <3>1, <3>2, <3>3 DEF server
    <2>6. QED
      BY <2>1, <2>2, <2>3, <2>5 DEF ServerInv, AckedStaysOnServer, server
  <1>6. QED
    BY <1>1, <1>2, <1>3, <1>4, <1>5, <1>t, SyncSteps

\* Nothing has been acknowledged at first.
LEMMA ServerInit == Init => KnownInv /\ ServerInv
  <1> SUFFICES ASSUME Init PROVE KnownInv /\ ServerInv
    OBVIOUS
  <1>1. Pushes = {} /\ \A d \in Device : ~Busy(d) /\ sync[d].phase = "idle"
    BY DEF Init, Pushes, Waiting, Busy, Idle
  <1>2. blob = None /\ \A d \in Device : vault[d] \in Seq(Known)
    BY DEF Init
  <1>3. \A id \in Id : ~(acked[id] > 0)
    BY DEF Init
  <1>4. QED
    BY <1>1, <1>2, <1>3 DEF KnownInv, ServerInv, AckedStaysOnServer

\* What a device was told is synced stays on the server: no later push, late,
\* retried or racing, takes an account away or winds a counter back
\* (sync/mod.rs:96-106, 133-139).  The ids enrolled must agree on the kind of
\* account: merge_vault keeps the local kind, whatever the other list says.
THEOREM SyncKeepsWhatWasAcked ==
    ASSUME Agreeing(Enrollable)
    PROVE  Spec => []AckedStaysOnServer
  <1>1. SyncInv /\ KnownInv /\ ServerInv /\ [Next]_vars => KnownInv' /\ ServerInv'
    BY KnownStep, ServerInvStep
  <1>2. ServerInv => AckedStaysOnServer
    BY DEF ServerInv
  <1>3. QED
    BY <1>1, <1>2, ServerInit, SyncInvariance, PTL DEF Spec

-----------------------------------------------------------------------------
(* The devices converge *)

\* Every device has synced since the last edit anywhere.
AllOnce == \A d \in Device : round[d] >= 1

\* Every copy in a list on its way came from a vault or from the server.
Sourced(list) == \A n \in DOMAIN list :
                    \/ \E d \in Device : Offers(vault[d], list[n])
                    \/ blob # None /\ Offers(blob.list, list[n])

\* It holds of every list in hand or on its way, and the list in hand has every
\* copy of its device's vault.
SourcedInv == /\ \A d \in Device : Busy(d) => /\ Sourced(InHand(d))
                                              /\ Holds(InHand(d), vault[d])
              /\ \A push \in Pushes : Sourced(push.blob.list)

\* A device that has synced since the last edit has its copies on the server;
\* once all have, whoever starts over takes in all there is.
RoundInv ==
    \A d \in Device :
        /\ round[d] >= 1 => blob # None /\ Holds(blob.list, vault[d])
        /\ round[d] = 2 => AllOnce /\ TakesIn(vault[d], blob.list)
        /\ Busy(d) /\ goal[d] = 2 => AllOnce /\ TakesIn(InHand(d), blob.list)

\* No step loses a copy from a vault.
LEMMA VaultsHold ==
    ASSUME SyncInv, SourcedInv, [Next]_vars, NEW d \in Device
    PROVE  /\ vault[d] \in Seq(Account) /\ vault'[d] \in Seq(Account)
           /\ Holds(vault'[d], vault[d])
  <1>t. TypeOK /\ TypeOK'
    BY TypeStep DEF SyncInv
  <1>1. vault[d] \in Seq(Account) /\ vault'[d] \in Seq(Account)
    BY <1>t DEF TypeOK
  <1>2. CASE vault'[d] = vault[d]
    BY <1>1, <1>2, HoldsItself
  <1>3. ASSUME EditStep(d) PROVE Holds(vault'[d], vault[d])
    <2>1. PICK list \in Seq(Account) :
             /\ \/ \E account \in Enrollable : list = Append(vault[d], account)
                \/ \E id \in Id : CanAdvance(vault[d], id) /\ list = Advanced(vault[d], id)
             /\ vault' = [vault EXCEPT ![d] = list]
      BY <1>3 DEF EditStep, Edit
    <2>2. ASSUME NEW account \in Enrollable, list = Append(vault[d], account)
          PROVE  Holds(list, vault[d])
      BY <1>1, <2>2, AppendHolds, SyncAssumption
    <2>3. Holds(list, vault[d])
      BY <1>1, <2>1, <2>2, AdvancedHolds
    <2>4. QED
      BY <1>t, <2>1, <2>3 DEF TypeOK
  <1>4. ASSUME HearsOk(d) PROVE Holds(vault'[d], vault[d])
    BY <1>4, <1>t, HeardList DEF SourcedInv
  <1>5. ASSUME NEW e \in Device, e # d, EditStep(e) \/ HearsOk(e)
        PROVE  vault'[d] = vault[d]
    BY <1>5, <1>t, EditedList, HeardList
  <1>6. ASSUME NEW e \in Device, SendStep(e) PROVE vault'[d] = vault[d]
    BY <1>6, <1>t, SentList
  <1>7. QED
    BY <1>t, <1>1, <1>2, <1>3, <1>4, <1>5, <1>6, SyncSteps DEF QuietStep, AcceptStep

\* Where copies came from, they are still found.
LEMMA StaysSourced ==
    ASSUME SyncInv, SourcedInv, ServerInv, [Next]_vars,
           NEW list, list \in Seq(Account), Sourced(list)
    PROVE  Sourced(list)'
  <1> SUFFICES ASSUME NEW n \in DOMAIN list
               PROVE  \/ \E d \in Device : Offers(vault'[d], list[n])
                      \/ blob' # None /\ Offers(blob'.list, list[n])
    BY DEF Sourced
  <1>1. list[n].counter \in Int
    BY CounterIsInt
  <1>2. ASSUME NEW d \in Device, Offers(vault[d], list[n])
        PROVE  Offers(vault'[d], list[n])
    BY <1>1, <1>2, VaultsHold, OfferedOn
  <1>3. ASSUME blob # None, Offers(blob.list, list[n])
        PROVE  blob' # None /\ Offers(blob'.list, list[n])
    BY <1>1, <1>3, ServerListStep, OfferedOn DEF Retains
  <1>4. QED
    BY <1>2, <1>3 DEF Sourced

\* Every step keeps the lists in hand and on their way sourced.
LEMMA SourcedStep ==
    ASSUME Agreeing(Enrollable), SyncInv, KnownInv, ServerInv, SourcedInv, [Next]_vars
    PROVE  SourcedInv'
  <1>t. /\ TypeOK /\ \A d \in Device : Busy(d) => InHand(d) \in Seq(Account)
        /\ \A push \in Pushes : push.blob.list \in Seq(Account)
    BY SyncKinds, PushesAreTyped DEF SyncInv, Push, Blob
  <1>v. \A d \in Device : vault[d] \in Seq(Account) /\ Holds(vault[d], vault[d])
    BY <1>t, HoldsItself DEF TypeOK
  \* Pushes and lists that stay as they are stay sourced.
  <1>p. \A push \in Pushes : Sourced(push.blob.list)'
    BY <1>t, StaysSourced DEF SourcedInv
  <1>h. ASSUME NEW d \in Device, Busy(d), InHand(d)' = InHand(d), vault'[d] = vault[d]
        PROVE  Sourced(InHand(d))' /\ Holds(InHand(d), vault[d])'
    <2>1. Sourced(InHand(d)) /\ Holds(InHand(d), vault[d]) /\ InHand(d) \in Seq(Account)
      BY <1>h, <1>t DEF SourcedInv
    <2> DEFINE list == InHand(d)
    <2>2. list \in Seq(Account) /\ Sourced(list) /\ list' = list
      BY <1>h, <2>1
    <2> HIDE DEF list
    <2>3. \A n \in DOMAIN list : \/ \E e \in Device : Offers(vault'[e], list[n])
                                 \/ blob' # None /\ Offers(blob'.list, list[n])
      BY <2>2, StaysSourced DEF Sourced
    <2>4. QED
      BY <1>h, <2>1, <2>2, <2>3 DEF Sourced, list
  <1>1. CASE QuietStep \/ AcceptStep
    BY <1>1, <1>p, <1>h DEF QuietStep, AcceptStep, SourcedInv
  <1>2. ASSUME NEW d \in Device, EditStep(d) PROVE SourcedInv'
    <2>1. /\ ~Busy(d) /\ UNCHANGED <<sync, late>>
          /\ \A e \in Device : e # d => vault'[e] = vault[e]
      BY <1>2, <1>t, EditedList
    <2>2. /\ Pushes' = Pushes
          /\ \A e \in Device : Busy(e)' = Busy(e) /\ InHand(e)' = InHand(e)
      BY <2>1 DEF Pushes, Waiting, Busy, InHand
    <2>3. QED
      BY <1>p, <1>h, <2>1, <2>2 DEF SourcedInv
  <1>3. ASSUME NEW d \in Device, SendStep(d) PROVE SourcedInv'
    <2>1. PICK working \in Seq(Account) :
             /\ working = vault[d] \/ (Busy(d) /\ working = InHand(d))
             /\ InHand(d)' = PullMerged(working)
             /\ \A push \in Pushes' \ Pushes : push.blob.list = PullMerged(working)
      BY <1>3, <1>t, SentList
    <2>2. /\ UNCHANGED <<vault, server>>
          /\ \A e \in Device : e # d => sync'[e] = sync[e]
      BY <1>3, <1>t, SentList
    <2> DEFINE pulled == PullMerged(working)
    <2>3. /\ pulled \in Seq(Account) /\ Holds(pulled, working)
          /\ \A n \in DOMAIN pulled :
                \/ Offers(working, pulled[n])
                \/ blob # None /\ Offers(blob.list, pulled[n])
      <3>1. working \in Seq(Known)
        BY <2>1 DEF KnownInv
      <3>2. pulled \in Seq(Known) => pulled \in Seq(Account)
        BY KnownAgree
      <3>3. QED
        BY <3>1, <3>2, PulledRetains DEF Retains
    <2>4. \A n \in DOMAIN pulled : pulled[n].counter \in Int
      BY <2>3, CounterIsInt
    <2>5. /\ Holds(working, vault[d])
          /\ working = vault[d] \/ Sourced(working)
      BY <1>v, <2>1 DEF SourcedInv
    <2> DEFINE From(x) == \/ \E e \in Device : Offers(vault[e], x)
                          \/ blob # None /\ Offers(blob.list, x)
    <2> HIDE DEF pulled
    <2>6. ASSUME NEW n \in DOMAIN pulled, Offers(working, pulled[n])
          PROVE  From(pulled[n])
      <3>1. CASE working = vault[d]
        BY <2>6, <3>1
      <3>2. CASE Sourced(working)
        <4>1. PICK k \in DOMAIN working : /\ working[k].id = pulled[n].id
                                          /\ working[k].counter >= pulled[n].counter
          BY <2>6 DEF Offers
        <4>2. working[k].counter \in Int /\ pulled[n].counter \in Int
          BY <2>4, CounterIsInt
        <4>3. From(working[k])
          BY <3>2 DEF Sourced
        <4>4. blob # None => blob.list \in Seq(Account)
          BY <1>t DEF TypeOK, Blob
        <4>5. /\ \A e \in Device : Offers(vault[e], working[k]) => Offers(vault[e], pulled[n])
              /\ blob # None /\ Offers(blob.list, working[k]) => Offers(blob.list, pulled[n])
          BY <1>v, <4>1, <4>2, <4>4, OffersLess
        <4>6. QED
          BY <4>3, <4>5
      <3>3. QED
        BY <2>5, <3>1, <3>2
    <2>7. \A n \in DOMAIN pulled : From(pulled[n])
      BY <2>3, <2>6
    <2>8. Holds(pulled, vault[d])
      BY <1>v, <2>3, <2>5, HoldsComposes
    <2>s. /\ InHand(d)' = pulled
          /\ \A push \in Pushes' \ Pushes : push.blob.list = pulled
      BY <2>1 DEF pulled
    <2>9. \A push \in Pushes' : Sourced(push.blob.list)'
      <3> SUFFICES ASSUME NEW push \in Pushes' PROVE Sourced(push.blob.list)'
        OBVIOUS
      <3>1. CASE push \in Pushes
        BY <1>p, <3>1
      <3>2. CASE push \notin Pushes
        BY <2>2, <2>7, <2>s, <3>2 DEF Sourced, server
      <3>3. QED
        BY <3>1, <3>2
    <2>10. ASSUME NEW e \in Device, Busy(e)'
           PROVE  Sourced(InHand(e))' /\ Holds(InHand(e), vault[e])'
      <3>1. CASE e = d
        BY <2>2, <2>7, <2>8, <2>s, <3>1 DEF Sourced, server
      <3>2. CASE e # d
        BY <1>h, <2>2, <2>10, <3>2 DEF Busy, InHand
      <3>3. QED
        BY <3>1, <3>2
    <2>11. QED
      BY <2>9, <2>10 DEF SourcedInv
  <1>4. ASSUME NEW d \in Device, HearsOk(d) PROVE SourcedInv'
    <2>1. /\ sync'[d] = Idle /\ UNCHANGED late
          /\ \A e \in Device : e # d => vault'[e] = vault[e] /\ sync'[e] = sync[e]
      BY <1>4, <1>t, HeardList
    <2>2. /\ Pushes' \subseteq Pushes
          /\ \A e \in Device : Busy(e)' => e # d /\ Busy(e) /\ InHand(e)' = InHand(e)
      BY <2>1 DEF Pushes, Waiting, Busy, InHand, Idle
    <2>3. QED
      BY <1>p, <1>h, <2>1, <2>2 DEF SourcedInv
  <1>5. QED
    BY <1>1, <1>2, <1>3, <1>4, <1>t, SyncSteps

\* Once all have synced, the server holds whatever is on its way to it.
LEMMA ServerHoldsAll ==
    ASSUME SyncInv, SourcedInv, RoundInv, AllOnce, blob # None,
           NEW push \in Pushes
    PROVE  Holds(blob.list, push.blob.list)
  <1>1. /\ push.blob.list \in Seq(Account) /\ blob.list \in Seq(Account)
        /\ \A d \in Device : vault[d] \in Seq(Account)
    BY PushesAreTyped DEF SyncInv, TypeOK, Push, Blob
  <1>2. \A d \in Device : Holds(blob.list, vault[d])
    BY DEF RoundInv, AllOnce
  <1> SUFFICES ASSUME NEW n \in DOMAIN push.blob.list
               PROVE  Offers(blob.list, push.blob.list[n])
    BY DEF Holds
  <1>3. push.blob.list[n].counter \in Int
    BY <1>1, CounterIsInt
  <1>4. QED
    BY <1>1, <1>2, <1>3, OfferedOn DEF SourcedInv, Sourced

\* Every step keeps what the two rounds have established.
LEMMA RoundStep ==
    ASSUME Agreeing(Enrollable), SyncInv, KnownInv, ServerInv, SourcedInv,
           RoundInv, [Next]_vars
    PROVE  RoundInv'
  <1>t. /\ TypeOK /\ TypeOK'
        /\ \A d \in Device : Busy(d) => InHand(d) \in Seq(Account)
        /\ \A d \in Device : vault[d] \in Seq(Account)
        /\ blob # None => blob.list \in Seq(Account)
    BY TypeStep, SyncKinds DEF SyncInv, TypeOK, Blob
  <1>1. CASE QuietStep
    BY <1>1 DEF QuietStep, RoundInv, AllOnce, server, history
  <1>2. CASE AcceptStep
    <2>1. PICK push \in Pushes : Accepts(push)
      BY <1>2 DEF AcceptStep
    <2>2. /\ vault' = vault /\ round' = round /\ goal' = goal
          /\ \A d \in Device : Busy(d)' => Busy(d) /\ InHand(d)' = InHand(d)
      BY <1>2 DEF AcceptStep, history
    <2>3. /\ blob' = push.blob /\ blob' # None /\ blob'.list \in Seq(Account)
          /\ push.base_version = version
      BY <2>1, PushesAreTyped, AcceptedIsCurrent, SyncAssumption
      DEF SyncInv, Accepts, Push, Blob
    <2>4. blob # None => Holds(blob'.list, blob.list)
      BY ServerListStep DEF Retains
    <2>5. \A d \in Device : round[d] >= 1 => Holds(blob'.list, vault[d])
      BY <1>t, <2>3, <2>4, HoldsComposes DEF RoundInv
    <2>6. AllOnce /\ blob # None => Holds(blob.list, blob'.list)
      BY <2>3, ServerHoldsAll
    <2>7. ASSUME NEW list, list \in Seq(Account), AllOnce, blob # None,
                 TakesIn(list, blob.list)
          PROVE  TakesIn(list, blob'.list)
      BY <1>t, <2>3, <2>6, <2>7, TakesInComposes
    <2>8. AllOnce => \A d \in Device : blob # None
      BY DEF AllOnce, RoundInv
    <2>9. AllOnce' = AllOnce
      BY <2>2 DEF AllOnce
    <2>10. ASSUME NEW d \in Device
           PROVE  /\ round[d] = 2 => AllOnce /\ TakesIn(vault[d], blob'.list)
                  /\ Busy(d) /\ goal[d] = 2 => AllOnce /\ TakesIn(InHand(d), blob'.list)
      BY <1>t, <2>7, <2>8 DEF RoundInv
    <2>11. QED
      BY <2>2, <2>3, <2>5, <2>9, <2>10 DEF RoundInv
  <1>3. ASSUME NEW d \in Device, EditStep(d) PROVE RoundInv'
    <2>1. \A e \in Device : round'[e] = 0 /\ goal'[e] = 1
      BY <1>3 DEF EditStep, Edit
    <2>2. QED
      BY <2>1 DEF RoundInv
  <1>4. ASSUME NEW d \in Device, SendStep(d) PROVE RoundInv'
    <2>1. PICK working \in Seq(Account) :
             /\ \/ /\ working = vault[d]
                   /\ goal' = [goal EXCEPT ![d] =
                         IF \A e \in Device : round[e] >= 1 THEN 2 ELSE 1]
                \/ Busy(d) /\ working = InHand(d) /\ goal' = goal
             /\ InHand(d)' = PullMerged(working)
      BY <1>4, <1>t, SentList
    <2>2. /\ UNCHANGED <<vault, server, round>>
          /\ \A e \in Device : e # d => sync'[e] = sync[e]
      BY <1>4, <1>t, SentList
    <2>3. goal'[d] = 2 => AllOnce /\ blob # None
      BY <1>t, <2>1 DEF RoundInv, AllOnce, TypeOK
    <2>4. blob # None => TakesIn(PullMerged(working), blob.list)
      BY <2>1, PulledRetains DEF KnownInv
    <2>5. AllOnce' = AllOnce /\ blob' = blob
      BY <2>2 DEF AllOnce, server
    <2>6. ASSUME NEW e \in Device, Busy(e)', goal'[e] = 2
          PROVE  AllOnce /\ TakesIn(InHand(e)', blob.list)
      <3>1. CASE e = d
        BY <2>1, <2>3, <2>4, <2>6, <3>1
      <3>2. CASE e # d
        <4>1. goal'[e] = goal[e]
          BY <1>t, <2>1, <3>2 DEF TypeOK
        <4>2. Busy(e) /\ InHand(e)' = InHand(e)
          BY <2>2, <2>6, <3>2 DEF Busy, InHand
        <4>3. QED
          BY <2>6, <4>1, <4>2 DEF RoundInv
      <3>3. QED
        BY <3>1, <3>2
    <2>7. QED
      BY <2>2, <2>5, <2>6 DEF RoundInv
  <1>5. ASSUME NEW d \in Device, HearsOk(d) PROVE RoundInv'
    <2>1. /\ Busy(d) /\ vault'[d] = InHand(d) /\ sync'[d] = Idle
          /\ UNCHANGED server
          /\ \A e \in Device : e # d => vault'[e] = vault[e] /\ sync'[e] = sync[e]
      BY <1>5, <1>t, HeardList
    <2>2. /\ sync[d].phase = "ok" /\ goal' = goal
          /\ round'[d] = goal[d] /\ goal[d] \in 1 .. 2
          /\ \A e \in Device : e # d => round'[e] = round[e]
      BY <1>5, <1>t DEF HearsOk, TypeOK
    <2>3. blob # None /\ Holds(blob.list, InHand(d))
      BY <2>2 DEF ServerInv, Retains
    <2>4. AllOnce => AllOnce'
      BY <2>2 DEF AllOnce
    <2>5. \A e \in Device : Busy(e)' => e # d /\ Busy(e) /\ InHand(e)' = InHand(e)
      BY <2>1 DEF Busy, InHand
    <2>6. QED
      BY <2>1, <2>2, <2>3, <2>4, <2>5 DEF RoundInv, server
  <1>6. QED
    BY <1>1, <1>2, <1>3, <1>4, <1>5, <1>t, SyncSteps

\* No round has been finished at first.
LEMMA RoundInit == Init => SourcedInv /\ RoundInv
  <1> SUFFICES ASSUME Init PROVE SourcedInv /\ RoundInv
    OBVIOUS
  <1>1. Pushes = {} /\ \A d \in Device : ~Busy(d)
    BY DEF Init, Pushes, Waiting, Busy, Idle
  <1>2. \A d \in Device : round[d] = 0
    BY DEF Init
  <1>3. QED
    BY <1>1, <1>2 DEF SourcedInv, RoundInv

\* The devices converge: once each has synced since the last edit anywhere,
\* and then once more, all hold the same accounts at the same counters
\* (sync/mod.rs:97-106), where ids agree on the kind of account.
THEOREM SyncConverges ==
    ASSUME Agreeing(Enrollable)
    PROVE  Spec => []TwoRoundsConverge
  <1> DEFINE Inv == KnownInv /\ ServerInv /\ SourcedInv /\ RoundInv
  <1>1. Init => Inv
    BY ServerInit, RoundInit
  <1>2. SyncInv /\ Inv /\ [Next]_vars => Inv'
    BY KnownStep, ServerInvStep, SourcedStep, RoundStep
  <1>3. SyncInv /\ Inv => TwoRoundsConverge
    <2> SUFFICES ASSUME SyncInv, Inv, \A d \in Device : round[d] = 2,
                        NEW d \in Device, NEW e \in Device
                 PROVE  Covers(vault[d], vault[e])
      BY DEF TwoRoundsConverge, Agree
    <2>1. /\ vault[d] \in Seq(Account) /\ vault[e] \in Seq(Account)
          /\ blob # None /\ blob.list \in Seq(Account)
      BY DEF SyncInv, TypeOK, Blob, RoundInv
    <2>2. TakesIn(vault[d], blob.list) /\ Holds(blob.list, vault[e])
      BY DEF RoundInv
    <2>3. QED
      BY <2>1, <2>2, TakesInComposes, TakesInKeepsUp, KeepsUpCovers
  <1>4. QED
    BY <1>1, <1>2, <1>3, SyncInvariance, PTL DEF Spec
=============================================================================
