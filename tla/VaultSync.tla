------------------------------ MODULE VaultSync ------------------------------
(***************************************************************************)
(* src/sync/mod.rs: devices reconcile their vaults through one server that *)
(* stores a sealed account list and the version vector it was accepted at. *)
(* A device runs synchronize: pull, merge into its own list, push the      *)
(* result based on the version pulled, and start over on a conflict, at    *)
(* most MaxAttempts times.  Requests and answers get lost or late: a       *)
(* device stops waiting at any moment (timeout, crash), and a push it has  *)
(* given up on may still reach the server, any time later.                 *)
(*                                                                         *)
(* Lists travel sealed under the password typed for that sync.  A list     *)
(* sealed under another one does not open, and that ends the sync.  A      *)
(* device is known to the server by a random id kept in config.json; one   *)
(* whose config is gone, unreadable or was never written starts again      *)
(* under a new id (src/config.rs).                                         *)
(*                                                                         *)
(* The server is the reconcile rule the module's tests mirror from the     *)
(* backend.  acked, round and goal are history variables.                  *)
(***************************************************************************)
EXTENDS VaultContents, FiniteSets

CONSTANTS Device,
          DeviceId,       \* the random ids devices may draw
          Password,       \* what may be typed as the account password
          None,           \* the server holds no blob yet
          Enrollable,     \* accounts a user may enroll
          MaxAccounts,    \* bound: no list is enrolled past this length
          MaxAttempts,    \* SYNC_MAX_ATTEMPTS: 4 in the code
          MaxEntries,     \* MAX_VERSION_ENTRIES: 64 in the code
          MaxPushes,      \* bound: pushes the server accepts under one id
          MaxLate         \* bound: pushes that can be under way late at once
ASSUME SyncAssumption ==
    /\ IsFiniteSet(Device)
    /\ None \notin [list : Seq(Account), password : Password]
    /\ Enrollable \subseteq Account
    /\ MaxAttempts \in Nat \ {0}
    /\ MaxEntries \in Nat
    /\ MaxPushes \in Nat

VARIABLES vault,     \* each device's account list
          deviceId,  \* SyncConfig.device_id of each device
          sync,      \* each device's run of synchronize
          late,      \* pushes given up on that may still reach the server
          blob,      \* the sealed account list the server stores, or None
          version,   \* its version vector; an id not named in it is at 0
          acked,     \* how far devices were told the server has each account
          round,     \* how often each device synced since the last edit
          goal       \* what finishing the sync it is in will make that
vars == <<vault, deviceId, sync, late, blob, version, acked, round, goal>>
server == <<blob, version>>
history == <<acked, round, goal>>

Version == [DeviceId -> 0 .. MaxPushes]
Idle == [phase |-> "idle"]
Blob == [list : Seq(Account), password : Password]
Push == [device_id : DeviceId, blob : Blob, base_version : Version]

WellFormed(v) == Cardinality({i \in DeviceId : v[i] > 0}) <= MaxEntries
Dominates_Always(v, w) == TRUE
Dominates(v, w) == \A i \in DeviceId : v[i] >= w[i]
Bumped(v, i) == [v EXCEPT ![i] = @ + 1]

\* How far a list has an account: 0 when it lacks it, else its counter + 1.
Reach(list, id) == IF id \in Ids(list) THEN CounterOf(list, id) + 1 ELSE 0

Init == /\ vault = [d \in Device |-> <<>>]
        /\ deviceId \in [Device -> DeviceId]
        /\ \A d, e \in Device : deviceId[d] = deviceId[e] => d = e
        /\ sync = [d \in Device |-> Idle]
        /\ late = {}
        /\ blob = None
        /\ version = [i \in DeviceId |-> 0]
        /\ acked = [id \in Id |-> 0]
        /\ round = [d \in Device |-> 0]
        /\ goal = [d \in Device |-> 1]

-----------------------------------------------------------------------------
(* What happens between syncs: a sync occupies the UI thread, so a         *)
(* device's own list never changes under it, though the others' do.        *)

Edit(d, list) == /\ sync[d] = Idle
                 /\ vault' = [vault EXCEPT ![d] = list]
                 /\ round' = [e \in Device |-> 0]
                 /\ goal' = [e \in Device |-> 1]
                 /\ UNCHANGED <<deviceId, sync, late, server, acked>>
Enroll(d, account) == /\ Len(vault[d]) < MaxAccounts
                      /\ Edit(d, Append(vault[d], account))
Spend(d, id) == CanAdvance(vault[d], id) /\ Edit(d, Advanced(vault[d], id))

\* run() finds no readable config: SyncConfig::load gives an empty one and
\* ensure_device_id draws an id nobody has had.
Drawn == {deviceId[d] : d \in Device} \cup {i \in DeviceId : version[i] > 0}
         \cup {push.device_id : push \in late}
StartsUnderNewId(d) ==
    /\ sync[d] = Idle
    /\ \E i \in DeviceId \ Drawn : deviceId' = [deviceId EXCEPT ![d] = i]
    /\ UNCHANGED <<vault, sync, late, server, history>>

-----------------------------------------------------------------------------
(* synchronize *)

\* Pull, merge, and send a push based on the version just seen.
Readable_Always(password) == TRUE
Readable(password) == blob # None => blob.password = password
PullMerged(working) == IF blob = None THEN working ELSE Merged(working, blob.list)
Sends(d, attempt, working, password) ==
    /\ Readable(password)
    /\ sync' = [sync EXCEPT ![d] =
                  [phase |-> "wait", attempt |-> attempt,
                   push |-> [device_id |-> deviceId[d],
                             blob |-> [list |-> PullMerged(working),
                                       password |-> password],
                             base_version |-> version]]]
    /\ UNCHANGED <<vault, deviceId, late, server, acked, round>>
PullAndPush_Unchecked(d, attempt, working, password) ==
    Sends(d, attempt, working, password)
PullAndPush(d, attempt, working, password) ==
    WellFormed(version) /\ Sends(d, attempt, working, password)
Begins(d, password) ==
    /\ sync[d] = Idle
    /\ PullAndPush(d, 1, vault[d], password)
    /\ goal' = [goal EXCEPT ![d] =
                  IF \A e \in Device : round[e] >= 1 THEN 2 ELSE 1]
Retries(d) ==
    /\ sync[d].phase = "retry"
    /\ PullAndPush(d, sync[d].attempt, sync[d].working.list, sync[d].working.password)
    /\ UNCHANGED goal

\* The list pulled does not open or its vector is malformed: nothing is sent.
StopsAtPull(d, password) == /\ sync[d] = Idle
                            /\ ~(WellFormed(version) /\ Readable(password))
                            /\ UNCHANGED vars

\* The server's reconcile rule.
Accepts(push) == /\ Dominates(push.base_version, version)
                 /\ version[push.device_id] < MaxPushes
                 /\ blob' = push.blob
                 /\ version' = Bumped(push.base_version, push.device_id)
\* A version only grows: a push it has outgrown is refused for ever.
Pending(pushes) == {push \in pushes : Dominates(push.base_version, version')}
ServerAccepts(d) ==
    /\ sync[d].phase = "wait"
    /\ Accepts(sync[d].push)
    /\ sync' = [sync EXCEPT ![d] =
                  [phase |-> "ok", list |-> @.push.blob.list, seen |-> version']]
    /\ late' = Pending(late)
    /\ UNCHANGED <<vault, deviceId, history>>

\* A refusal leaves the server as it was, so hearing it is part of the step:
\* the merge is folded into the working list and the device pulls again.
ServerRefuses(d) ==
    /\ sync[d].phase = "wait"
    /\ ~Dominates(sync[d].push.base_version, version)
    /\ WellFormed(version)
    /\ sync[d].attempt < MaxAttempts
    /\ sync' = [sync EXCEPT ![d] =
                  [phase |-> "retry", attempt |-> @.attempt + 1,
                   working |-> @.push.blob]]
    /\ UNCHANGED <<vault, deviceId, late, server, history>>

\* Nobody hears the answer to a late push.  One that would be refused changes
\* nothing at the server, so only accepted ones are steps; a lost one is
\* simply never taken.
LateAccepted(push) ==
    /\ Accepts(push)
    /\ late' = Pending(late \ {push})
    /\ UNCHANGED <<vault, deviceId, sync, history>>

\* The merge becomes the device's vault only when the push is known accepted.
HearsOk(d) ==
    /\ sync[d].phase = "ok"
    /\ WellFormed(sync[d].seen)
    /\ vault' = [vault EXCEPT ![d] = sync[d].list]
    /\ sync' = [sync EXCEPT ![d] = Idle]
    /\ acked' = [id \in Id |->
                   IF Reach(sync[d].list, id) > acked[id]
                   THEN Reach(sync[d].list, id) ELSE acked[id]]
    /\ round' = [round EXCEPT ![d] = goal[d]]
    /\ UNCHANGED <<deviceId, late, server, goal>>

\* An error, a timeout, a list that does not open, a malformed vector, a
\* conflict too many, a crash: the vault stays what it was, whatever becomes of
\* a push already sent.
GivesUp(d) ==
    /\ sync[d] # Idle
    /\ sync' = [sync EXCEPT ![d] = Idle]
    /\ UNCHANGED <<vault, deviceId, server, history>>
    /\ late' = IF sync[d].phase = "wait" /\ Cardinality(late) < MaxLate
               THEN Pending(late \cup {sync[d].push})
               ELSE late

Next == \/ \E d \in Device :
              \/ \E account \in Enrollable : Enroll(d, account)
              \/ \E id \in Id : Spend(d, id)
              \/ StartsUnderNewId(d)
              \/ \E password \in Password :
                    Begins(d, password) \/ StopsAtPull(d, password)
              \/ Retries(d)
              \/ ServerAccepts(d) \/ ServerRefuses(d)
              \/ HearsOk(d) \/ GivesUp(d)
        \/ \E push \in late : LateAccepted(push)

Spec == Init /\ [][Next]_vars

-----------------------------------------------------------------------------
(* Properties *)

SyncState ==
    {Idle}
    \cup [phase : {"wait"}, attempt : 1 .. MaxAttempts, push : Push]
    \cup [phase : {"retry"}, attempt : 1 .. MaxAttempts, working : Blob]
    \cup [phase : {"ok"}, list : Seq(Account), seen : Version]
\* The shape of the state (sync/mod.rs:139-191).
TypeOK == /\ vault \in [Device -> Seq(Account)]
          /\ deviceId \in [Device -> DeviceId]
          /\ sync \in [Device -> SyncState]
          /\ late \in SUBSET Push
          /\ blob \in Blob \cup {None}
          /\ version \in Version
          /\ acked \in [Id -> 0 .. MaxCounter + 1]
          /\ round \in [Device -> 0 .. 2]
          /\ goal \in [Device -> 1 .. 2]

\* list holds every account of other, each at least as far advanced.
Covers(list, other) == \A id \in Id : Reach(list, id) >= Reach(other, id)

\* What a device was told is synced stays on the server: no later push, late,
\* retried or racing, takes an account away or winds a counter back
\* (sync/mod.rs:96-106, 133-139).
AckedStaysOnServer ==
    \A id \in Id : acked[id] > 0 => blob # None /\ Reach(blob.list, id) >= acked[id]

\* Syncing never costs a device anything it holds, however the sync ends
\* (sync/mod.rs:91-95).
LocalNeverLosesGround ==
    [][ \A d \in Device : Covers(vault'[d], vault[d]) ]_vars

\* Merging the same list again, as a retry after a lost answer does, never
\* enrolls an id a second time (sync/mod.rs:108-119).
Copies(list, id) == Cardinality({n \in DOMAIN list : list[n].id = id})
SyncAddsAnIdOnce ==
    [][ \A d \in Device : sync[d] # Idle =>
          \A id \in Ids(vault'[d]) :
              Copies(vault'[d], id) <= Copies(vault[d], id) \/
              Copies(vault'[d], id) = 1 ]_vars

\* The devices converge: once each has synced since the last edit anywhere,
\* and then once more, all hold the same accounts at the same counters
\* (sync/mod.rs:97-106).
Agree(list, other) == Covers(list, other) /\ Covers(other, list)
TwoRoundsConverge ==
    (\A d \in Device : round[d] = 2) =>
        \A d, e \in Device : Agree(vault[d], vault[e])

\* Whoever can open the list on the server still can after any sync, wrong
\* password, race on an empty server or late push: no device that cannot open
\* it replaces it (sync/mod.rs:154-159).
BlobPasswordIsKept == [][ blob # None => blob'.password = blob.password ]_vars

\* A vector that names more devices than the protocol allows ends syncing for
\* everyone, with nothing lost: no push, late or new, is ever accepted on top
\* of it (protocol.rs:131-141, sync/mod.rs:147-153).
OverfullVectorFreezes == [][ ~WellFormed(version) => UNCHANGED server ]_vars
=============================================================================
