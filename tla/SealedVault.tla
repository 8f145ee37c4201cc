----------------------------- MODULE SealedVault -----------------------------
(***************************************************************************)
(* The sealed vault at rest and in transit: src/vault/mod.rs and           *)
(* src/crypto/mod.rs with their callers in src/ui.rs, and the blob of      *)
(* src/sync/mod.rs.                                                        *)
(*                                                                         *)
(* Nothing keeps two instances of the application from running on one      *)
(* vault file.  Each reads it once, at start-up, and from then on writes   *)
(* the file it holds in memory over whatever is there.  Writing is one     *)
(* step (AtomicWrite), and so is a sync (VaultSync): what is told apart    *)
(* here is which key opens what.                                           *)
(***************************************************************************)
EXTENDS Envelope

VaultData(items) == [accounts |-> items]   \* a set, for what is told apart here

CONSTANTS Instance,
          None,
          Item,        \* accounts
          MaxDraws     \* bound: salts and keys drawn in all
ASSUME SealedVaultAssumption == /\ Contents = {VaultData(s) : s \in SUBSET Item}
                                /\ MaxDraws \in Nat

VARIABLES disk,      \* the vault file, or None
          file,      \* AppState.file of each instance, or None
          data, dek, \* AppState.data and AppState.dek, or None
          blob,      \* the blob the sync server stores, or None
          draws,     \* how many salts and keys have been drawn
          typed,     \* history: the passcode an instance was opened with
          chosen     \* history: the passcode each data key was made for
vars == <<disk, file, data, dek, blob, draws, typed, chosen>>
memory == <<file, data, dek, typed>>

Init == /\ disk = None
        /\ file = [i \in Instance |-> None]
        /\ data = [i \in Instance |-> None]
        /\ dek = [i \in Instance |-> None]
        /\ blob = None
        /\ draws = 0
        /\ typed = [i \in Instance |-> None]
        /\ chosen = [n \in 1 .. MaxDraws |-> None]

\* run(): a file that cannot be read or parsed counts as no vault.
Starts(i) ==
    /\ data[i] = None
    /\ \E f \in {disk, None} : file' = [file EXCEPT ![i] = f]
    /\ UNCHANGED <<disk, data, dek, blob, draws, typed, chosen>>

\* persist: the whole file, over whatever is there; a failure is only logged.
Persisted_PayloadOnly(f) ==
    disk' = IF disk = None THEN f ELSE [disk EXCEPT !.payload = f.payload]
Persisted(f) == disk' \in {f, disk}
Holds(i, f, contents) == /\ file' = [file EXCEPT ![i] = f]
                         /\ data' = [data EXCEPT ![i] = contents]
                         /\ Persisted(f)

Creates(i, passcode) ==
    /\ file[i] = None
    /\ draws < MaxDraws
    /\ draws' = draws + 1
    /\ Holds(i, Created(passcode, draws', VaultData({})), VaultData({}))
    /\ dek' = [dek EXCEPT ![i] = DataKey(draws')]
    /\ typed' = [typed EXCEPT ![i] = passcode]
    /\ chosen' = [chosen EXCEPT ![draws'] = passcode]
    /\ UNCHANGED blob

Unlocks(i, passcode) ==
    /\ file[i] # None
    /\ data[i] = None
    /\ CanUnlock(file[i], passcode)
    /\ data' = [data EXCEPT ![i] = UnlockedData(file[i])]
    /\ dek' = [dek EXCEPT ![i] = UnlockedDek(file[i])]
    /\ typed' = [typed EXCEPT ![i] = passcode]
    /\ UNCHANGED <<disk, file, blob, draws, chosen>>

Reseals(i, contents) == Holds(i, Resealed(file[i], dek[i], contents), contents)
Enrolls(i, item) ==
    /\ data[i] # None
    /\ Reseals(i, VaultData(data[i].accounts \cup {item}))
    /\ UNCHANGED <<dek, blob, draws, typed, chosen>>

\* A blob that does not open ends the sync.  (Bound: every upload draws the same
\* salt, none of the file's; a blob is gone when the next one is stored.)
UploadSalt == MaxDraws + 1
Syncs(i, password) ==
    /\ data[i] # None
    /\ blob # None => CanOpenDownloaded(blob, password)
    /\ LET merged == IF blob = None THEN data[i]
                     ELSE VaultData(data[i].accounts
                                    \cup Plaintext(blob.ciphertext).accounts)
       IN  /\ blob' = SealedForUpload(merged, password, UploadSalt)
           /\ Reseals(i, merged)
    /\ UNCHANGED <<dek, draws, typed, chosen>>

Forgets(i) == /\ data' = [data EXCEPT ![i] = None]
              /\ dek' = [dek EXCEPT ![i] = None]
              /\ typed' = [typed EXCEPT ![i] = None]
              /\ UNCHANGED <<disk, blob, draws, chosen>>
Locks(i) == Forgets(i) /\ UNCHANGED file
Quits(i) == Forgets(i) /\ file' = [file EXCEPT ![i] = None]

\* A bad sector, a half restored backup, another version of the application.
\* (Bound: one thing is wrong at a time.)
Sound(f) == f # None => \E passcode \in Secret : CanUnlock(f, passcode)
DiskIsHarmed == /\ disk # None
                /\ Sound(disk) /\ \A i \in Instance : Sound(file[i])
                /\ \E f \in DamagedFile(disk) : disk' = f
                /\ UNCHANGED <<memory, blob, draws, chosen>>
BlobIsHarmed == /\ blob # None
                /\ \E password \in Secret : CanOpenDownloaded(blob, password)
                /\ \E b \in DamagedBlob(blob) : blob' = b
                /\ UNCHANGED <<memory, disk, draws, chosen>>

Next == \/ \E i \in Instance :
              \/ Starts(i) \/ Locks(i) \/ Quits(i)
              \/ \E secret \in Secret :
                    Creates(i, secret) \/ Unlocks(i, secret) \/ Syncs(i, secret)
              \/ \E item \in Item : Enrolls(i, item)
        \/ DiskIsHarmed \/ BlobIsHarmed

Spec == Init /\ [][Next]_vars

-----------------------------------------------------------------------------
(* Properties *)

\* The shape of the state (vault/mod.rs:222-240).
Sealed == [key : {DerivedKey(s, n, "default") : s \in Secret, n \in 1 .. UploadSalt}
                 \cup {DataKey(n) : n \in 1 .. MaxDraws},
           aad : {Wrapping, VaultPayload, SyncBlob},
           body : Contents \cup {DataKey(n) : n \in 1 .. MaxDraws},
           nonce : BOOLEAN, intact : BOOLEAN]
Salt == [value : 0 .. UploadSalt, length : BOOLEAN]
File == [format_version : CurrentFormat .. CurrentFormat + 1, kdf_salt : Salt,
         kdf_params : KdfParams, wrapped_dek : Sealed, payload : Sealed]
TypeOK == /\ disk \in File \cup {None}
          /\ file \in [Instance -> File \cup {None}]
          /\ data \in [Instance -> Contents \cup {None}]
          /\ dek \in [Instance -> {DataKey(n) : n \in 1 .. MaxDraws} \cup {None}]
          /\ blob \in [ciphertext : Sealed, kdf_salt : Salt, kdf_params : KdfParams]
                      \cup {None}
          /\ draws \in 0 .. MaxDraws
          /\ typed \in [Instance -> Secret \cup {None}]
          /\ chosen \in [1 .. MaxDraws -> Secret \cup {None}]

\* Whoever has a vault open holds a file that the same passcode opens again, to
\* exactly what is open and under the key in memory: after any number of
\* enrollments, syncs and writes of other instances, locking loses nothing
\* (vault/mod.rs:306-329, ui.rs:1006-1017).
OpenVaultReopens ==
    \A i \in Instance : data[i] # None =>
        /\ CanUnlock(file[i], typed[i])
        /\ UnlockedData(file[i]) = data[i]
        /\ UnlockedDek(file[i]) = dek[i]

\* Nothing but its own passcode opens a vault, and never to anything that was
\* not sealed in it: a file or blob that came to harm opens for nobody
\* (crypto/mod.rs:105-125, vault/mod.rs:306-323, sync/mod.rs:66-87).
OnlyItsPasscodeOpens ==
    \A i \in Instance : data[i] # None =>
        /\ typed[i] = chosen[dek[i].random]
        /\ data[i] \in Contents

\* What a file amounts to: who opens it, and what is in it.
Plain(f) ==
    IF f = None THEN None
    ELSE LET openers == {s \in Secret : CanUnlock(f, s)}
         IN  [opens |-> openers,
              data |-> IF openers = {} THEN None ELSE UnlockedData(f)]
\* None is no file, sealed or plain.
ASSUME NoneAssumption == None \notin File \cup [opens : SUBSET Secret, data : Contents]
AsSafe == INSTANCE Safe WITH disk <- Plain(disk),
                             held <- [i \in Instance |-> Plain(file[i])],
                             opened <- data

\* Two instances that write over each other leave one file of one of them,
\* never a mixture no passcode opens: the vault implements a safe
\* (ui.rs:1121-1139).
ImplementsSafe == AsSafe!Spec
=============================================================================
