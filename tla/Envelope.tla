------------------------------- MODULE Envelope -------------------------------
(***************************************************************************)
(* How the application seals things: src/crypto/mod.rs, the vault file of  *)
(* src/vault/mod.rs and the blob src/sync/mod.rs uploads.                  *)
(*                                                                         *)
(* Cryptography is symbolic.  A key is a record of what it is made from, a *)
(* sealed bundle names its key, its purpose (the AAD) and its body, and    *)
(* opens only under that key for that purpose while no byte of it has      *)
(* changed.  Of a length only "right or wrong" is kept, and of the Argon2  *)
(* parameters whether they are the ones sealed with, merely other, beyond  *)
(* the bounds of the protocol, or beyond what Argon2 accepts.              *)
(***************************************************************************)
EXTENDS Naturals

CONSTANTS Secret,    \* passcodes and account passwords
          Contents,  \* what a VaultData may hold
          Garbage    \* what bytes that were tampered with would decrypt to
ASSUME GarbageAssumption == Garbage \notin Contents

KdfParams == {"default", "other", "excessive", "invalid"}
IsSane(params) == params \in {"default", "other"}

\* Salts and data keys are drawn at random, which here numbers them.
DerivedKey(secret, salt, params) == [secret |-> secret, salt |-> salt, params |-> params]
DataKey(n) == [random |-> n]

Wrapping == "3fa-dek-wrap-v1"
VaultPayload == "3fa-vault-payload-v1"
SyncBlob == "3fa-sync-blob-v1"

Seal(key, aad, body) ==
    [key |-> key, aad |-> aad, body |-> body, nonce |-> TRUE, intact |-> TRUE]
Opens_NoTag(key, sealed, aad) == sealed.key = key
Opens(key, sealed, aad) ==
    sealed.intact /\ sealed.key = key /\ sealed.aad = aad
Plaintext(sealed) == IF sealed.intact THEN sealed.body ELSE Garbage

-----------------------------------------------------------------------------
(* The vault file *)

CurrentFormat == 1
Created(passcode, n, data) ==
    [format_version |-> CurrentFormat,
     kdf_salt    |-> [value |-> n, length |-> TRUE],
     kdf_params  |-> "default",
     wrapped_dek |-> Seal(DerivedKey(passcode, n, "default"), Wrapping, DataKey(n)),
     payload     |-> Seal(DataKey(n), VaultPayload, data)]

Resealed_NewKey(file, dek, data) ==
    [file EXCEPT !.payload = Seal(DataKey(dek.random + 1), VaultPayload, data)]
Resealed(file, dek, data) ==
    [file EXCEPT !.payload = Seal(dek, VaultPayload, data)]

\* VaultFile::unlock: the key derived is never looked at again.
FileKey(file, passcode) ==
    DerivedKey(passcode, file.kdf_salt.value, file.kdf_params)
CanUnlock(file, passcode) ==
    /\ file.format_version = CurrentFormat
    /\ file.kdf_salt.length
    /\ file.kdf_params # "invalid"
    /\ file.wrapped_dek.nonce
    /\ Opens(FileKey(file, passcode), file.wrapped_dek, Wrapping)
    /\ file.payload.nonce
    /\ Opens(Plaintext(file.wrapped_dek), file.payload, VaultPayload)
UnlockedDek(file) == Plaintext(file.wrapped_dek)
UnlockedData(file) == Plaintext(file.payload)

-----------------------------------------------------------------------------
(* The blob of a sync: a key of its own for each upload, from the password *)

SealedForUpload(data, password, n) ==
    [ciphertext |-> Seal(DerivedKey(password, n, "default"), SyncBlob, data),
     kdf_salt   |-> [value |-> n, length |-> TRUE],
     kdf_params |-> "default"]

\* Structure only, before any key is derived.
IsWellFormed(blob) == /\ blob.ciphertext.nonce
                      /\ blob.kdf_salt.length
                      /\ IsSane(blob.kdf_params)
CanOpenDownloaded(blob, password) ==
    /\ IsWellFormed(blob)
    /\ Opens(DerivedKey(password, blob.kdf_salt.value, blob.kdf_params),
             blob.ciphertext, SyncBlob)

-----------------------------------------------------------------------------
(* What storage or transport may do to either *)

DamagedSeal(sealed) == {[sealed EXCEPT !.nonce = FALSE], [sealed EXCEPT !.intact = FALSE]}
DamagedHeader(x) ==
    {[x EXCEPT !.kdf_salt.length = FALSE], [x EXCEPT !.kdf_salt.value = 0]}
    \cup {[x EXCEPT !.kdf_params = p] : p \in KdfParams \ {"default"}}
DamagedFile(file) ==
    {[file EXCEPT !.format_version = CurrentFormat + 1]}
    \cup DamagedHeader(file)
    \cup {[file EXCEPT !.wrapped_dek = s] : s \in DamagedSeal(file.wrapped_dek)}
    \cup {[file EXCEPT !.payload = s] : s \in DamagedSeal(file.payload)}
DamagedBlob(blob) ==
    DamagedHeader(blob)
    \cup {[blob EXCEPT !.ciphertext = s] : s \in DamagedSeal(blob.ciphertext)}
=============================================================================
