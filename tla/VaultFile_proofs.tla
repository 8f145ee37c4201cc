--------------------------- MODULE VaultFile_proofs ---------------------------
(***************************************************************************)
(* Proofs about the vault file.  As SealedVault sees it: whoever has a     *)
(* vault open can open it again, nobody else ever could, and any number of *)
(* instances implement a safe.  As AtomicWrite sees it: for any number of  *)
(* processes and any contents the path never names a truncated file, and   *)
(* the write implements an atomic register.                                *)
(***************************************************************************)
EXTENDS SealedVault, AtomicWrite, TLAPS

-----------------------------------------------------------------------------
(* THE SEALED VAULT *)


\* The files made for a passcode under a data key, whatever came to harm since:
\* no harm changes what a seal was made with.
MadeFor(n, passcode) ==
    {f \in File : /\ f.wrapped_dek.key = DerivedKey(passcode, n, "default")
                  /\ f.wrapped_dek.aad = Wrapping
                  /\ f.wrapped_dek.body = DataKey(n)
                  /\ f.payload.key = DataKey(n)
                  /\ f.payload.aad = VaultPayload
                  /\ f.payload.body \in Contents}

-----------------------------------------------------------------------------
(* One file *)

LEMMA UnlockGives ==
    ASSUME NEW n \in 1 .. MaxDraws, NEW passcode \in Secret,
           NEW f \in MadeFor(n, passcode), NEW p, CanUnlock(f, p)
    PROVE  /\ p = passcode
           /\ f.kdf_salt.value = n
           /\ f.kdf_params = "default"
           /\ UnlockedDek(f) = DataKey(n)
           /\ UnlockedData(f) \in Contents
           /\ UnlockedData(f) = f.payload.body
  BY DEF CanUnlock, MadeFor, Opens, FileKey, DerivedKey, DataKey, Plaintext,
         UnlockedDek, UnlockedData

LEMMA CreatedIsMade ==
    ASSUME NEW n \in 1 .. MaxDraws, NEW passcode \in Secret, NEW c \in Contents
    PROVE  /\ Created(passcode, n, c) \in MadeFor(n, passcode)
           /\ CanUnlock(Created(passcode, n, c), passcode)
           /\ UnlockedDek(Created(passcode, n, c)) = DataKey(n)
           /\ UnlockedData(Created(passcode, n, c)) = c
  <1> DEFINE f == Created(passcode, n, c)
  <1>1. f \in MadeFor(n, passcode)
    BY SealedVaultAssumption
    DEF Created, MadeFor, File, Sealed, Salt, Seal, KdfParams, UploadSalt, CurrentFormat
  <1>2. CanUnlock(f, passcode)
    BY DEF Created, CanUnlock, Opens, Seal, FileKey, Plaintext
  <1>3. UnlockedDek(f) = DataKey(n) /\ UnlockedData(f) = c
    BY DEF Created, UnlockedDek, UnlockedData, Seal, Plaintext
  <1> QED
    BY <1>1, <1>2, <1>3

LEMMA ResealedIsMade ==
    ASSUME NEW n \in 1 .. MaxDraws, NEW passcode \in Secret,
           NEW f \in MadeFor(n, passcode), NEW c \in Contents,
           CanUnlock(f, passcode)
    PROVE  /\ Resealed(f, DataKey(n), c) \in MadeFor(n, passcode)
           /\ CanUnlock(Resealed(f, DataKey(n), c), passcode)
           /\ UnlockedDek(Resealed(f, DataKey(n), c)) = DataKey(n)
           /\ UnlockedData(Resealed(f, DataKey(n), c)) = c
  <1> DEFINE s == Seal(DataKey(n), VaultPayload, c)
             g == [f EXCEPT !.payload = s]
  <1>1. f \in File
    BY DEF MadeFor
  <1>2. s \in Sealed
    BY DEF Seal, Sealed
  <1>3. /\ g \in File
        /\ g.payload = s
        /\ g.wrapped_dek = f.wrapped_dek
        /\ g.kdf_salt = f.kdf_salt
        /\ g.kdf_params = f.kdf_params
        /\ g.format_version = f.format_version
    BY <1>1, <1>2 DEF File
  <1>4. /\ s.key = DataKey(n) /\ s.aad = VaultPayload /\ s.body = c
        /\ s.nonce = TRUE /\ s.intact = TRUE
    BY DEF Seal
  <1> HIDE DEF s, g
  <1>5. g \in MadeFor(n, passcode)
    BY <1>3, <1>4 DEF MadeFor
  <1>6. UnlockedDek(g) = DataKey(n)
    BY <1>3, UnlockGives DEF UnlockedDek
  <1>7. CanUnlock(g, passcode)
    BY <1>3, <1>4, <1>6 DEF CanUnlock, FileKey, Opens, UnlockedDek
  <1>8. UnlockedData(g) = c
    BY <1>3, <1>4 DEF UnlockedData, Plaintext
  <1> QED
    BY <1>5, <1>6, <1>7, <1>8 DEF Resealed, g, s

-----------------------------------------------------------------------------
(* A file that comes to harm *)

LEMMA DamagedSealIsSealed ==
    ASSUME NEW s \in Sealed, NEW t \in DamagedSeal(s)
    PROVE  /\ t \in Sealed
           /\ t.key = s.key /\ t.aad = s.aad /\ t.body = s.body
  <1> DEFINE K == {DerivedKey(p, n, "default") : p \in Secret, n \in 1 .. UploadSalt}
                  \cup {DataKey(n) : n \in 1 .. MaxDraws}
             A == {Wrapping, VaultPayload, SyncBlob}
             B == Contents \cup {DataKey(n) : n \in 1 .. MaxDraws}
  <1>1. Sealed = [key : K, aad : A, body : B, nonce : BOOLEAN, intact : BOOLEAN]
    BY DEF Sealed
  <1> HIDE DEF K, A, B
  <1>2. CASE t = [s EXCEPT !.nonce = FALSE]
    BY <1>1, <1>2
  <1>3. CASE t = [s EXCEPT !.intact = FALSE]
    BY <1>1, <1>3
  <1> QED
    BY <1>2, <1>3 DEF DamagedSeal

LEMMA DamagedHeaderIsHeader ==
    ASSUME NEW f \in File, NEW g \in DamagedHeader(f)
    PROVE  /\ g \in File
           /\ g.wrapped_dek = f.wrapped_dek /\ g.payload = f.payload
  <1>1. /\ f.kdf_salt \in Salt
        /\ [f.kdf_salt EXCEPT !.length = FALSE] \in Salt
        /\ [f.kdf_salt EXCEPT !.value = 0] \in Salt
    <2> DEFINE S == 0 .. UploadSalt
    <2>1. Salt = [value : S, length : BOOLEAN] /\ 0 \in S
      BY SealedVaultAssumption DEF Salt, UploadSalt
    <2>2. f.kdf_salt \in Salt
      BY DEF File
    <2> HIDE DEF S
    <2> QED
      BY <2>1, <2>2
  <1> DEFINE V == CurrentFormat .. CurrentFormat + 1
  <1>2. File = [format_version : V, kdf_salt : Salt, kdf_params : KdfParams,
                wrapped_dek : Sealed, payload : Sealed]
    BY DEF File
  <1> HIDE DEF V
  <1>3. CASE g = [f EXCEPT !.kdf_salt.length = FALSE]
    BY <1>1, <1>2, <1>3
  <1>4. CASE g = [f EXCEPT !.kdf_salt.value = 0]
    BY <1>1, <1>2, <1>4
  <1>5. CASE \E p \in KdfParams : g = [f EXCEPT !.kdf_params = p]
    BY <1>2, <1>5
  <1> QED
    BY <1>3, <1>4, <1>5 DEF DamagedHeader

LEMMA DamageKeeps ==
    ASSUME NEW n \in 1 .. MaxDraws, NEW passcode \in Secret,
           NEW f \in MadeFor(n, passcode), NEW g \in DamagedFile(f)
    PROVE  g \in MadeFor(n, passcode)
  <1>1. f \in File
    BY DEF MadeFor
  <1>3. f.wrapped_dek \in Sealed /\ f.payload \in Sealed
    BY <1>1 DEF File
  <1>4. CASE g = [f EXCEPT !.format_version = CurrentFormat + 1]
    <2>1. /\ g \in File
          /\ g.wrapped_dek = f.wrapped_dek /\ g.payload = f.payload
      BY <1>1, <1>4 DEF File, CurrentFormat
    <2> QED
      BY <2>1 DEF MadeFor
  <1>5. CASE g \in DamagedHeader(f)
    BY <1>1, <1>5, DamagedHeaderIsHeader DEF MadeFor
  <1>6. CASE \E s \in DamagedSeal(f.wrapped_dek) : g = [f EXCEPT !.wrapped_dek = s]
    <2>1. PICK s \in DamagedSeal(f.wrapped_dek) : g = [f EXCEPT !.wrapped_dek = s]
      BY <1>6
    <2>2. /\ g \in File /\ g.wrapped_dek = s /\ g.payload = f.payload
      BY <1>1, <1>3, <2>1, DamagedSealIsSealed DEF File
    <2> QED
      BY <1>3, <2>2, DamagedSealIsSealed DEF MadeFor
  <1>7. CASE \E s \in DamagedSeal(f.payload) : g = [f EXCEPT !.payload = s]
    <2>1. PICK s \in DamagedSeal(f.payload) : g = [f EXCEPT !.payload = s]
      BY <1>7
    <2>2. /\ g \in File /\ g.payload = s /\ g.wrapped_dek = f.wrapped_dek
      BY <1>1, <1>3, <2>1, DamagedSealIsSealed DEF File
    <2> QED
      BY <1>3, <2>2, DamagedSealIsSealed DEF MadeFor
  <1> QED
    BY <1>4, <1>5, <1>6, <1>7 DEF DamagedFile

LEMMA DamageShuts ==
    ASSUME NEW n \in 1 .. MaxDraws, NEW passcode \in Secret,
           NEW f \in MadeFor(n, passcode), CanUnlock(f, passcode),
           NEW g \in DamagedFile(f), NEW p
    PROVE  ~CanUnlock(g, p)
  <1> SUFFICES ASSUME CanUnlock(g, p) PROVE FALSE
    OBVIOUS
  <1>1. f \in File /\ g \in File /\ g \in MadeFor(n, passcode)
    BY DamageKeeps DEF MadeFor
  <1>2. /\ f.kdf_salt.value = n /\ f.kdf_params = "default"
        /\ g.kdf_salt.value = n /\ g.kdf_params = "default"
    BY <1>1, UnlockGives
  <1>3. /\ g.format_version = CurrentFormat
        /\ g.kdf_salt.length /\ g.wrapped_dek.nonce /\ g.wrapped_dek.intact
        /\ g.payload.nonce /\ g.payload.intact
    BY DEF CanUnlock, Opens
  <1>4. ASSUME NEW s \in Sealed, NEW t \in DamagedSeal(s)
        PROVE  ~t.nonce \/ ~t.intact
    BY <1>4 DEF DamagedSeal, Sealed
  <1>5. f.wrapped_dek \in Sealed /\ f.payload \in Sealed
    BY <1>1 DEF File
  <1>6. CASE g = [f EXCEPT !.format_version = CurrentFormat + 1]
    BY <1>1, <1>3, <1>6 DEF File, CurrentFormat
  <1>7. CASE g \in DamagedHeader(f)
    BY <1>1, <1>2, <1>3, <1>7 DEF DamagedHeader, File, Salt
  <1>8. CASE \E s \in DamagedSeal(f.wrapped_dek) : g = [f EXCEPT !.wrapped_dek = s]
    BY <1>1, <1>3, <1>4, <1>5, <1>8 DEF File
  <1>9. CASE \E s \in DamagedSeal(f.payload) : g = [f EXCEPT !.payload = s]
    BY <1>1, <1>3, <1>4, <1>5, <1>9 DEF File
  <1> QED
    BY <1>6, <1>7, <1>8, <1>9 DEF DamagedFile

-----------------------------------------------------------------------------
(* The inductive invariant *)

\* Every file is one made for the passcode its key was chosen with, every list
\* uploaded is a list, and whoever has a vault open holds its file.
Known == UNION {MadeFor(n, chosen[n]) : n \in 1 .. draws}
KeysAreChosen == \A n \in 1 .. draws : chosen[n] \in Secret
FilesAreKnown == /\ disk \in Known \cup {None}
                 /\ \A i \in Instance : file[i] \in Known \cup {None}
BlobIsList == blob # None => blob.ciphertext.body \in Contents
OpenHasFile == \A i \in Instance : data[i] # None => file[i] # None
IInv == /\ TypeOK
        /\ KeysAreChosen
        /\ FilesAreKnown
        /\ BlobIsList
        /\ OpenHasFile
        /\ OpenVaultReopens

LEMMA KnownIsMade ==
    ASSUME IInv, NEW f \in Known
    PROVE  \E n \in 1 .. draws :
              /\ n \in 1 .. MaxDraws
              /\ chosen[n] \in Secret
              /\ f \in MadeFor(n, chosen[n])
  BY SealedVaultAssumption DEF IInv, TypeOK, Known, KeysAreChosen

LEMMA KnownIsFile == ASSUME NEW f \in Known PROVE f \in File /\ f # None
  BY NoneAssumption DEF Known, MadeFor

\* What is open was sealed in the file it was opened from.
LEMMA OpenIsMade ==
    ASSUME IInv, NEW i \in Instance, data[i] # None
    PROVE  \E n \in 1 .. MaxDraws :
              /\ n <= draws
              /\ typed[i] \in Secret
              /\ typed[i] = chosen[n]
              /\ file[i] \in MadeFor(n, typed[i])
              /\ dek[i] = DataKey(n)
              /\ data[i] \in Contents
  <1>1. file[i] \in Known /\ CanUnlock(file[i], typed[i])
    BY DEF IInv, FilesAreKnown, OpenHasFile, OpenVaultReopens
  <1>2. PICK n \in 1 .. draws : /\ n \in 1 .. MaxDraws
                                /\ chosen[n] \in Secret
                                /\ file[i] \in MadeFor(n, chosen[n])
    BY <1>1, KnownIsMade
  <1>3. /\ typed[i] = chosen[n]
        /\ UnlockedDek(file[i]) = DataKey(n)
        /\ UnlockedData(file[i]) \in Contents
    BY <1>1, <1>2, UnlockGives
  <1> QED
    BY <1>2, <1>3 DEF IInv, OpenVaultReopens

LEMMA InitImpliesIInv == Init => IInv
  BY SealedVaultAssumption DEF Init, IInv, TypeOK, KeysAreChosen, FilesAreKnown,
     BlobIsList, OpenHasFile, OpenVaultReopens

\* The files known depend on the keys drawn alone.
LEMMA KnownStays ==
    ASSUME UNCHANGED <<draws, chosen>>
    PROVE  Known' = Known
  BY DEF Known, MadeFor, File, Sealed, Salt, UploadSalt

-----------------------------------------------------------------------------
(* Every step keeps the invariant *)

LEMMA Stuttering == ASSUME IInv, UNCHANGED vars PROVE IInv'
  BY KnownStays DEF vars, IInv, TypeOK, KeysAreChosen, FilesAreKnown, BlobIsList,
     OpenHasFile, OpenVaultReopens

LEMMA StartsKeepsIInv ==
    ASSUME IInv, NEW i \in Instance, Starts(i)
    PROVE  IInv'
  <1>1. Known' = Known
    BY KnownStays DEF Starts
  <1>2. PICK f \in {disk, None} : file' = [file EXCEPT ![i] = f]
    BY DEF Starts
  <1>3. TypeOK'
    BY <1>2 DEF IInv, TypeOK, Starts
  <1>4. FilesAreKnown'
    BY <1>1, <1>2 DEF IInv, TypeOK, FilesAreKnown, Starts
  <1>5. OpenHasFile' /\ OpenVaultReopens'
    BY <1>2 DEF IInv, TypeOK, OpenHasFile, OpenVaultReopens, Starts
  <1> QED
    BY <1>3, <1>4, <1>5 DEF IInv, KeysAreChosen, BlobIsList, Starts

\* Forgetting an open vault, as locking and quitting do.
LEMMA ForgetsKeepsIInv ==
    ASSUME IInv, NEW i \in Instance, Locks(i) \/ Quits(i)
    PROVE  IInv'
  <1>1. Known' = Known
    BY KnownStays DEF Locks, Quits, Forgets
  <1>2. TypeOK' /\ FilesAreKnown'
    BY <1>1 DEF IInv, TypeOK, FilesAreKnown, Locks, Quits, Forgets
  <1>3. OpenHasFile' /\ OpenVaultReopens'
    BY DEF IInv, TypeOK, OpenHasFile, OpenVaultReopens, Locks, Quits, Forgets
  <1> QED
    BY <1>2, <1>3 DEF IInv, KeysAreChosen, BlobIsList, Locks, Quits, Forgets

LEMMA UnlocksKeepsIInv ==
    ASSUME IInv, NEW i \in Instance, NEW passcode \in Secret, Unlocks(i, passcode)
    PROVE  IInv'
  <1>1. Known' = Known
    BY KnownStays DEF Unlocks
  <1>2. file[i] \in Known
    BY DEF IInv, FilesAreKnown, Unlocks
  <1>3. PICK n \in 1 .. MaxDraws : file[i] \in MadeFor(n, passcode)
    BY <1>2, KnownIsMade, UnlockGives DEF Unlocks
  <1>4. UnlockedDek(file[i]) = DataKey(n) /\ UnlockedData(file[i]) \in Contents
    BY <1>3, UnlockGives DEF Unlocks
  <1>5. TypeOK'
    BY <1>4 DEF IInv, TypeOK, Unlocks
  <1>6. OpenHasFile' /\ OpenVaultReopens'
    BY DEF IInv, TypeOK, OpenHasFile, OpenVaultReopens, Unlocks
  <1> QED
    BY <1>1, <1>5, <1>6 DEF IInv, FilesAreKnown, KeysAreChosen, BlobIsList, Unlocks

LEMMA CreatesKeepsIInv ==
    ASSUME IInv, NEW i \in Instance, NEW passcode \in Secret, Creates(i, passcode)
    PROVE  IInv'
  <1> DEFINE n == draws + 1
             c == VaultData({})
             f == Created(passcode, n, c)
  <1>1. n \in 1 .. MaxDraws /\ draws' = n /\ c \in Contents /\ draws \in Nat
    BY SealedVaultAssumption DEF IInv, TypeOK, Creates
  <1>2. /\ f \in MadeFor(n, passcode)
        /\ CanUnlock(f, passcode)
        /\ UnlockedDek(f) = DataKey(n)
        /\ UnlockedData(f) = c
    BY <1>1, CreatedIsMade
  <1>3. /\ file' = [file EXCEPT ![i] = f]
        /\ data' = [data EXCEPT ![i] = c]
        /\ dek' = [dek EXCEPT ![i] = DataKey(n)]
        /\ typed' = [typed EXCEPT ![i] = passcode]
        /\ chosen' = [chosen EXCEPT ![n] = passcode]
        /\ disk' \in {f, disk}
        /\ UNCHANGED blob
    BY <1>1 DEF Creates, Holds, Persisted
  <1> HIDE DEF n, c, f
  <1>4. KeysAreChosen' /\ chosen' \in [1 .. MaxDraws -> Secret \cup {None}]
    BY <1>1, <1>3 DEF IInv, TypeOK, KeysAreChosen, n
  <1>5. Known \subseteq Known' /\ f \in Known'
    <2>1. ASSUME NEW m, NEW s PROVE MadeFor(m, s)' = MadeFor(m, s)
      BY DEF MadeFor, File, Sealed, Salt, UploadSalt
    <2>2. \A m \in 1 .. draws : chosen'[m] = chosen[m]
      BY <1>1, <1>3 DEF IInv, TypeOK, n
    <2>3. chosen'[n] = passcode
      BY <1>1, <1>3 DEF IInv, TypeOK
    <2>4. Known' = UNION {MadeFor(m, chosen'[m]) : m \in 1 .. n}
      BY <1>1, <2>1 DEF Known
    <2>5. 1 .. draws \subseteq 1 .. n /\ n \in 1 .. n
      BY <1>1 DEF n
    <2> QED
      BY <1>2, <2>2, <2>3, <2>4, <2>5 DEF Known
  <1>6. f \in File
    BY <1>2 DEF MadeFor
  <1>7. TypeOK'
    BY <1>1, <1>3, <1>4, <1>6 DEF IInv, TypeOK
  <1>8. FilesAreKnown'
    BY <1>3, <1>5 DEF IInv, TypeOK, FilesAreKnown
  <1>9. OpenHasFile' /\ OpenVaultReopens'
    BY <1>2, <1>3, <1>5, <1>6, NoneAssumption
    DEF IInv, TypeOK, OpenHasFile, OpenVaultReopens
  <1> QED
    BY <1>3, <1>4, <1>7, <1>8, <1>9 DEF IInv, BlobIsList

\* Writing an open vault back, as enrolling and syncing do.
LEMMA ResealKeepsFiles ==
    ASSUME IInv, NEW i \in Instance, data[i] # None, NEW c \in Contents,
           Reseals(i, c), UNCHANGED <<dek, draws, typed, chosen>>
    PROVE  /\ disk' \in File \cup {None}
           /\ file' \in [Instance -> File \cup {None}]
           /\ data' \in [Instance -> Contents \cup {None}]
           /\ FilesAreKnown' /\ OpenHasFile' /\ OpenVaultReopens'
  <1>1. PICK n \in 1 .. MaxDraws : /\ n <= draws
                                   /\ typed[i] \in Secret
                                   /\ typed[i] = chosen[n]
                                   /\ file[i] \in MadeFor(n, typed[i])
                                   /\ dek[i] = DataKey(n)
    BY OpenIsMade
  <1> DEFINE f == Resealed(file[i], dek[i], c)
  <1>2. /\ f \in MadeFor(n, typed[i])
        /\ CanUnlock(f, typed[i])
        /\ UnlockedDek(f) = dek[i]
        /\ UnlockedData(f) = c
    BY <1>1, ResealedIsMade DEF IInv, OpenVaultReopens
  <1>3. /\ file' = [file EXCEPT ![i] = f]
        /\ data' = [data EXCEPT ![i] = c]
        /\ disk' \in {f, disk}
    BY DEF Reseals, Holds, Persisted
  <1> HIDE DEF f
  <1>4. f \in Known /\ Known' = Known
    <2>1. n \in 1 .. draws
      BY <1>1 DEF IInv, TypeOK
    <2>2. f \in Known
      BY <1>1, <1>2, <2>1 DEF Known
    <2> QED
      BY <2>2, KnownStays
  <1>5. f \in File /\ f # None
    BY <1>4, KnownIsFile
  <1>6. FilesAreKnown'
    BY <1>3, <1>4 DEF IInv, TypeOK, FilesAreKnown
  <1>7. OpenHasFile' /\ OpenVaultReopens'
    BY <1>2, <1>3, <1>5 DEF IInv, TypeOK, OpenHasFile, OpenVaultReopens
  <1> QED
    BY <1>3, <1>5, <1>6, <1>7 DEF IInv, TypeOK

\* Lists are closed under union.
LEMMA UnionIsContents ==
    ASSUME NEW c \in Contents
    PROVE  /\ c.accounts \subseteq Item
           /\ \A s \in SUBSET Item : VaultData(c.accounts \cup s) \in Contents
  <1>1. PICK t \in SUBSET Item : c = VaultData(t)
    BY SealedVaultAssumption
  <1>2. c.accounts = t
    BY <1>1 DEF VaultData
  <1> QED
    BY <1>2, SealedVaultAssumption

LEMMA EnrollsKeepsIInv ==
    ASSUME IInv, NEW i \in Instance, NEW item \in Item, Enrolls(i, item)
    PROVE  IInv'
  <1> DEFINE c == VaultData(data[i].accounts \cup {item})
  <1>1. data[i] # None /\ data[i] \in Contents
    BY DEF IInv, TypeOK, Enrolls
  <1>2. c \in Contents
    BY <1>1, UnionIsContents
  <1>3. Reseals(i, c) /\ UNCHANGED <<dek, blob, draws, typed, chosen>>
    BY DEF Enrolls
  <1> HIDE DEF c
  <1>4. /\ disk' \in File \cup {None}
        /\ file' \in [Instance -> File \cup {None}]
        /\ data' \in [Instance -> Contents \cup {None}]
        /\ FilesAreKnown' /\ OpenHasFile' /\ OpenVaultReopens'
    BY <1>1, <1>2, <1>3, ResealKeepsFiles
  <1> QED
    BY <1>3, <1>4 DEF IInv, TypeOK, KeysAreChosen, BlobIsList, Sealed, Salt, UploadSalt

LEMMA UploadIsBlob ==
    ASSUME NEW password \in Secret, NEW c \in Contents
    PROVE  /\ SealedForUpload(c, password, UploadSalt)
                  \in [ciphertext : Sealed, kdf_salt : Salt, kdf_params : KdfParams]
           /\ SealedForUpload(c, password, UploadSalt).ciphertext.body = c
  BY SealedVaultAssumption DEF SealedForUpload, Seal, Sealed, Salt, KdfParams, UploadSalt

\* What a sync makes of two lists is a list.
LEMMA SyncedIsContents ==
    ASSUME IInv, NEW i \in Instance, NEW password \in Secret, Syncs(i, password)
    PROVE  \E c \in Contents :
              /\ Reseals(i, c)
              /\ blob' = SealedForUpload(c, password, UploadSalt)
              /\ UNCHANGED <<dek, draws, typed, chosen>>
  <1> DEFINE c == IF blob = None THEN data[i]
                  ELSE VaultData(data[i].accounts
                                 \cup Plaintext(blob.ciphertext).accounts)
  <1>1. data[i] \in Contents
    BY DEF IInv, TypeOK, Syncs
  <1>2. CASE blob = None
    BY <1>1, <1>2 DEF Syncs
  <1>3. CASE blob # None
    <2>1. Plaintext(blob.ciphertext) \in Contents
      BY <1>3 DEF Syncs, CanOpenDownloaded, Opens, Plaintext, IInv, BlobIsList
    <2>2. c \in Contents
      BY <1>1, <1>3, <2>1, UnionIsContents
    <2> QED
      BY <2>2 DEF Syncs
  <1> QED
    BY <1>2, <1>3

LEMMA SyncsKeepsIInv ==
    ASSUME IInv, NEW i \in Instance, NEW password \in Secret, Syncs(i, password)
    PROVE  IInv'
  <1>1. data[i] # None
    BY DEF Syncs
  <1>2. PICK c \in Contents :
            /\ Reseals(i, c)
            /\ blob' = SealedForUpload(c, password, UploadSalt)
            /\ UNCHANGED <<dek, draws, typed, chosen>>
    BY SyncedIsContents
  <1>3. /\ disk' \in File \cup {None}
        /\ file' \in [Instance -> File \cup {None}]
        /\ data' \in [Instance -> Contents \cup {None}]
        /\ FilesAreKnown' /\ OpenHasFile' /\ OpenVaultReopens'
    BY <1>1, <1>2, ResealKeepsFiles
  <1>4. /\ blob' \in [ciphertext : Sealed, kdf_salt : Salt, kdf_params : KdfParams]
        /\ BlobIsList'
    BY <1>2, UploadIsBlob DEF BlobIsList
  <1> QED
    BY <1>2, <1>3, <1>4 DEF IInv, TypeOK, KeysAreChosen

LEMMA DiskHarmKeepsIInv == ASSUME IInv, DiskIsHarmed PROVE IInv'
  <1>1. PICK n \in 1 .. draws : /\ n \in 1 .. MaxDraws
                                /\ chosen[n] \in Secret
                                /\ disk \in MadeFor(n, chosen[n])
    BY KnownIsMade DEF IInv, FilesAreKnown, DiskIsHarmed
  <1>2. disk' \in MadeFor(n, chosen[n])
    BY <1>1, DamageKeeps DEF DiskIsHarmed
  <1>3. disk' \in Known /\ Known' = Known
    BY <1>2, KnownStays DEF Known, DiskIsHarmed
  <1>4. TypeOK' /\ FilesAreKnown'
    BY <1>3, KnownIsFile DEF IInv, TypeOK, FilesAreKnown, DiskIsHarmed, memory
  <1> QED
    BY <1>4 DEF IInv, KeysAreChosen, BlobIsList, OpenHasFile, OpenVaultReopens,
                DiskIsHarmed, memory

LEMMA BlobHarmKeepsIInv == ASSUME IInv, BlobIsHarmed PROVE IInv'
  <1> DEFINE Blobs == [ciphertext : Sealed, kdf_salt : Salt, kdf_params : KdfParams]
  <1>1. blob \in Blobs /\ blob.ciphertext.body \in Contents
    BY DEF IInv, TypeOK, BlobIsList, BlobIsHarmed
  <1>2. blob' \in DamagedBlob(blob)
    BY DEF BlobIsHarmed
  <1>3. blob' \in Blobs /\ blob'.ciphertext.body \in Contents
    <2>1. /\ blob.kdf_salt \in Salt /\ blob.ciphertext \in Sealed
          /\ [blob.kdf_salt EXCEPT !.length = FALSE] \in Salt
          /\ [blob.kdf_salt EXCEPT !.value = 0] \in Salt
      <3> DEFINE S == 0 .. UploadSalt
      <3>1. Salt = [value : S, length : BOOLEAN] /\ 0 \in S
        BY SealedVaultAssumption DEF Salt, UploadSalt
      <3> HIDE DEF S
      <3> QED
        BY <1>1, <3>1
    <2>2. CASE blob' = [blob EXCEPT !.kdf_salt.length = FALSE]
      BY <1>1, <2>1, <2>2
    <2>3. CASE blob' = [blob EXCEPT !.kdf_salt.value = 0]
      BY <1>1, <2>1, <2>3
    <2>4. CASE \E p \in KdfParams : blob' = [blob EXCEPT !.kdf_params = p]
      BY <1>1, <2>4
    <2>5. CASE \E s \in DamagedSeal(blob.ciphertext) :
                  blob' = [blob EXCEPT !.ciphertext = s]
      BY <1>1, <2>1, <2>5, DamagedSealIsSealed
    <2> QED
      BY <1>2, <2>2, <2>3, <2>4, <2>5 DEF DamagedBlob, DamagedHeader
  <1>4. Known' = Known
    BY KnownStays DEF BlobIsHarmed
  <1> QED
    BY <1>3, <1>4 DEF IInv, TypeOK, KeysAreChosen, FilesAreKnown, BlobIsList,
                      OpenHasFile, OpenVaultReopens, BlobIsHarmed, memory

LEMMA NextKeepsIInv == IInv /\ [Next]_vars => IInv'
  <1> SUFFICES ASSUME IInv, [Next]_vars PROVE IInv'
    OBVIOUS
  <1>1. ASSUME NEW i \in Instance, Starts(i) PROVE IInv'
    BY <1>1, StartsKeepsIInv
  <1>2. ASSUME NEW i \in Instance, Locks(i) \/ Quits(i) PROVE IInv'
    BY <1>2, ForgetsKeepsIInv
  <1>3. ASSUME NEW i \in Instance, NEW s \in Secret, Creates(i, s) PROVE IInv'
    BY <1>3, CreatesKeepsIInv
  <1>4. ASSUME NEW i \in Instance, NEW s \in Secret, Unlocks(i, s) PROVE IInv'
    BY <1>4, UnlocksKeepsIInv
  <1>5. ASSUME NEW i \in Instance, NEW s \in Secret, Syncs(i, s) PROVE IInv'
    BY <1>5, SyncsKeepsIInv
  <1>6. ASSUME NEW i \in Instance, NEW item \in Item, Enrolls(i, item) PROVE IInv'
    BY <1>6, EnrollsKeepsIInv
  <1>7. CASE DiskIsHarmed
    BY <1>7, DiskHarmKeepsIInv
  <1>8. CASE BlobIsHarmed
    BY <1>8, BlobHarmKeepsIInv
  <1>9. CASE UNCHANGED vars
    BY <1>9, Stuttering
  <1> QED
    BY <1>1, <1>2, <1>3, <1>4, <1>5, <1>6, <1>7, <1>8, <1>9 DEF Next

-----------------------------------------------------------------------------
(* Theorems *)

\* The invariant: every file anywhere was made for one passcode and one data
\* key and holds a list, and whoever has a vault open could open it again
\* (vault/mod.rs:277-329).
THEOREM Invariance == Spec => []IInv
  BY InitImpliesIInv, NextKeepsIInv, PTL DEF Spec

\* Type correctness, for any number of instances, passcodes and keys.
THEOREM TypeCorrect == Spec => []TypeOK
  <1>1. IInv => TypeOK
    BY DEF IInv
  <1> QED
    BY <1>1, Invariance, PTL

\* After any enrollments, syncs and writes of any other instances, locking
\* loses nothing (vault/mod.rs:306-329, ui.rs:1006-1017).
THEOREM NothingIsLockedAway == Spec => []OpenVaultReopens
  <1>1. IInv => OpenVaultReopens
    BY DEF IInv
  <1> QED
    BY <1>1, Invariance, PTL

\* A vault opens for its own passcode only, and to nothing that was not sealed
\* in it, whatever happened to the file or the blob (crypto/mod.rs:105-125).
THEOREM NobodyElseOpens == Spec => []OnlyItsPasscodeOpens
  <1>1. ASSUME IInv, NEW i \in Instance, data[i] # None
        PROVE  typed[i] = chosen[dek[i].random] /\ data[i] \in Contents
    <2>1. PICK n \in 1 .. MaxDraws : /\ typed[i] = chosen[n]
                                     /\ dek[i] = DataKey(n)
                                     /\ data[i] \in Contents
      BY <1>1, OpenIsMade
    <2>2. dek[i].random = n
      BY <2>1 DEF DataKey
    <2> QED
      BY <2>1, <2>2
  <1>2. IInv => OnlyItsPasscodeOpens
    BY <1>1 DEF OnlyItsPasscodeOpens
  <1> QED
    BY <1>2, Invariance, PTL

-----------------------------------------------------------------------------
(* The vault implements a safe *)

LEMMA PlainOfSound ==
    ASSUME NEW n \in 1 .. MaxDraws, NEW passcode \in Secret,
           NEW f \in MadeFor(n, passcode), CanUnlock(f, passcode)
    PROVE  /\ Plain(f) = AsSafe!Behind(passcode, UnlockedData(f))
           /\ Plain(f) # None
  <1>1. f # None
    BY NoneAssumption DEF MadeFor
  <1>2. {s \in Secret : CanUnlock(f, s)} = {passcode}
    BY UnlockGives
  <1>3. Plain(f) = [opens |-> {passcode}, data |-> UnlockedData(f)]
    BY <1>1, <1>2 DEF Plain
  <1>4. UnlockedData(f) \in Contents
    BY UnlockGives
  <1>5. Plain(f) \in [opens : SUBSET Secret, data : Contents]
    BY <1>3, <1>4
  <1> QED
    BY <1>3, <1>5, NoneAssumption DEF AsSafe!Behind

LEMMA PlainOfShut ==
    ASSUME NEW f, f # None, \A s \in Secret : ~CanUnlock(f, s)
    PROVE  Plain(f) = AsSafe!Harmed
  BY DEF Plain, AsSafe!Harmed

LEMMA PlainOfNone == Plain(None) = None
  BY DEF Plain

\* Writing a sealed list is writing its plain one.
LEMMA PlainOfStored ==
    ASSUME NEW i \in Instance, NEW f, NEW c, IInv, Holds(i, f, c), Plain(f).data = c
    PROVE  AsSafe!Stores(i, Plain(f))
  BY DEF Holds, Persisted, AsSafe!Stores, IInv, TypeOK

LEMMA InitIsSafe == Init => AsSafe!Init
  BY PlainOfNone DEF Init, AsSafe!Init

LEMMA StartsIsSafe ==
    ASSUME IInv, NEW i \in Instance, Starts(i)
    PROVE  AsSafe!Reads(i)
  BY PlainOfNone DEF Starts, AsSafe!Reads, IInv, TypeOK

LEMMA ForgetsIsSafe ==
    ASSUME IInv, NEW i \in Instance, Locks(i) \/ Quits(i)
    PROVE  AsSafe!Shuts(i)
  BY PlainOfNone DEF Locks, Quits, Forgets, AsSafe!Shuts, IInv, TypeOK

LEMMA CreatesIsSafe ==
    ASSUME IInv, NEW i \in Instance, NEW passcode \in Secret, Creates(i, passcode)
    PROVE  AsSafe!Creates(i, passcode, VaultData({})) /\ VaultData({}) \in Contents
  <1> DEFINE c == VaultData({})
             f == Created(passcode, draws', c)
  <1>1. draws' \in 1 .. MaxDraws /\ c \in Contents
    BY SealedVaultAssumption DEF IInv, TypeOK, Creates
  <1>2. /\ f \in MadeFor(draws', passcode)
        /\ CanUnlock(f, passcode)
        /\ UnlockedData(f) = c
    BY <1>1, CreatedIsMade
  <1>3. Plain(f) = AsSafe!Behind(passcode, c)
    BY <1>1, <1>2, PlainOfSound
  <1>4. Holds(i, f, c) /\ file[i] = None
    BY DEF Creates
  <1> HIDE DEF f
  <1>5. AsSafe!Stores(i, Plain(f))
    BY <1>3, <1>4, PlainOfStored DEF AsSafe!Behind
  <1> QED
    BY <1>1, <1>3, <1>4, <1>5, PlainOfNone DEF AsSafe!Creates

LEMMA UnlocksIsSafe ==
    ASSUME IInv, NEW i \in Instance, NEW passcode \in Secret, Unlocks(i, passcode)
    PROVE  AsSafe!Opens(i, passcode)
  <1>1. PICK n \in 1 .. MaxDraws : file[i] \in MadeFor(n, passcode)
    BY KnownIsMade, UnlockGives DEF IInv, FilesAreKnown, Unlocks
  <1>2. /\ Plain(file[i]) # None
        /\ Plain(file[i]) = AsSafe!Behind(passcode, UnlockedData(file[i]))
    BY <1>1, PlainOfSound DEF Unlocks
  <1>3. /\ passcode \in Plain(file[i]).opens
        /\ Plain(file[i]).data = UnlockedData(file[i])
    BY <1>2 DEF AsSafe!Behind
  <1>4. /\ data' = [data EXCEPT ![i] = UnlockedData(file[i])]
        /\ UNCHANGED <<disk, file>>
    BY DEF Unlocks
  <1> QED
    BY <1>2, <1>3, <1>4 DEF AsSafe!Opens

LEMMA ResealIsSafe ==
    ASSUME IInv, NEW i \in Instance, data[i] # None, NEW c \in Contents, Reseals(i, c)
    PROVE  AsSafe!Rewrites(i, c)
  <1>1. PICK n \in 1 .. MaxDraws : /\ typed[i] \in Secret
                                   /\ file[i] \in MadeFor(n, typed[i])
                                   /\ dek[i] = DataKey(n)
    BY OpenIsMade
  <1>2. CanUnlock(file[i], typed[i])
    BY DEF IInv, OpenVaultReopens
  <1> DEFINE f == Resealed(file[i], dek[i], c)
  <1>3. /\ f \in MadeFor(n, typed[i])
        /\ CanUnlock(f, typed[i])
        /\ UnlockedData(f) = c
    BY <1>1, <1>2, ResealedIsMade
  <1>4. Holds(i, f, c)
    BY DEF Reseals
  <1> HIDE DEF f
  <1>5. Plain(file[i]) = AsSafe!Behind(typed[i], UnlockedData(file[i]))
    BY <1>1, <1>2, PlainOfSound
  <1>6. Plain(f) = AsSafe!Behind(typed[i], c)
    BY <1>1, <1>3, PlainOfSound
  <1>7. Plain(f) = [Plain(file[i]) EXCEPT !.data = c] /\ Plain(f).data = c
    BY <1>5, <1>6 DEF AsSafe!Behind
  <1>8. AsSafe!Stores(i, Plain(f))
    BY <1>4, <1>7, PlainOfStored
  <1> QED
    BY <1>7, <1>8 DEF AsSafe!Rewrites

LEMMA HarmIsSafe == ASSUME IInv, DiskIsHarmed PROVE AsSafe!ComesToHarm
  <1>1. PICK n \in 1 .. draws : /\ n \in 1 .. MaxDraws
                                /\ chosen[n] \in Secret
                                /\ disk \in MadeFor(n, chosen[n])
    BY KnownIsMade DEF IInv, FilesAreKnown, DiskIsHarmed
  <1>2. CanUnlock(disk, chosen[n])
    BY <1>1, UnlockGives DEF DiskIsHarmed, Sound
  <1>3. Plain(disk) # None
    BY <1>1, <1>2, PlainOfSound
  <1>4. /\ \A s \in Secret : ~CanUnlock(disk', s)
        /\ disk' # None
    BY <1>1, <1>2, DamageShuts, DamageKeeps, NoneAssumption DEF DiskIsHarmed, MadeFor
  <1>5. Plain(disk') = AsSafe!Harmed
    BY <1>4, PlainOfShut
  <1> QED
    BY <1>3, <1>5 DEF AsSafe!ComesToHarm, DiskIsHarmed, memory

LEMMA StepIsSafe == IInv /\ [Next]_vars => [AsSafe!Next]_(AsSafe!vars)
  <1> SUFFICES ASSUME IInv, [Next]_vars PROVE AsSafe!Next \/ UNCHANGED AsSafe!vars
    OBVIOUS
  <1>1. ASSUME NEW i \in Instance, Starts(i) PROVE AsSafe!Next
    <2>1. AsSafe!Reads(i)
      BY <1>1, StartsIsSafe
    <2> QED
      BY <2>1 DEF AsSafe!Next
  <1>2. ASSUME NEW i \in Instance, Locks(i) \/ Quits(i) PROVE AsSafe!Next
    <2>1. AsSafe!Shuts(i)
      BY <1>2, ForgetsIsSafe
    <2> QED
      BY <2>1 DEF AsSafe!Next
  <1>3. ASSUME NEW i \in Instance, NEW s \in Secret, Creates(i, s) PROVE AsSafe!Next
    <2>1. AsSafe!Creates(i, s, VaultData({})) /\ VaultData({}) \in Contents
      BY <1>3, CreatesIsSafe
    <2> QED
      BY <2>1 DEF AsSafe!Next
  <1>4. ASSUME NEW i \in Instance, NEW s \in Secret, Unlocks(i, s) PROVE AsSafe!Next
    <2>1. AsSafe!Opens(i, s)
      BY <1>4, UnlocksIsSafe
    <2> QED
      BY <2>1 DEF AsSafe!Next
  <1>5. ASSUME NEW i \in Instance, NEW c \in Contents, data[i] # None, Reseals(i, c)
        PROVE  AsSafe!Next
    <2>1. AsSafe!Rewrites(i, c)
      BY <1>5, ResealIsSafe
    <2> QED
      BY <2>1 DEF AsSafe!Next
  <1>6. ASSUME NEW i \in Instance, NEW s \in Secret, Syncs(i, s) PROVE AsSafe!Next
    <2>1. \E c \in Contents : Reseals(i, c)
      BY <1>6, SyncedIsContents DEF Syncs
    <2> QED
      BY <1>5, <1>6, <2>1 DEF Syncs
  <1>7. ASSUME NEW i \in Instance, NEW item \in Item, Enrolls(i, item) PROVE AsSafe!Next
    <2>1. VaultData(data[i].accounts \cup {item}) \in Contents
      BY <1>7, UnionIsContents DEF IInv, TypeOK, Enrolls
    <2> QED
      BY <1>5, <1>7, <2>1 DEF Enrolls
  <1>8. CASE DiskIsHarmed
    <2>1. AsSafe!ComesToHarm
      BY <1>8, HarmIsSafe
    <2> QED
      BY <2>1 DEF AsSafe!Next
  <1>9. CASE BlobIsHarmed
    BY <1>9 DEF BlobIsHarmed, memory, AsSafe!vars
  <1>10. CASE UNCHANGED vars
    BY <1>10 DEF vars, AsSafe!vars
  <1> QED
    BY <1>1, <1>2, <1>3, <1>4, <1>6, <1>7, <1>8, <1>9, <1>10 DEF Next

\* Any number of instances, writing over each other a file that comes to harm
\* or a write of which fails, implement a safe (ui.rs:1121-1139).
THEOREM Refinement == Spec => ImplementsSafe
  BY InitIsSafe, StepIsSafe, Invariance, PTL DEF Spec, ImplementsSafe, AsSafe!Spec

-----------------------------------------------------------------------------
(* THE WRITE *)


LEMMA WriteInitInv == WriteInit => WriteInv
BY DEF WriteInit, WriteInv, WriteTypeOK, Solid

\* The steps of one process keep its own part of the invariant, and touch
\* nothing of another's.
LEMMA WriteStepInv == WriteInv /\ [WriteNext]_writevars => WriteInv'
<1> SUFFICES ASSUME WriteInv, [WriteNext]_writevars PROVE WriteInv' OBVIOUS
<1> USE DEF WriteInv, WriteTypeOK, Tmp
<1>1. ASSUME NEW p \in Process, NEW v \in Value, OpensTmp(p, v) PROVE WriteInv'
  <2>1. [value |-> v, extent |-> "empty", synced |-> FALSE] \in Content
        BY DEF Content
  <2> DEFINE c == [value |-> v, extent |-> "empty", synced |-> FALSE]
  <2>2. c # Absent /\ c.value = v
        BY <2>1, AbsentContentAssumption
  <2>3. WriteTypeOK'
        BY <1>1, <2>1 DEF OpensTmp
  <2>4. \A q \in Process : IF step'[q] = "idle" THEN wants'[q] = Absent
                           ELSE wants'[q] \in Value /\ Ready(q)'
        BY <1>1, <2>2 DEF OpensTmp, Ready
  <2> QED BY <1>1, <2>3, <2>4 DEF OpensTmp, Solid
<1>2. ASSUME NEW p \in Process, WritesTmp(p) PROVE WriteInv'
  <2>1. PICK extent \in {"part", "all"} :
           /\ tmp' = [tmp EXCEPT ![p].extent = extent]
           /\ step' = [step EXCEPT ![p] = IF extent = "all" THEN "written" ELSE @]
        BY <1>2 DEF WritesTmp
  <2>2. tmp[p] \in Content
        BY <1>2 DEF WritesTmp
  <2>3. /\ tmp'[p] \in Content
        /\ tmp'[p].value = tmp[p].value
        /\ tmp'[p].extent = extent
        BY <2>1, <2>2 DEF Content
  <2>4. \A q \in Process \ {p} : tmp'[q] = tmp[q] /\ step'[q] = step[q]
        BY <2>1
  <2>5. step[p] = "open" /\ step'[p] \in {"open", "written"}
        /\ (step'[p] = "written" => extent = "all")
        BY <1>2, <2>1 DEF WritesTmp
  <2>6. WriteTypeOK'
        BY <1>2, <2>1, <2>3, <2>4, <2>5 DEF WritesTmp
  <2>7. Ready(p)'
        BY <1>2, <2>3, <2>5, AbsentContentAssumption DEF WritesTmp, Ready
  <2> QED BY <1>2, <2>4, <2>5, <2>6, <2>7 DEF WritesTmp, Ready, Solid
<1>3. ASSUME NEW p \in Process, SyncsTmp(p) PROVE WriteInv'
  <2>1. tmp[p] \in Content /\ tmp' = [tmp EXCEPT ![p].synced = TRUE]
        BY <1>3 DEF SyncsTmp
  <2>2. /\ tmp'[p] \in Content
        /\ tmp'[p].value = tmp[p].value
        /\ tmp'[p].extent = tmp[p].extent
        /\ tmp'[p].synced
        BY <2>1 DEF Content
  <2>3. \A q \in Process \ {p} : tmp'[q] = tmp[q] /\ step'[q] = step[q]
        BY <1>3, <2>1 DEF SyncsTmp
  <2>4. WriteTypeOK'
        BY <1>3, <2>1, <2>2, <2>3 DEF SyncsTmp
  <2>5. Ready(p)'
        BY <1>3, <2>2, AbsentContentAssumption DEF SyncsTmp, Ready
  <2> QED BY <1>3, <2>3, <2>4, <2>5 DEF SyncsTmp, Ready, Solid
<1>4. ASSUME NEW p \in Process, Renames(p) PROVE WriteInv'
  <2>1. Solid(tmp[p])
        BY <1>4 DEF Renames, Ready, Solid
  <2>2. \A c \in earlier' \cup {path'} : Solid(c)
        BY <1>4, <2>1 DEF Renames
  <2>3. WriteTypeOK'
        BY <1>4 DEF Renames, Done
  <2> QED BY <1>4, <2>2, <2>3 DEF Renames, Done, Ready
<1>5. ASSUME NEW p \in Process, Fails(p) PROVE WriteInv'
  <2>1. \A q \in Process \ {p} :
           tmp'[q] = tmp[q] /\ step'[q] = step[q] /\ wants'[q] = wants[q]
        BY <1>5 DEF Fails, Done
  <2>2. WriteTypeOK'
        BY <1>5 DEF Fails, Done
  <2> QED BY <1>5, <2>1, <2>2 DEF Fails, Done, Ready
<1>6. ASSUME NEW p \in Process, Dies(p) PROVE WriteInv'
      BY <1>6 DEF Dies, Done, Ready
<1>7. CASE Commits
      BY <1>7 DEF Commits, Ready
<1>8. CASE PowerLoss
  <2>1. PICK c \in earlier \cup {path} : path' \in Remains(c)
        BY <1>8 DEF PowerLoss
  <2>2. path' = c
        BY <2>1 DEF Remains, Solid
  <2> QED BY <1>8, <2>1, <2>2 DEF PowerLoss
<1>9. CASE UNCHANGED writevars
      BY <1>9 DEF writevars, Ready
<1> QED BY <1>1, <1>2, <1>3, <1>4, <1>5, <1>6, <1>7, <1>8, <1>9 DEF WriteNext

THEOREM WriteInvariance == WriteSpec => []WriteInv
BY WriteInitInv, WriteStepInv, PTL DEF WriteSpec

\* Whatever fails, dies or loses power between two steps of however many
\* writers, the path never names a truncated file (lib.rs:26-29).
THEOREM NeverATruncatedFile == WriteSpec => []NeverTruncated
<1>1. WriteInv => NeverTruncated
      BY DEF WriteInv, NeverTruncated, Solid, Whole
<1> QED BY <1>1, WriteInvariance, PTL

-----------------------------------------------------------------------------
(* Refinement *)

LEMMA WriteInitMaps == WriteInit => Register!Init
BY DEF WriteInit, Register!Init, ValueOf

LEMMA WriteStepMaps == WriteInv /\ [WriteNext]_writevars => [Register!Next]_(Register!vars)
<1> SUFFICES ASSUME WriteInv, [WriteNext]_writevars
             PROVE  Register!Next \/ UNCHANGED Register!vars
    OBVIOUS
<1> USE DEF WriteInv, WriteTypeOK, Tmp
<1>1. ASSUME NEW p \in Process, NEW v \in Value, OpensTmp(p, v)
      PROVE  Register!Next
  <2>1. Register!Ask(p, v)
        BY <1>1 DEF OpensTmp, Register!Ask
  <2> QED BY <2>1 DEF Register!Next
<1>2. ASSUME NEW p \in Process, WritesTmp(p) \/ SyncsTmp(p)
      PROVE  UNCHANGED Register!vars
      BY <1>2 DEF WritesTmp, SyncsTmp, Register!vars
<1>3. ASSUME NEW p \in Process, Renames(p) PROVE Register!Next
  <2>1. wants[p] # Absent /\ ValueOf(tmp[p]) = wants[p]
        BY <1>3, AbsentAssumption DEF Renames, Ready, ValueOf
  <2>2. {ValueOf(c) : c \in earlier'} =
        {ValueOf(c) : c \in earlier} \cup {ValueOf(path)}
        BY <1>3 DEF Renames
  <2>3. Register!Store(p)
        BY <1>3, <2>1, <2>2 DEF Renames, Done, Register!Store
  <2> QED BY <2>3 DEF Register!Next
<1>4. ASSUME NEW p \in Process, Fails(p) \/ Dies(p) PROVE Register!Next
  <2>1. Register!GiveUp(p)
        BY <1>4 DEF Fails, Dies, Done, Register!GiveUp
  <2> QED BY <2>1 DEF Register!Next
<1>5. CASE Commits
  <2>1. Register!Settle
        BY <1>5 DEF Commits, Register!Settle
  <2> QED BY <2>1 DEF Register!Next
<1>6. CASE PowerLoss
  <2>1. PICK c \in earlier \cup {path} : path' \in Remains(c)
        BY <1>6 DEF PowerLoss
  <2>2. path' = c
        BY <2>1 DEF Remains, Solid
  <2>3. Register!PowerLoss
        BY <1>6, <2>2 DEF PowerLoss, Register!PowerLoss
  <2> QED BY <2>3 DEF Register!Next
<1>7. CASE UNCHANGED writevars
      BY <1>7 DEF writevars, Register!vars
<1> QED BY <1>1, <1>2, <1>3, <1>4, <1>5, <1>6, <1>7 DEF WriteNext

\* write_private_atomic implements the atomic file it promises, for any number
\* of instances writing at once (lib.rs:24-31).
THEOREM WriteRefinement == WriteSpec => ImplementsRegister
<1> QED BY WriteInitMaps, WriteStepMaps, WriteInvariance, PTL
        DEF WriteSpec, ImplementsRegister, Register!Spec
=============================================================================
