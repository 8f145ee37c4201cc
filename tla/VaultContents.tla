---------------------------- MODULE VaultContents ----------------------------
(***************************************************************************)
(* The account list of VaultData (src/vault/mod.rs) and what the app does  *)
(* to it: enroll, advance an HOTP counter, merge a synced vault.  An       *)
(* account is its id ("issuer:label"), whether it is counter based, and    *)
(* its counter; seeds and display fields never decide anything here.       *)
(* Nothing keeps ids unique: a list may hold one id twice, and every       *)
(* lookup by id finds the first.                                           *)
(***************************************************************************)
EXTENDS Naturals, SequencesExt

CONSTANTS Id,
          MaxCounter   \* u64::MAX in the code
ASSUME CounterAssumption == MaxCounter \in Nat

Account == [id : Id, hotp : BOOLEAN, counter : 0 .. MaxCounter]

\* iter().find(|a| a.id == id), as a position; 0 when there is none.
FirstWith(accounts, id) == SelectInSeq(accounts, LAMBDA a : a.id = id)
Ids(accounts) == {accounts[n].id : n \in DOMAIN accounts}
CounterOf(accounts, id) == accounts[FirstWith(accounts, id)].counter

\* advance_counter: HOTP only, and never past the last counter.
CanAdvance_Unbounded(accounts, id) ==
    LET n == FirstWith(accounts, id)
    IN  n # 0 /\ accounts[n].hotp
CanAdvance(accounts, id) ==
    LET n == FirstWith(accounts, id)
    IN  n # 0 /\ accounts[n].hotp /\ accounts[n].counter < MaxCounter
Advanced(accounts, id) ==
    [accounts EXCEPT ![FirstWith(accounts, id)].counter = (@ + 1) % (MaxCounter + 1)]

\* merge_vault: what one remote account does to the list merged so far.
Adopt_TakesRemote(accounts, r) ==
    LET n == FirstWith(accounts, r.id)
    IN  IF n = 0 THEN Append(accounts, r) ELSE [accounts EXCEPT ![n] = r]
Adopt_KeepsLocal(accounts, r) ==
    IF r.id \in Ids(accounts) THEN accounts ELSE Append(accounts, r)
Adopt_MatchesWhole(accounts, r) ==
    IF \E n \in DOMAIN accounts : accounts[n] = r
    THEN accounts ELSE Append(accounts, r)
Adopt(accounts, r) ==
    LET n == FirstWith(accounts, r.id)
    IN  IF n = 0 THEN Append(accounts, r)
        ELSE IF accounts[n].hotp /\ r.hotp /\ r.counter > accounts[n].counter
        THEN [accounts EXCEPT ![n].counter = r.counter]
        ELSE accounts
Merged(local, remote) == FoldLeft(Adopt, local, remote)
=============================================================================
