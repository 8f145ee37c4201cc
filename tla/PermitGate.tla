----------------------------- MODULE PermitGate -----------------------------
(***************************************************************************)
(* What the vault lifecycle promises, with no phases and no counters: a    *)
(* gate is opened only by redeeming the one permit that is outstanding, a  *)
(* permit is issued at most once, a revocation closes the gate and voids   *)
(* the outstanding permit, and a permit spent or voided never opens again. *)
(***************************************************************************)
CONSTANT Permit

VARIABLES outstanding,   \* the permit that may still be redeemed, if any
          spent,         \* permits redeemed, refused or voided
          openUnder      \* the permit the gate is open under, if it is open
vars == <<outstanding, spent, openUnder>>

TypeOK == /\ outstanding \in SUBSET Permit
          /\ spent \in SUBSET Permit
          /\ openUnder \in SUBSET Permit

Init == outstanding = {} /\ spent = {} /\ openUnder = {}

Issue(p) == /\ outstanding = {}
            /\ openUnder = {}
            /\ p \notin spent
            /\ outstanding' = {p}
            /\ UNCHANGED <<spent, openUnder>>

Redeem(p) == /\ p \in outstanding
             /\ outstanding' = {}
             /\ spent' = spent \cup {p}
             /\ openUnder' = {p}

Refuse(p) == /\ p \in outstanding
             /\ outstanding' = {}
             /\ spent' = spent \cup {p}
             /\ UNCHANGED openUnder

Revoke == /\ outstanding' = {}
          /\ spent' = spent \cup outstanding
          /\ openUnder' = {}

Next == \/ \E p \in Permit : Issue(p) \/ Redeem(p) \/ Refuse(p)
        \/ Revoke

Spec == Init /\ [][Next]_vars
=============================================================================
