------------------------------ MODULE AtomicFile ------------------------------
(***************************************************************************)
(* What write_private_atomic (src/lib.rs:24-31) promises of a file: it     *)
(* always holds, whole, something a writer asked to store; a write changes *)
(* it in one step or not at all; a power loss may take it back, though     *)
(* only to what it held since it was last known to be on the medium.       *)
(***************************************************************************)
CONSTANTS Process, Value, None

VARIABLES value,     \* what a reader finds, or None
          fallback,  \* what a power loss may take it back to
          asked      \* what each process is trying to store, or None
vars == <<value, fallback, asked>>

Init == /\ value = None
        /\ fallback = {}
        /\ asked = [p \in Process |-> None]

Ask(p, v) == /\ asked[p] = None
             /\ asked' = [asked EXCEPT ![p] = v]
             /\ UNCHANGED <<value, fallback>>

Store(p) == /\ asked[p] # None
            /\ value' = asked[p]
            /\ fallback' = fallback \cup {value}
            /\ asked' = [asked EXCEPT ![p] = None]

GiveUp(p) == /\ asked' = [asked EXCEPT ![p] = None]
             /\ UNCHANGED <<value, fallback>>

Settle == /\ fallback' = {}
          /\ UNCHANGED <<value, asked>>

PowerLoss == /\ value' \in fallback \cup {value}
             /\ fallback' = {}
             /\ asked' = [p \in Process |-> None]

Next == \/ \E p \in Process : \/ \E v \in Value : Ask(p, v)
                              \/ Store(p) \/ GiveUp(p)
        \/ Settle \/ PowerLoss

Spec == Init /\ [][Next]_vars
=============================================================================
