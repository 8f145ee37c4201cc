----------------------------- MODULE AtomicWrite -----------------------------
(***************************************************************************)
(* src/lib.rs, write_private_atomic: instances of the application replace  *)
(* one file (the vault, the configuration or the PIN session) through a    *)
(* temporary sibling named after their process id.                         *)
(*                                                                         *)
(* A file on disk is its content and whether that content was synced: what *)
(* was not may be cut short by a power loss.  A rename is seen at once but *)
(* reaches the medium later, so a power loss may undo it.                  *)
(***************************************************************************)
CONSTANTS Process, Value,
          Absent        \* no file, or nothing to store
ASSUME AbsentAssumption == Absent \notin Value

VARIABLES path,     \* what the path names
          earlier,  \* what a power loss may have it name again
          tmp,      \* the temporary file of each process, or Absent
          step,     \* how far each process is
          wants     \* what it is storing, or Absent
writevars == <<path, earlier, tmp, step, wants>>

Content == [value : Value, extent : {"empty", "part", "all"}, synced : BOOLEAN]
ASSUME AbsentContentAssumption == Absent \notin Content

Tmp_Shared(p) == CHOOSE q \in Process : TRUE
Tmp(p) == p   \* the name carries the process id

WriteInit == /\ path = Absent
             /\ earlier = {}
             /\ tmp = [p \in Process |-> Absent]
             /\ step = [p \in Process |-> "idle"]
             /\ wants = [p \in Process |-> Absent]

\* Create or truncate, whatever an earlier process of this id left there.
OpensTmp(p, v) ==
    /\ step[p] = "idle"
    /\ tmp' = [tmp EXCEPT ![Tmp(p)] =
                 [value |-> v, extent |-> "empty", synced |-> FALSE]]
    /\ step' = [step EXCEPT ![p] = "open"]
    /\ wants' = [wants EXCEPT ![p] = v]
    /\ UNCHANGED <<path, earlier>>

WritesTmp(p) ==
    /\ step[p] = "open"
    /\ tmp[Tmp(p)] # Absent
    /\ \E extent \in {"part", "all"} :
          /\ tmp' = [tmp EXCEPT ![Tmp(p)].extent = extent]
          /\ step' = [step EXCEPT ![p] = IF extent = "all" THEN "written" ELSE @]
    /\ UNCHANGED <<path, earlier, wants>>

SyncsTmp(p) ==
    /\ step[p] = "written"
    /\ tmp[Tmp(p)] # Absent
    /\ tmp' = [tmp EXCEPT ![Tmp(p)].synced = TRUE]
    /\ step' = [step EXCEPT ![p] = "synced"]
    /\ UNCHANGED <<path, earlier, wants>>

Done(p) == /\ step' = [step EXCEPT ![p] = "idle"]
           /\ wants' = [wants EXCEPT ![p] = Absent]

Renames_RemovesFirst(p) ==
    /\ step[p] = "synced"
    /\ tmp[Tmp(p)] # Absent
    /\ earlier' = earlier \cup {path}
    /\ IF path # Absent
       THEN path' = Absent /\ UNCHANGED <<tmp, step, wants>>
       ELSE /\ path' = tmp[Tmp(p)]
            /\ tmp' = [tmp EXCEPT ![Tmp(p)] = Absent]
            /\ Done(p)
Renames(p) ==
    /\ step[p] = "synced"
    /\ tmp[Tmp(p)] # Absent
    /\ path' = tmp[Tmp(p)]
    /\ earlier' = earlier \cup {path}
    /\ tmp' = [tmp EXCEPT ![Tmp(p)] = Absent]
    /\ Done(p)

\* An error before the rename removes the temporary file, if it can; a failed
\* rename does not try, and a process that dies cannot.
Fails(p) ==
    /\ step[p] # "idle"
    /\ tmp' \in {tmp, [tmp EXCEPT ![Tmp(p)] = Absent]}
    /\ step[p] = "synced" => tmp' = tmp
    /\ Done(p)
    /\ UNCHANGED <<path, earlier>>
Dies(p) == /\ step[p] # "idle"
           /\ Done(p)
           /\ UNCHANGED <<path, earlier, tmp>>

-----------------------------------------------------------------------------
(* The disk *)

Commits == /\ earlier # {}
           /\ earlier' = {}
           /\ UNCHANGED <<path, tmp, step, wants>>

\* What may be left of a file.
Remains(c) ==
    IF c = Absent \/ c.synced THEN {c}
    ELSE {[c EXCEPT !.extent = x] : x \in {"empty", "part", c.extent}}
\* A temporary file that is lost or cut short makes no difference: whoever
\* opens it next truncates it.
PowerLoss ==
    /\ \E c \in earlier \cup {path} : path' \in Remains(c)
    /\ earlier' = {}
    /\ \E lost \in SUBSET Process :
          tmp' = [p \in Process |-> IF p \in lost THEN Absent ELSE tmp[p]]
    /\ step' = [p \in Process |-> "idle"]
    /\ wants' = [p \in Process |-> Absent]

WriteNext == \/ \E p \in Process :
                   \/ \E v \in Value : OpensTmp(p, v)
                   \/ WritesTmp(p) \/ SyncsTmp(p) \/ Renames(p)
                   \/ Fails(p) \/ Dies(p)
             \/ Commits \/ PowerLoss

WriteSpec == WriteInit /\ [][WriteNext]_writevars

-----------------------------------------------------------------------------
(* Properties *)

\* The shape of the state (lib.rs:32-69).
WriteTypeOK == /\ path \in Content \cup {Absent}
               /\ earlier \subseteq Content \cup {Absent}
               /\ tmp \in [Process -> Content \cup {Absent}]
               /\ step \in [Process -> {"idle", "open", "written", "synced"}]
               /\ wants \in [Process -> Value \cup {Absent}]

\* No crash, power loss, error or other instance ever leaves a truncated or
\* half-written file at the path, now or after it (lib.rs:26-29).
Whole(c) == c # Absent => c.extent = "all"
NeverTruncated == Whole(path) /\ \A c \in earlier : Whole(c)

\* What that rests on: what the path names, or may name again, is synced, and
\* so is the temporary file by the time it is renamed, with what was asked.
Solid(c) == c # Absent => c.extent = "all" /\ c.synced
Ready(p) == /\ tmp[p] # Absent
            /\ tmp[p].value = wants[p]
            /\ step[p] \in {"written", "synced"} => tmp[p].extent = "all"
            /\ step[p] = "synced" => tmp[p].synced
WriteInv == /\ WriteTypeOK
            /\ \A c \in earlier \cup {path} : Solid(c)
            /\ \A p \in Process : IF step[p] = "idle" THEN wants[p] = Absent
                                  ELSE wants[p] \in Value /\ Ready(p)

\* The file is an atomic register whose last stores a power loss may undo
\* (lib.rs:24-31): each step of a write is one of its steps or none.
ValueOf(c) == IF c = Absent THEN Absent ELSE c.value
Register == INSTANCE AtomicFile WITH
               value <- ValueOf(path),
               fallback <- {ValueOf(c) : c \in earlier},
               asked <- wants,
               None <- Absent
ImplementsRegister == Register!Spec
=============================================================================
