--------------------------------- MODULE Safe ---------------------------------
(***************************************************************************)
(* What the sealed vault file promises: a list behind one passcode.  Any   *)
(* number of instances of the application read it at start-up, open what   *)
(* they read and write it back as a whole.  A file that came to harm opens *)
(* for nobody; it never opens to something else.                           *)
(***************************************************************************)
CONSTANTS Instance, Secret, Contents, None

VARIABLES disk,    \* the file stored: who opens it, and what is in it
          held,    \* the file each instance has read or written, or None
          opened   \* the contents an instance has open, or None
vars == <<disk, held, opened>>

Harmed == [opens |-> {}, data |-> None]
Behind(passcode, data) == [opens |-> {passcode}, data |-> data]

Init == /\ disk = None
        /\ held = [i \in Instance |-> None]
        /\ opened = [i \in Instance |-> None]

Reads(i) == /\ opened[i] = None
            /\ \E f \in {disk, None} : held' = [held EXCEPT ![i] = f]
            /\ UNCHANGED <<disk, opened>>

\* A write may fail; the instance goes on with the file it made.
Stores(i, f) == /\ held' = [held EXCEPT ![i] = f]
                /\ opened' = [opened EXCEPT ![i] = f.data]
                /\ disk' \in {f, disk}
Creates(i, passcode, data) == /\ held[i] = None
                              /\ Stores(i, Behind(passcode, data))
Rewrites(i, data) == /\ opened[i] # None
                     /\ Stores(i, [held[i] EXCEPT !.data = data])

Opens(i, passcode) == /\ held[i] # None
                      /\ passcode \in held[i].opens
                      /\ opened' = [opened EXCEPT ![i] = held[i].data]
                      /\ UNCHANGED <<disk, held>>
Shuts(i) == /\ opened' = [opened EXCEPT ![i] = None]
            /\ held' \in {held, [held EXCEPT ![i] = None]}
            /\ UNCHANGED disk

ComesToHarm == disk # None /\ disk' = Harmed /\ UNCHANGED <<held, opened>>

Next == \/ \E i \in Instance :
              \/ Reads(i) \/ Shuts(i)
              \/ \E passcode \in Secret : Opens(i, passcode)
              \/ \E passcode \in Secret, data \in Contents : Creates(i, passcode, data)
              \/ \E data \in Contents : Rewrites(i, data)
        \/ ComesToHarm
Spec == Init /\ [][Next]_vars
=============================================================================
