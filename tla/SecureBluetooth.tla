--------------------------- MODULE SecureBluetooth ---------------------------
(***************************************************************************)
(* src/secure_bluetooth.rs: two devices pair over a transport nobody       *)
(* trusts and exchange frames under the keys the pairing gave them.        *)
(*                                                                         *)
(* Whatever was sent stays on the air: a hello or a frame may be delivered *)
(* never, late, twice, out of order, damaged, or to the device that sent   *)
(* it, and a hello may be one that no device sent, or one altered.  Keys   *)
(* are what they are derived from: a key pair is the number of its         *)
(* pairing, the keys of a session are its transcript (both hellos,         *)
(* initiator first) and the role of the sender, and two transcripts have   *)
(* the same authentication string only when they are equal.  Frames under  *)
(* keys of the transport's own are left out: ActiveHasPeer says that no    *)
(* session with such keys is ever confirmed.                               *)
(***************************************************************************)
EXTENDS Naturals, Sequences

CONSTANTS Device,
          Text,                 \* what applications send
          ConfirmationTimeout,  \* BLUETOOTH_CONFIRMATION_TIMEOUT
          SessionLifetime,      \* BLUETOOTH_SESSION_LIFETIME
          MaxFrames,            \* MAX_BLUETOOTH_FRAMES_PER_DIRECTION
          Forged,               \* the keys in the hellos the transport makes up,
                                \* 0 being its own
          MaxPairings           \* bound: pairings started, by all devices
ASSUME BluetoothAssumption ==
    /\ {ConfirmationTimeout, SessionLifetime, MaxFrames, MaxPairings} \subseteq Nat
    /\ Forged \subseteq Nat

VARIABLES end,       \* each device's pairing, pending or active session
          hellos,    \* the hellos sent so far
          frames,    \* the frames sent so far, each with its age
          pairings,  \* how many pairings were started
          derived    \* history: who derived the keys of which transcript of
                     \* two hellos that devices did send
vars == <<end, hellos, frames, pairings, derived>>

Idle == [phase |-> "idle"]
Opposite(role) == IF role = "initiator" THEN "responder" ELSE "initiator"

Init == /\ end = [d \in Device |-> Idle]
        /\ hellos = {}
        /\ frames = {}
        /\ pairings = 0
        /\ derived = {}

-----------------------------------------------------------------------------
(* BluetoothPairing *)

Starts(d, role, session) ==
    /\ pairings < MaxPairings
    /\ pairings' = pairings + 1
    /\ LET hello == [role |-> role, session |-> session,
                     device |-> d, key |-> pairings + 1]
       IN  /\ end' = [end EXCEPT ![d] = [phase |-> "offered", hello |-> hello]]
           /\ hellos' = hellos \cup {hello}
    /\ UNCHANGED <<frames, derived>>

\* What a hello may be: one that was sent, or any the transport can make of
\* the names, sessions and public keys it has seen.
OnAir == hellos \cup [role : {"initiator", "responder"}, session : 1 .. pairings,
                     device : Device, key : Forged \cap 0 .. pairings]

Initiates(d) == end[d] = Idle /\ Starts(d, "initiator", pairings + 1)
Responds(d, h) == /\ end[d] = Idle
                  /\ h.role = "initiator"
                  /\ Starts(d, "responder", h.session)

IsPeer(own, peer) == /\ peer.role = Opposite(own.role)
                     /\ peer.session = own.session
                     /\ peer.device # own.device
                     /\ peer.key # own.key
Transcript(own, peer) == IF own.role = "initiator" THEN <<own, peer>>
                         ELSE <<peer, own>>

\* The pairing is used up, whether or not the hello suits it.
Derives(d, h) ==
    /\ end[d].phase = "offered"
    /\ LET own == end[d].hello
           script == Transcript(own, h)
       IN  IF IsPeer(own, h)
           THEN /\ end' = [end EXCEPT ![d] =
                             [phase |-> "pending", hello |-> own,
                              peer |-> h.device, script |-> script, age |-> 0]]
                /\ derived' = IF h \in hellos THEN derived \cup {<<d, script>>}
                              ELSE derived
           ELSE /\ end' = [end EXCEPT ![d] = Idle]
                /\ UNCHANGED derived
    /\ UNCHANGED <<hellos, frames, pairings>>

-----------------------------------------------------------------------------
(* PendingBluetoothSession *)

Confirmed_Unseen(e, shown) == e.age <= ConfirmationTimeout
Confirmed(e, shown) == e.age <= ConfirmationTimeout /\ e.script = shown

\* The user enters at d what another device shows.
Confirms(d, other) ==
    /\ end[d].phase = "pending"
    /\ other # d
    /\ end[other].phase \in {"pending", "active"}
    /\ end' = [end EXCEPT ![d] =
                 IF Confirmed(@, end[other].script)
                 THEN [phase |-> "active", hello |-> @.hello, peer |-> @.peer,
                       script |-> @.script, age |-> 0,
                       tx |-> 0, rx |-> 0, got |-> <<>>]
                 ELSE Idle]
    /\ UNCHANGED <<hellos, frames, pairings, derived>>

\* A cancel, an error, a wrong authentication string, a dead process: secrets
\* and keys live in memory only.
Drops(d) == /\ end[d] # Idle
            /\ end' = [end EXCEPT ![d] = Idle]
            /\ UNCHANGED <<hellos, frames, pairings, derived>>

-----------------------------------------------------------------------------
(* SecureBluetoothSession *)

Active_Forever(e) == e.phase = "active"
Active(e) == e.phase = "active" /\ e.age <= SessionLifetime

CanEncrypt(e) == Active(e) /\ e.tx < MaxFrames
Advanced_StopsAtLast(tx) == IF tx + 1 < MaxFrames THEN tx + 1 ELSE tx
Advanced(tx) == tx + 1
Encrypts(d, text) ==
    /\ CanEncrypt(end[d])
    /\ frames' = frames \cup
         {[script |-> end[d].script, from |-> end[d].hello.role,
           counter |-> end[d].tx, text |-> text, age |-> 0]}
    /\ end' = [end EXCEPT ![d].tx = Advanced(@)]
    /\ UNCHANGED <<hellos, pairings, derived>>

\* Counter, limit, authentication, in this order; a refused frame changes
\* nothing.
Authentic(e, f, intact) == /\ intact
                           /\ f.script = e.script
                           /\ f.from = Opposite(e.hello.role)
Accepted_OutOfOrder(e, f, intact) == /\ f.counter >= e.rx
                                     /\ e.rx < MaxFrames
                                     /\ Authentic(e, f, intact)
Accepted(e, f, intact) == /\ f.counter = e.rx
                          /\ e.rx < MaxFrames
                          /\ Authentic(e, f, intact)
Decrypts(d, f, intact) ==
    /\ Active(end[d])
    /\ end' = IF Accepted(end[d], f, intact)
              THEN [end EXCEPT ![d].rx = @ + 1,
                               ![d].got = Append(@, f.text)]
              ELSE end
    /\ UNCHANGED <<hellos, frames, pairings, derived>>

-----------------------------------------------------------------------------
(* Time, in whatever unit the two limits are given; the counts stop where  *)
(* nothing depends on them any more.                                       *)

OlderBy1(age, limit) == IF age <= limit THEN age + 1 ELSE age
Limit(phase) == IF phase = "pending" THEN ConfirmationTimeout
                ELSE SessionLifetime
LastUse == ConfirmationTimeout + SessionLifetime
Tick == /\ end' = [d \in Device |->
                     IF end[d].phase \in {"pending", "active"}
                     THEN [end[d] EXCEPT !.age = OlderBy1(@, Limit(end[d].phase))]
                     ELSE end[d]]
        /\ frames' = {[f EXCEPT !.age = OlderBy1(@, LastUse)] : f \in frames}
        /\ UNCHANGED <<hellos, pairings, derived>>

Next == \/ \E d \in Device :
              \/ Initiates(d) \/ Drops(d)
              \/ \E h \in OnAir : Responds(d, h) \/ Derives(d, h)
              \/ \E other \in Device : Confirms(d, other)
              \/ \E text \in Text : Encrypts(d, text)
              \/ \E f \in frames, intact \in BOOLEAN : Decrypts(d, f, intact)
        \/ Tick

Spec == Init /\ [][Next]_vars

-----------------------------------------------------------------------------
(* Properties *)

Hello == [role : {"initiator", "responder"}, session : 1 .. MaxPairings,
          device : Device, key : 0 .. MaxPairings]
End == {Idle}
       \cup [phase : {"offered"}, hello : Hello]
       \cup [phase : {"pending"}, hello : Hello, peer : Device,
             script : Hello \X Hello, age : 0 .. ConfirmationTimeout + 1]
       \cup [phase : {"active"}, hello : Hello, peer : Device,
             script : Hello \X Hello, age : 0 .. SessionLifetime + 1,
             tx : 0 .. MaxFrames, rx : 0 .. MaxFrames, got : Seq(Text)]
\* The shape of the state (secure_bluetooth.rs:125-131, 214-217, 375-387,
\* 431-444).
TypeOK == /\ end \in [Device -> End]
          /\ hellos \subseteq Hello
          /\ frames \subseteq [script : Hello \X Hello,
                               from : {"initiator", "responder"},
                               counter : 0 .. MaxFrames - 1,
                               text : Text, age : 0 .. LastUse + 1]
          /\ pairings \in 0 .. MaxPairings
          /\ derived \subseteq Device \X (Hello \X Hello)

\* A confirmed session has two sides, whatever hellos the transport makes up or
\* alters: the device it names as its peer derived the same keys, from that
\* session's own hello (secure_bluetooth.rs:401-427,
\* docs/SECURE_BLUETOOTH_PROTOCOL.md:21-31).
ActiveHasPeer ==
    \A d \in Device : end[d].phase = "active" =>
        /\ <<end[d].peer, end[d].script>> \in derived
        /\ end[d].peer # d

\* What an application received is what its peer sent, in order, once each and
\* without a gap, whatever the radio did (secure_bluetooth.rs:497-547,
\* docs/SECURE_BLUETOOTH_PROTOCOL.md:37).
ReceivedIsPrefixOfSent ==
    \A d \in Device : end[d].phase = "active" =>
        /\ Len(end[d].got) = end[d].rx
        /\ \A i \in 1 .. end[d].rx :
              \E f \in frames : /\ f.script = end[d].script
                                /\ f.from = Opposite(end[d].hello.role)
                                /\ f.counter = i - 1
                                /\ f.text = end[d].got[i]

\* No two frames share a key and a counter, through every re-pairing
\* (secure_bluetooth.rs:480-494, docs/SECURE_BLUETOOTH_PROTOCOL.md:36).
NoncesAreFresh ==
    \A f, g \in frames :
        f.script = g.script /\ f.from = g.from /\ f.counter = g.counter => f = g

\* No frame is accepted longer after it was sent than the two time limits
\* allow together: the sender's peer had derived the keys by then
\* (secure_bluetooth.rs:405-407, 549-555).
NoStaleFrameIsAccepted ==
    [][ \A d \in Device :
          end[d].phase = "active" /\ end'[d].phase = "active"
          /\ end'[d].rx > end[d].rx =>
             \E f \in frames : /\ f.script = end[d].script
                               /\ f.from = Opposite(end[d].hello.role)
                               /\ f.counter = end[d].rx
                               /\ f.age <= LastUse ]_vars
=============================================================================
