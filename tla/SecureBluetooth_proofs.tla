----------------------- MODULE SecureBluetooth_proofs -----------------------
(***************************************************************************)
(* What two paired devices may rely on, for any number of devices, any     *)
(* time limits, any number of pairings and frames, and a transport that    *)
(* delivers what it likes when it likes and makes up hellos of its own.    *)
(***************************************************************************)
EXTENDS SecureBluetooth, TLAPS

-----------------------------------------------------------------------------
(* The inductive invariant *)

\* No two pairings have a key in common.
KeysAreOwn ==
    /\ \A h \in hellos : h.key <= pairings
    /\ \A g, h \in hellos : g.key = h.key => g = h

\* A device that is not idle is at a pairing of its own.
OwnHello ==
    \A d \in Device : end[d] # Idle =>
        end[d].hello \in hellos /\ end[d].hello.device = d

\* Whoever has keys derived them from its hello and one that suits it; once
\* they are confirmed, that one was no forgery.
Paired(e, p) == /\ IsPeer(e.hello, p)
                /\ e.peer = p.device
                /\ e.script = Transcript(e.hello, p)
DerivedFrom(d, p) == /\ Paired(end[d], p)
                     /\ p.key <= pairings
                     /\ p \in hellos => <<d, end[d].script>> \in derived
                     /\ end[d].phase = "active" => p \in hellos
KeysAreDerived ==
    \A d \in Device : end[d].phase \in {"pending", "active"} =>
        \E p \in Hello : DerivedFrom(d, p)

\* A pairing derives once: while it waits for a hello, its own is in no
\* transcript its device has keys for.
DerivesOnce ==
    \A d \in Device, s \in Hello \X Hello : <<d, s>> \in derived =>
        /\ s[1] \in hellos /\ s[2] \in hellos
        /\ end[d].phase = "offered" => end[d].hello \notin {s[1], s[2]}

\* The two ends of a frame.
SenderOf(f) == IF f.from = "initiator" THEN f.script[1] ELSE f.script[2]
ReceiverOf(f) == IF f.from = "initiator" THEN f.script[2] ELSE f.script[1]

\* A frame was sent to a device that had derived its keys by then, and the
\* sender, if it is still at that pairing, counts on from there.
FramesAreCounted ==
    \A f \in frames :
        /\ SenderOf(f) \in hellos /\ ReceiverOf(f) \in hellos
        /\ <<ReceiverOf(f).device, f.script>> \in derived
        /\ \A d \in Device : end[d] # Idle /\ end[d].hello = SenderOf(f) =>
              end[d].phase = "active" /\ f.counter < end[d].tx

\* A frame is no older than the keys of the device it is for.
ForIt(f, e) == f.script = e.script /\ f.from = Opposite(e.hello.role)
FramesAreYoung ==
    \A f \in frames, d \in Device :
        /\ end[d].phase = "pending" /\ ForIt(f, end[d])
              /\ end[d].age <= ConfirmationTimeout => f.age <= end[d].age
        /\ end[d].phase = "active" /\ ForIt(f, end[d])
              /\ end[d].age <= SessionLifetime =>
                 f.age <= ConfirmationTimeout + end[d].age

\* All of it together.
BluetoothInv ==
    /\ TypeOK
    /\ KeysAreOwn /\ OwnHello /\ KeysAreDerived /\ DerivesOnce
    /\ FramesAreCounted /\ NoncesAreFresh
    /\ ActiveHasPeer /\ ReceivedIsPrefixOfSent
    /\ FramesAreYoung

-----------------------------------------------------------------------------
(* The shape of the state *)

Offered == [phase : {"offered"}, hello : Hello]
Pending == [phase : {"pending"}, hello : Hello, peer : Device,
            script : Hello \X Hello, age : 0 .. ConfirmationTimeout + 1]
InUse   == [phase : {"active"}, hello : Hello, peer : Device,
            script : Hello \X Hello, age : 0 .. SessionLifetime + 1,
            tx : 0 .. MaxFrames, rx : 0 .. MaxFrames, got : Seq(Text)]

\* The phase of an end says which fields it has.
LEMMA EndKinds ==
  ASSUME NEW e \in End
  PROVE  /\ e = Idle \/ e \in Offered \/ e \in Pending \/ e \in InUse
         /\ e # Idle => e.hello \in Hello /\ e.phase # "idle"
         /\ e = Idle => e.phase = "idle"
         /\ e.phase = "offered" => e \in Offered
         /\ e.phase = "pending" => e \in Pending
         /\ e.phase = "active" => e \in InUse
         /\ e.phase \in {"pending", "active"} => e.script \in Hello \X Hello
  BY DEF End, Idle, Offered, Pending, InUse

\* The ends there are.
LEMMA EndIsOne == End = {Idle} \cup Offered \cup Pending \cup InUse
  BY DEF End, Offered, Pending, InUse

\* The fields of a session that a step replaces.
LEMMA InUseFields ==
  ASSUME NEW e \in InUse
  PROVE  /\ e.script \in Hello \X Hello /\ e.hello.role \in {"initiator", "responder"}
         /\ e.age \in 0 .. SessionLifetime + 1
         /\ e.tx \in 0 .. MaxFrames /\ e.rx \in 0 .. MaxFrames
         /\ e.got \in Seq(Text)
  <1>1. e.hello \in Hello
    BY DEF InUse
  <1>2. e.hello.role \in {"initiator", "responder"}
    BY <1>1 DEF Hello
  <1> QED
    BY <1>2 DEF InUse

\* What a step may replace in a session without changing its shape.
LEMMA InUseUpdates ==
  ASSUME NEW e \in InUse
  PROVE  /\ \A a \in 0 .. SessionLifetime + 1 : [e EXCEPT !.age = a] \in InUse
         /\ \A n \in 0 .. MaxFrames : [e EXCEPT !.tx = n] \in InUse
         /\ \A n \in 0 .. MaxFrames, list \in Seq(Text) :
               [e EXCEPT !.rx = n, !.got = list] \in InUse
  BY DEF InUse

\* Time passes for what is limited, until nothing depends on it.
LEMMA OlderType ==
  ASSUME NEW limit \in Nat, NEW age \in 0 .. limit + 1
  PROVE  OlderBy1(age, limit) \in 0 .. limit + 1
  BY DEF OlderBy1

\* What is on the air, forged or not, has no key that is still to come.
OfNow == {h \in Hello : h.key <= pairings}
LEMMA OnAirIsOfNow ==
  ASSUME TypeOK, KeysAreOwn
  PROVE  OnAir \subseteq OfNow
  <1>1. pairings \in 0 .. MaxPairings
    BY DEF TypeOK
  <1>2. ASSUME NEW h \in [role : {"initiator", "responder"}, session : 1 .. pairings,
                          device : Device, key : Forged \cap 0 .. pairings]
        PROVE  h \in OfNow
    BY <1>1, BluetoothAssumption DEF OfNow, Hello
  <1>3. ASSUME NEW h \in hellos PROVE h \in OfNow
    BY DEF OfNow, TypeOK, KeysAreOwn
  <1> QED
    BY <1>2, <1>3 DEF OnAir

\* A device starts a pairing only when it is idle and only as one of the two
\* roles.
Begins(d, role, session) == end[d] = Idle /\ Starts(d, role, session)

\* Next, with the two ways to start a pairing as one.
LEMMA BluetoothCases ==
  ASSUME TypeOK, KeysAreOwn, [Next]_vars
  PROVE  \/ \E d \in Device, role \in {"initiator", "responder"},
               session \in 1 .. MaxPairings : Begins(d, role, session)
         \/ \E d \in Device : Drops(d)
         \/ \E d \in Device, h \in OfNow : Derives(d, h)
         \/ \E d \in Device, other \in Device : Confirms(d, other)
         \/ \E d \in Device, text \in Text : Encrypts(d, text)
         \/ \E d \in Device, f \in frames, intact \in BOOLEAN : Decrypts(d, f, intact)
         \/ Tick
         \/ UNCHANGED vars
  <1>1. ASSUME NEW d \in Device, Initiates(d)
        PROVE  Begins(d, "initiator", pairings + 1) /\ pairings + 1 \in 1 .. MaxPairings
    BY <1>1, BluetoothAssumption DEF Initiates, Begins, Starts, TypeOK
  <1>2. ASSUME NEW d \in Device, NEW h \in OnAir, Responds(d, h)
        PROVE  Begins(d, "responder", h.session) /\ h.session \in 1 .. MaxPairings
    BY <1>2, OnAirIsOfNow DEF Responds, Begins, OfNow, Hello
  <1> QED
    BY <1>1, <1>2, OnAirIsOfNow DEF Next

\* Every step keeps the shape of the state.
LEMMA BluetoothType ==
  ASSUME TypeOK, KeysAreOwn, [Next]_vars
  PROVE  TypeOK'
  <1> USE BluetoothAssumption
  <1>1. ASSUME NEW d \in Device, NEW role \in {"initiator", "responder"},
               NEW session \in 1 .. MaxPairings, Begins(d, role, session)
        PROVE  TypeOK'
    <2> DEFINE hello == [role |-> role, session |-> session,
                         device |-> d, key |-> pairings + 1]
    <2>1. hello \in Hello /\ pairings' \in 0 .. MaxPairings
      BY <1>1 DEF Begins, Starts, TypeOK, Hello
    <2>2. /\ end' = [end EXCEPT ![d] = [phase |-> "offered", hello |-> hello]]
          /\ hellos' = hellos \cup {hello}
          /\ UNCHANGED <<frames, derived>>
      BY <1>1 DEF Begins, Starts
    <2> HIDE DEF hello
    <2>3. [phase |-> "offered", hello |-> hello] \in End
      BY <2>1 DEF End
    <2> QED
      BY <2>1, <2>2, <2>3 DEF TypeOK
  <1>2. ASSUME NEW d \in Device, Drops(d) PROVE TypeOK'
    BY <1>2 DEF Drops, TypeOK, End
  <1>3. ASSUME NEW d \in Device, NEW h \in OfNow, Derives(d, h) PROVE TypeOK'
    <2>1. end[d] \in Offered /\ h \in Hello
      BY <1>3, EndKinds DEF Derives, TypeOK, OfNow
    <2>2. Transcript(end[d].hello, h) \in Hello \X Hello
      BY <2>1 DEF Transcript, Offered
    <2>3. [phase |-> "pending", hello |-> end[d].hello, peer |-> h.device,
           script |-> Transcript(end[d].hello, h), age |-> 0] \in End
      BY <2>1, <2>2 DEF End, Offered, Hello
    <2>4. Idle \in End
      BY DEF End
    <2> QED
      BY <1>3, <2>2, <2>3, <2>4 DEF Derives, TypeOK
  <1>4. ASSUME NEW d \in Device, NEW other \in Device, Confirms(d, other) PROVE TypeOK'
    <2>1. end[d] \in Pending
      BY <1>4, EndKinds DEF Confirms, TypeOK
    <2>2. [phase |-> "active", hello |-> end[d].hello, peer |-> end[d].peer,
           script |-> end[d].script, age |-> 0, tx |-> 0, rx |-> 0,
           got |-> <<>>] \in End
      BY <2>1 DEF End, Pending
    <2>3. Idle \in End
      BY DEF End
    <2> QED
      BY <1>4, <2>2, <2>3 DEF Confirms, TypeOK
  <1>5. ASSUME NEW d \in Device, NEW text \in Text, Encrypts(d, text) PROVE TypeOK'
    <2>1. end[d] \in InUse /\ end[d].tx < MaxFrames
      BY <1>5, EndKinds DEF Encrypts, CanEncrypt, Active, TypeOK
    <2>2. /\ end[d].tx + 1 \in 0 .. MaxFrames /\ end[d].tx \in 0 .. MaxFrames - 1
          /\ end[d].script \in Hello \X Hello
          /\ end[d].hello.role \in {"initiator", "responder"}
      BY <2>1, InUseFields
    <2>3. [end[d] EXCEPT !.tx = end[d].tx + 1] \in End
      BY <2>1, <2>2, InUseUpdates, EndIsOne
    <2>4. end' = [end EXCEPT ![d] = [end[d] EXCEPT !.tx = end[d].tx + 1]]
      BY <1>5 DEF Encrypts, Advanced
    <2>5. 0 \in 0 .. LastUse + 1
      BY DEF LastUse
    <2>6. [script |-> end[d].script, from |-> end[d].hello.role,
           counter |-> end[d].tx, text |-> text, age |-> 0] \in
              [script : Hello \X Hello, from : {"initiator", "responder"},
               counter : 0 .. MaxFrames - 1, text : Text, age : 0 .. LastUse + 1]
      BY <2>2, <2>5
    <2> QED
      BY <1>5, <2>3, <2>4, <2>6 DEF Encrypts, TypeOK
  <1>6. ASSUME NEW d \in Device, NEW f \in frames, NEW intact \in BOOLEAN,
               Decrypts(d, f, intact)
        PROVE  TypeOK'
    <2>1. end[d] \in InUse /\ f.text \in Text
      BY <1>6, EndKinds DEF Decrypts, Active, TypeOK
    <2>2. ASSUME Accepted(end[d], f, intact)
          PROVE  /\ end' = [end EXCEPT ![d] = [end[d] EXCEPT !.rx = end[d].rx + 1,
                                              !.got = Append(end[d].got, f.text)]]
                 /\ [end[d] EXCEPT !.rx = end[d].rx + 1,
                                   !.got = Append(end[d].got, f.text)] \in InUse
      <3>1. end[d].rx + 1 \in 0 .. MaxFrames /\ Append(end[d].got, f.text) \in Seq(Text)
        BY <2>1, <2>2, InUseFields DEF Accepted
      <3>2. [end[d] EXCEPT !.rx = end[d].rx + 1,
                           !.got = Append(end[d].got, f.text)] \in InUse
        BY <3>1, <2>1, InUseUpdates
      <3>3. end' = [end EXCEPT ![d].rx = @ + 1, ![d].got = Append(@, f.text)]
        BY <1>6, <2>2 DEF Decrypts
      <3> QED
        BY <3>2, <3>3, <2>1 DEF TypeOK
    <2> QED
      BY <1>6, <2>2, EndIsOne DEF Decrypts, TypeOK
  <1>7. CASE Tick
    <2>1. ASSUME NEW d \in Device PROVE end'[d] \in End
      <3>1. end[d] \in End
        BY DEF TypeOK
      <3>2. end'[d] = IF end[d].phase \in {"pending", "active"}
                      THEN [end[d] EXCEPT !.age = OlderBy1(@, Limit(end[d].phase))]
                      ELSE end[d]
        BY <1>7 DEF Tick
      <3>3. ASSUME end[d].phase = "pending" PROVE end'[d] \in Pending
        BY <3>1, <3>2, <3>3, EndKinds DEF Pending, OlderBy1, Limit
      <3>4. ASSUME end[d].phase = "active" PROVE end'[d] \in InUse
        <4>1. end[d] \in InUse /\ end[d].age \in 0 .. SessionLifetime + 1
          BY <3>1, <3>4, EndKinds, InUseFields
        <4>2. /\ end'[d] = [end[d] EXCEPT !.age = OlderBy1(end[d].age, SessionLifetime)]
              /\ OlderBy1(end[d].age, SessionLifetime) \in 0 .. SessionLifetime + 1
          BY <3>2, <3>4, <4>1, OlderType DEF Limit
        <4> QED
          BY <4>1, <4>2, InUseUpdates
      <3> QED
        BY <3>1, <3>2, <3>3, <3>4, EndIsOne
    <2>2. ASSUME NEW f \in frames
          PROVE  [f EXCEPT !.age = OlderBy1(@, LastUse)] \in
              [script : Hello \X Hello, from : {"initiator", "responder"},
               counter : 0 .. MaxFrames - 1, text : Text, age : 0 .. LastUse + 1]
      BY DEF TypeOK, OlderBy1, LastUse
    <2>3. /\ end' = [d \in Device |-> end'[d]]
          /\ frames' = {[f EXCEPT !.age = OlderBy1(@, LastUse)] : f \in frames}
          /\ UNCHANGED <<hellos, pairings, derived>>
      BY <1>7 DEF Tick
    <2> QED
      BY <2>1, <2>2, <2>3 DEF TypeOK
  <1>8. CASE UNCHANGED vars
    BY <1>8 DEF vars, TypeOK
  <1> QED
    BY <1>1, <1>2, <1>3, <1>4, <1>5, <1>6, <1>7, <1>8, BluetoothCases

-----------------------------------------------------------------------------
(* Pairings and keys *)

\* What a step makes of the end of one device: nothing, or one stage onwards
\* in its pairing.
StartsOver(d) == end'[d] = Idle
Offers(d) ==
    \E h \in Hello :
        /\ end[d] = Idle
        /\ end'[d] = [phase |-> "offered", hello |-> h]
        /\ h.device = d /\ h.key = pairings + 1 /\ pairings' = pairings + 1
        /\ hellos' = hellos \cup {h}
        /\ UNCHANGED <<frames, derived>>
HasKeys(d) ==
    \E h \in OfNow :
        /\ end[d].phase = "offered"
        /\ end'[d] = [phase |-> "pending", hello |-> end[d].hello,
                      peer |-> h.device,
                      script |-> Transcript(end[d].hello, h), age |-> 0]
        /\ IsPeer(end[d].hello, h)
        /\ derived' = IF h \in hellos
                      THEN derived \cup {<<d, Transcript(end[d].hello, h)>>}
                      ELSE derived
        /\ UNCHANGED <<hellos, frames, pairings>>
IsConfirmed(d) ==
    /\ end[d].phase = "pending" /\ end[d].age <= ConfirmationTimeout
    /\ end'[d] = [phase |-> "active", hello |-> end[d].hello,
                  peer |-> end[d].peer, script |-> end[d].script, age |-> 0,
                  tx |-> 0, rx |-> 0, got |-> <<>>]
    /\ \E other \in Device \ {d} :
          /\ end[other].phase \in {"pending", "active"}
          /\ end[other].script = end[d].script
    /\ UNCHANGED <<hellos, frames, pairings, derived>>
Hears(d) ==
    \E f \in frames :
        /\ ForIt(f, end[d]) /\ f.counter = end[d].rx
        /\ end[d].age <= SessionLifetime
        /\ end'[d].rx = end[d].rx + 1
        /\ end'[d].got = Append(end[d].got, f.text)
        /\ UNCHANGED frames
GoesOn(d) ==
    /\ end[d].phase \in {"pending", "active"} /\ end'[d].phase = end[d].phase
    /\ end'[d].hello = end[d].hello /\ end'[d].peer = end[d].peer
    /\ end'[d].script = end[d].script
    /\ Tick \/ end'[d].age = end[d].age
    /\ end[d].phase = "active" =>
          /\ end'[d].tx \in Nat /\ end[d].tx <= end'[d].tx
          /\ Hears(d) \/ (end'[d].rx = end[d].rx /\ end'[d].got = end[d].got)
    /\ UNCHANGED <<hellos, pairings, derived>>

\* The stages, by the phases they lead from and to.
LEMMA Stages ==
  ASSUME NEW d \in Device
  PROVE  /\ Idle.phase = "idle"
         /\ StartsOver(d) => end'[d].phase = "idle"
         /\ Offers(d) => end[d].phase = "idle" /\ end'[d].phase = "offered"
         /\ HasKeys(d) => /\ end[d].phase = "offered" /\ end'[d].phase = "pending"
                          /\ end'[d].hello = end[d].hello
         /\ IsConfirmed(d) => /\ end[d].phase = "pending" /\ end'[d].phase = "active"
                              /\ end'[d].hello = end[d].hello
                              /\ end'[d].peer = end[d].peer
                              /\ end'[d].script = end[d].script
         /\ GoesOn(d) => /\ end[d].phase \in {"pending", "active"}
                         /\ end'[d].phase = end[d].phase
                         /\ end'[d].hello = end[d].hello
  <1>1. Idle.phase = "idle"
    BY DEF Idle
  <1>2. StartsOver(d) => end'[d].phase = "idle"
    BY <1>1 DEF StartsOver
  <1>3. Offers(d) => end[d].phase = "idle" /\ end'[d].phase = "offered"
    BY <1>1 DEF Offers
  <1>4. HasKeys(d) => /\ end[d].phase = "offered" /\ end'[d].phase = "pending"
                      /\ end'[d].hello = end[d].hello
    BY DEF HasKeys
  <1>5. IsConfirmed(d) => /\ end[d].phase = "pending" /\ end'[d].phase = "active"
                          /\ end'[d].hello = end[d].hello
                          /\ end'[d].peer = end[d].peer
                          /\ end'[d].script = end[d].script
    BY DEF IsConfirmed
  <1> QED
    BY <1>1, <1>2, <1>3, <1>4, <1>5 DEF GoesOn

\* Whatever the step, each end does one of these.
LEMMA EndChanges ==
  ASSUME TypeOK, KeysAreOwn, [Next]_vars, NEW d \in Device
  PROVE  \/ UNCHANGED end[d]
         \/ StartsOver(d) \/ Offers(d) \/ HasKeys(d) \/ IsConfirmed(d) \/ GoesOn(d)
  <1>t. /\ end[d] \in End /\ end \in [Device -> End]
        /\ end[d] # Idle => end[d].phase # "idle"
    BY EndKinds DEF TypeOK
  <1>1. ASSUME NEW c \in Device, NEW role \in {"initiator", "responder"},
               NEW session \in 1 .. MaxPairings, Begins(c, role, session)
        PROVE  UNCHANGED end[d] \/ Offers(d)
    <2> DEFINE hello == [role |-> role, session |-> session,
                         device |-> c, key |-> pairings + 1]
    <2>1. hello \in Hello /\ hello.device = c /\ hello.key = pairings + 1
      BY <1>1, BluetoothAssumption DEF Begins, Starts, TypeOK, Hello
    <2>2. /\ end' = [end EXCEPT ![c] = [phase |-> "offered", hello |-> hello]]
          /\ hellos' = hellos \cup {hello} /\ pairings' = pairings + 1
          /\ end[c] = Idle /\ UNCHANGED <<frames, derived>>
      BY <1>1 DEF Begins, Starts
    <2> HIDE DEF hello
    <2> QED
      BY <1>t, <2>1, <2>2 DEF Offers
  <1>2. ASSUME NEW c \in Device, Drops(c) PROVE UNCHANGED end[d] \/ StartsOver(d)
    BY <1>t, <1>2 DEF Drops, StartsOver
  <1>3. ASSUME NEW c \in Device, NEW h \in OfNow, Derives(c, h)
        PROVE  UNCHANGED end[d] \/ StartsOver(d) \/ HasKeys(d)
    <2>1. CASE c = d /\ IsPeer(end[c].hello, h)
      BY <1>t, <1>3, <2>1 DEF Derives, HasKeys
    <2>2. CASE c = d /\ ~IsPeer(end[c].hello, h)
      BY <1>t, <1>3, <2>2 DEF Derives, StartsOver
    <2>3. CASE c # d
      BY <1>t, <1>3, <2>3 DEF Derives
    <2> QED
      BY <2>1, <2>2, <2>3
  <1>4. ASSUME NEW c \in Device, NEW other \in Device, Confirms(c, other)
        PROVE  UNCHANGED end[d] \/ StartsOver(d) \/ IsConfirmed(d)
    <2>1. CASE c = d /\ Confirmed(end[c], end[other].script)
      BY <1>t, <1>4, <2>1 DEF Confirms, Confirmed, IsConfirmed
    <2>2. CASE c = d /\ ~Confirmed(end[c], end[other].script)
      BY <1>t, <1>4, <2>2 DEF Confirms, StartsOver
    <2>3. CASE c # d
      BY <1>t, <1>4, <2>3 DEF Confirms
    <2> QED
      BY <2>1, <2>2, <2>3
  <1>5. ASSUME NEW c \in Device, NEW text \in Text, Encrypts(c, text)
        PROVE  UNCHANGED end[d] \/ GoesOn(d)
    <2>1. CASE c = d
      <3>1. end[d] \in InUse
        BY <1>t, <1>5, <2>1, EndKinds DEF Encrypts, CanEncrypt, Active
      <3>2. end'[d] = [end[d] EXCEPT !.tx = end[d].tx + 1]
        BY <1>t, <1>5, <2>1 DEF Encrypts, Advanced
      <3>3. end[d].tx \in Nat
        BY <3>1, InUseFields
      <3>4. /\ end'[d].tx = end[d].tx + 1 /\ end'[d].rx = end[d].rx
            /\ end'[d].got = end[d].got /\ end'[d].age = end[d].age
            /\ end'[d].hello = end[d].hello /\ end'[d].peer = end[d].peer
            /\ end'[d].script = end[d].script
            /\ end'[d].phase = "active" /\ end[d].phase = "active"
        BY <3>1, <3>2 DEF InUse
      <3>5. UNCHANGED <<hellos, pairings, derived>>
        BY <1>5 DEF Encrypts
      <3> QED
        BY <3>3, <3>4, <3>5 DEF GoesOn
    <2>2. CASE c # d
      BY <1>t, <1>5, <2>2 DEF Encrypts
    <2> QED
      BY <2>1, <2>2
  <1>6. ASSUME NEW c \in Device, NEW f \in frames, NEW intact \in BOOLEAN,
               Decrypts(c, f, intact)
        PROVE  UNCHANGED end[d] \/ GoesOn(d)
    <2>1. CASE c = d
      <3>1. end[d] \in InUse
        BY <1>t, <1>6, <2>1, EndKinds DEF Decrypts, Active
      <3>2. end[d].tx \in Nat /\ end[d].age <= SessionLifetime
        BY <1>6, <2>1, <3>1, InUseFields DEF Decrypts, Active
      <3>3. CASE ~Accepted(end[d], f, intact)
        BY <1>6, <2>1, <3>3 DEF Decrypts
      <3>4. CASE Accepted(end[d], f, intact)
        <4>1. end'[d] = [end[d] EXCEPT !.rx = end[d].rx + 1,
                                       !.got = Append(end[d].got, f.text)]
          BY <1>t, <1>6, <2>1, <3>4 DEF Decrypts
        <4>2. /\ end'[d].tx = end[d].tx /\ end'[d].rx = end[d].rx + 1
              /\ end'[d].got = Append(end[d].got, f.text)
              /\ end'[d].age = end[d].age
              /\ end'[d].hello = end[d].hello /\ end'[d].peer = end[d].peer
              /\ end'[d].script = end[d].script
              /\ end'[d].phase = "active" /\ end[d].phase = "active"
          BY <3>1, <4>1 DEF InUse
        <4>3. ForIt(f, end[d]) /\ f.counter = end[d].rx
          BY <3>4 DEF Accepted, Authentic, ForIt
        <4>4. UNCHANGED <<frames, hellos, pairings, derived>>
          BY <1>6 DEF Decrypts
        <4>5. Hears(d)
          BY <3>2, <4>2, <4>3, <4>4 DEF Hears
        <4> QED
          BY <3>2, <4>2, <4>4, <4>5 DEF GoesOn
      <3> QED
        BY <3>3, <3>4
    <2>2. CASE c # d
      BY <1>t, <1>6, <2>2 DEF Decrypts
    <2> QED
      BY <2>1, <2>2
  <1>7. CASE Tick
    <2>1. end'[d] = IF end[d].phase \in {"pending", "active"}
                    THEN [end[d] EXCEPT !.age = OlderBy1(@, Limit(end[d].phase))]
                    ELSE end[d]
      BY <1>7 DEF Tick
    <2>2. CASE end[d].phase = "pending"
      <3>1. end[d] \in Pending
        BY <1>t, <2>2, EndKinds
      <3> QED
        BY <1>7, <2>1, <2>2, <3>1 DEF Tick, GoesOn, Pending
    <2>3. CASE end[d].phase = "active"
      <3>1. end[d] \in InUse
        BY <1>t, <2>3, EndKinds
      <3>2. end[d].tx \in Nat
        BY <3>1, InUseFields
      <3> QED
        BY <1>7, <2>1, <2>3, <3>1, <3>2 DEF Tick, GoesOn, InUse
    <2> QED
      BY <2>1, <2>2, <2>3
  <1>8. CASE UNCHANGED vars
    BY <1>8 DEF vars
  <1> QED
    BY <1>1, <1>2, <1>3, <1>4, <1>5, <1>6, <1>7, <1>8, BluetoothCases

\* What is said or derived stays so; a key is new when its pairing starts.
LEMMA PairingsGrow ==
  ASSUME TypeOK, KeysAreOwn, [Next]_vars
  PROVE  /\ hellos \subseteq hellos' /\ derived \subseteq derived'
         /\ \/ UNCHANGED <<hellos, pairings>>
            \/ \E d \in Device : Offers(d)
         /\ \/ UNCHANGED derived
            \/ \E d \in Device : HasKeys(d)
  <1>1. ASSUME NEW c \in Device, NEW role \in {"initiator", "responder"},
               NEW session \in 1 .. MaxPairings, Begins(c, role, session)
        PROVE  Offers(c)
    <2>1. /\ end[c].phase = "idle" /\ Idle.phase = "idle"
          /\ end'[c].phase = "offered"
      BY <1>1 DEF Begins, Starts, Idle, TypeOK
    <2>2. ~HasKeys(c) /\ ~IsConfirmed(c) /\ ~GoesOn(c) /\ ~StartsOver(c)
      BY <2>1 DEF HasKeys, IsConfirmed, GoesOn, StartsOver
    <2> QED
      BY <2>1, <2>2, EndChanges
  <1>2. ASSUME NEW c \in Device, NEW h \in OfNow, Derives(c, h)
        PROVE  /\ UNCHANGED <<hellos, pairings>> /\ derived \subseteq derived'
               /\ UNCHANGED derived \/ HasKeys(c)
    <2>1. UNCHANGED <<hellos, pairings>> /\ derived \subseteq derived'
      BY <1>2 DEF Derives
    <2>2. UNCHANGED derived \/ HasKeys(c)
      BY <1>2 DEF Derives, HasKeys, TypeOK
    <2> QED
      BY <2>1, <2>2
  <1>3. ASSUME \/ \E d \in Device : Drops(d)
               \/ \E d \in Device, other \in Device : Confirms(d, other)
               \/ \E d \in Device, text \in Text : Encrypts(d, text)
               \/ \E d \in Device, f \in frames, intact \in BOOLEAN : Decrypts(d, f, intact)
               \/ Tick \/ UNCHANGED vars
        PROVE  UNCHANGED <<hellos, pairings, derived>>
    BY <1>3 DEF Drops, Confirms, Encrypts, Decrypts, Tick, vars
  <1> QED
    BY <1>1, <1>2, <1>3, BluetoothCases DEF Offers

\* Two devices with the same keys have them from each other's hello.
LEMMA PeersAgree ==
  ASSUME TypeOK, OwnHello, KeysAreDerived,
         NEW d \in Device, end[d].phase \in {"pending", "active"},
         NEW other \in Device, other # d, end[other].phase \in {"pending", "active"},
         end[other].script = end[d].script
  PROVE  /\ end[d].peer = other
         /\ \A p \in Hello : Paired(end[d], p) => p \in hellos
  <1>1. ASSUME NEW c \in Device, end[c].phase \in {"pending", "active"}
        PROVE  /\ end[c].hello \in hellos /\ end[c].hello.device = c
               /\ end[c].hello.role \in {"initiator", "responder"}
    BY <1>1 DEF OwnHello, Idle, TypeOK, Hello
  <1>2. PICK q \in Hello : Paired(end[other], q)
    BY DEF KeysAreDerived, DerivedFrom
  <1>3. ASSUME NEW p \in Hello, Paired(end[d], p)
        PROVE  p = end[other].hello /\ end[d].peer = other
    <2>0. end[d].hello # end[other].hello
      BY <1>1
    <2>1. Transcript(end[d].hello, p) = Transcript(end[other].hello, q)
      BY <1>2, <1>3, Zenon DEF Paired
    <2>2. end[d].hello.role # end[other].hello.role
      BY <2>0, <2>1 DEF Transcript
    <2>3. p = end[other].hello
      BY <1>1, <2>1, <2>2 DEF Transcript
    <2> QED
      BY <1>1, <1>3, <2>3 DEF Paired
  <1>4. \E p \in Hello : Paired(end[d], p)
    BY DEF KeysAreDerived, DerivedFrom
  <1> QED
    BY <1>1, <1>3, <1>4

\* Every step keeps what is known of pairings and keys.
LEMMA PairingStep ==
  ASSUME TypeOK, KeysAreOwn, OwnHello, KeysAreDerived, DerivesOnce, [Next]_vars
  PROVE  KeysAreOwn' /\ OwnHello' /\ KeysAreDerived' /\ DerivesOnce'
  <1>g. hellos \subseteq hellos' /\ derived \subseteq derived'
    BY PairingsGrow
  <1>t. /\ hellos \subseteq Hello /\ pairings \in Nat
        /\ \A d \in Device : end[d] \in End
        /\ \A h \in hellos : h.key <= pairings /\ h.key \in Nat
    BY BluetoothAssumption DEF TypeOK, KeysAreOwn, Hello
  <1>1. KeysAreOwn'
    <2>1. CASE UNCHANGED <<hellos, pairings>>
      BY <2>1 DEF KeysAreOwn
    <2>2. ASSUME NEW d \in Device, Offers(d) PROVE KeysAreOwn'
      <3>1. PICK h \in Hello : /\ hellos' = hellos \cup {h}
                               /\ h.key = pairings + 1 /\ pairings' = pairings + 1
        BY <2>2 DEF Offers
      <3>2. \A g \in hellos' : g.key <= pairings'
        BY <1>t, <3>1
      <3>3. \A g, k \in hellos' : g.key = k.key => g = k
        BY <1>t, <3>1 DEF KeysAreOwn
      <3> QED
        BY <3>2, <3>3 DEF KeysAreOwn
    <2> QED
      BY <2>1, <2>2, PairingsGrow
  <1>2. OwnHello'
    <2> SUFFICES ASSUME NEW d \in Device, end'[d] # Idle
                 PROVE  end'[d].hello \in hellos' /\ end'[d].hello.device = d
      BY DEF OwnHello
    <2>1. CASE UNCHANGED end[d]
      BY <1>g, <2>1 DEF OwnHello
    <2>2. CASE Offers(d)
      BY <2>2 DEF Offers
    <2>3. CASE HasKeys(d) \/ IsConfirmed(d) \/ GoesOn(d)
      <3>1. end'[d].hello = end[d].hello /\ end[d] # Idle
        BY <2>3, Stages
      <3> QED
        BY <1>g, <3>1 DEF OwnHello
    <2> QED
      BY <2>1, <2>2, <2>3, EndChanges DEF StartsOver
  <1>3. KeysAreDerived'
    <2>o. ASSUME NEW c \in Device, Offers(c)
          PROVE  \E h \in Hello : /\ h.key = pairings + 1 /\ pairings' = pairings + 1
                                  /\ hellos' = hellos \cup {h}
      BY <2>o DEF Offers
    <2>g. pairings' \in Nat /\ pairings <= pairings'
      BY <1>t, <2>o, PairingsGrow
    <2>n. ASSUME NEW p \in Hello, p.key <= pairings, p \in hellos'
          PROVE  p \in hellos
      <3>1. p.key \in Nat
        BY BluetoothAssumption DEF Hello
      <3> QED
        BY <1>t, <2>n, <2>o, <3>1, PairingsGrow
    <2> SUFFICES ASSUME NEW d \in Device, end'[d].phase \in {"pending", "active"}
                 PROVE  \E p \in Hello : DerivedFrom(d, p)'
      BY DEF KeysAreDerived
    <2>k. ASSUME NEW p \in Hello, p.key <= pairings, Paired(end'[d], p),
                 p \in hellos => <<d, end'[d].script>> \in derived',
                 end'[d].phase = "active" => p \in hellos
          PROVE  DerivedFrom(d, p)'
      <3>1. p.key <= pairings'
        BY <1>t, <2>g, <2>k, BluetoothAssumption DEF Hello
      <3> QED
        BY <1>g, <2>k, <2>n, <3>1 DEF DerivedFrom, Paired
    <2>1. ASSUME end[d].phase \in {"pending", "active"},
                 end'[d].hello = end[d].hello, end'[d].peer = end[d].peer,
                 end'[d].script = end[d].script,
                 \A p \in Hello : Paired(end[d], p) =>
                    (end'[d].phase = "active" /\ end[d].phase # "active" => p \in hellos)
          PROVE  \E p \in Hello : DerivedFrom(d, p)'
      <3>1. PICK p \in Hello : DerivedFrom(d, p)
        BY <2>1 DEF KeysAreDerived
      <3>2. /\ p.key <= pairings /\ Paired(end'[d], p)
            /\ p \in hellos => <<d, end'[d].script>> \in derived'
            /\ end'[d].phase = "active" => p \in hellos
        BY <1>g, <2>1, <3>1 DEF DerivedFrom, Paired
      <3> QED
        BY <2>k, <3>2
    <2>2. CASE UNCHANGED end[d]
      BY <2>1, <2>2
    <2>3. CASE StartsOver(d) \/ Offers(d)
      BY <2>3, Stages
    <2>4. CASE HasKeys(d)
      <3>1. PICK h \in OfNow :
                   /\ end'[d] = [phase |-> "pending", hello |-> end[d].hello,
                                 peer |-> h.device,
                                 script |-> Transcript(end[d].hello, h), age |-> 0]
                   /\ IsPeer(end[d].hello, h)
                   /\ derived' = IF h \in hellos
                                 THEN derived \cup {<<d, Transcript(end[d].hello, h)>>}
                                 ELSE derived
        BY <2>4 DEF HasKeys
      <3>2. /\ h \in Hello /\ h.key <= pairings /\ Paired(end'[d], h)
            /\ end'[d].phase # "active"
            /\ h \in hellos => <<d, end'[d].script>> \in derived'
        BY <3>1 DEF OfNow, Paired
      <3> QED
        BY <2>k, <3>2
    <2>5. CASE IsConfirmed(d)
      <3>1. \A p \in Hello : Paired(end[d], p) => p \in hellos
        BY <2>5, PeersAgree DEF IsConfirmed
      <3> QED
        BY <2>1, <2>5, <3>1 DEF IsConfirmed
    <2>6. CASE GoesOn(d)
      BY <2>1, <2>6 DEF GoesOn
    <2> QED
      BY <2>2, <2>3, <2>4, <2>5, <2>6, EndChanges
  <1>4. DerivesOnce'
    <2> SUFFICES ASSUME NEW d \in Device, NEW s \in Hello \X Hello, <<d, s>> \in derived'
                 PROVE  /\ s[1] \in hellos' /\ s[2] \in hellos'
                        /\ end'[d].phase = "offered" => end'[d].hello \notin {s[1], s[2]}
      BY DEF DerivesOnce
    <2>1. CASE <<d, s>> \in derived
      <3>1. s[1] \in hellos /\ s[2] \in hellos
        BY <2>1 DEF DerivesOnce
      <3>2. ASSUME end'[d].phase = "offered" PROVE end'[d].hello \notin {s[1], s[2]}
        <4>1. CASE UNCHANGED end[d]
          BY <2>1, <3>2, <4>1 DEF DerivesOnce
        <4>2. CASE Offers(d)
          <5>1. end'[d].hello.key = pairings + 1
            BY <4>2 DEF Offers
          <5> QED
            BY <1>t, <3>1, <5>1
        <4>3. CASE StartsOver(d) \/ HasKeys(d) \/ IsConfirmed(d) \/ GoesOn(d)
          BY <3>2, <4>3, Stages
        <4> QED
          BY <4>1, <4>2, <4>3, EndChanges
      <3> QED
        BY <1>g, <3>1, <3>2
    <2>2. CASE <<d, s>> \notin derived
      <3>1. PICK c \in Device : HasKeys(c)
        BY <2>2, PairingsGrow
      <3>p. end[c].phase = "offered" /\ end'[c].phase = "pending"
        BY <3>1, Stages
      <3>2. PICK h \in OfNow : /\ derived' = IF h \in hellos
                                     THEN derived \cup {<<c, Transcript(end[c].hello, h)>>}
                                     ELSE derived
                               /\ UNCHANGED hellos
        BY <3>1 DEF HasKeys
      <3>3. h \in hellos /\ c = d /\ s = Transcript(end[d].hello, h)
        BY <2>2, <3>2
      <3>4. end[d].hello \in hellos
        BY <3>p, <3>3 DEF OwnHello, Idle
      <3> QED
        BY <3>p, <3>2, <3>3, <3>4 DEF Transcript
    <2> QED
      BY <2>1, <2>2
  <1> QED
    BY <1>1, <1>2, <1>3, <1>4

\* A confirmed session has a peer, and keeps it.
LEMMA PeerStep ==
  ASSUME TypeOK, KeysAreOwn, OwnHello, KeysAreDerived, ActiveHasPeer, [Next]_vars
  PROVE  ActiveHasPeer'
  <1> SUFFICES ASSUME NEW d \in Device, end'[d].phase = "active"
               PROVE  /\ <<end'[d].peer, end'[d].script>> \in derived'
                      /\ end'[d].peer # d
    BY DEF ActiveHasPeer
  <1>g. derived \subseteq derived'
    BY PairingsGrow
  <1>1. CASE UNCHANGED end[d]
    BY <1>g, <1>1 DEF ActiveHasPeer
  <1>2. CASE StartsOver(d) \/ Offers(d) \/ HasKeys(d)
    BY <1>2, Stages
  <1>3. CASE IsConfirmed(d)
    <2>1. PICK other \in Device \ {d} :
                 /\ end[other].phase \in {"pending", "active"}
                 /\ end[other].script = end[d].script
      BY <1>3 DEF IsConfirmed
    <2>2. end[d].phase = "pending" /\ end'[d].peer = end[d].peer /\ end'[d].script = end[d].script
      BY <1>3 DEF IsConfirmed
    <2>3. end[d].peer = other
      BY <2>1, <2>2, PeersAgree
    <2>4. PICK q \in Hello : DerivedFrom(other, q)
      BY <2>1 DEF KeysAreDerived
    <2>5. q \in hellos
      BY <2>1, <2>2, <2>4, PeersAgree DEF DerivedFrom
    <2>6. <<other, end[other].script>> \in derived
      BY <2>4, <2>5 DEF DerivedFrom
    <2> QED
      BY <1>g, <2>1, <2>2, <2>3, <2>6
  <1>4. CASE GoesOn(d)
    BY <1>g, <1>4 DEF GoesOn, ActiveHasPeer
  <1> QED
    BY <1>1, <1>2, <1>3, <1>4, EndChanges

-----------------------------------------------------------------------------
(* Frames *)

\* What of a frame never changes.
SameFrame(f, g) == /\ f.script = g.script /\ f.from = g.from
                   /\ f.counter = g.counter /\ f.text = g.text
NewFrame(d, text) == [script |-> end[d].script, from |-> end[d].hello.role,
                      counter |-> end[d].tx, text |-> text, age |-> 0]

\* A step sends one frame, or lets those on the air grow older, or neither.
LEMMA FramesChange ==
  ASSUME TypeOK, KeysAreOwn, [Next]_vars
  PROVE  \/ UNCHANGED frames
         \/ Tick /\ frames' = {[f EXCEPT !.age = OlderBy1(@, LastUse)] : f \in frames}
         \/ \E d \in Device, text \in Text :
               /\ Active(end[d]) /\ end[d] \in InUse
               /\ frames' = frames \cup {NewFrame(d, text)}
               /\ end' = [end EXCEPT ![d] = [end[d] EXCEPT !.tx = end[d].tx + 1]]
  <1>1. ASSUME NEW d \in Device, NEW text \in Text, Encrypts(d, text)
        PROVE  /\ Active(end[d]) /\ end[d] \in InUse
               /\ frames' = frames \cup {NewFrame(d, text)}
               /\ end' = [end EXCEPT ![d] = [end[d] EXCEPT !.tx = end[d].tx + 1]]
    BY <1>1, EndKinds DEF Encrypts, CanEncrypt, Active, Advanced, NewFrame, TypeOK
  <1>2. ASSUME NEW d \in Device, NEW role, NEW session, Begins(d, role, session)
        PROVE  UNCHANGED frames
    BY <1>2 DEF Begins, Starts
  <1>3. ASSUME NEW d \in Device, NEW h \in OfNow, Derives(d, h)
        PROVE  UNCHANGED frames
    BY <1>3 DEF Derives
  <1> QED
    BY <1>1, <1>2, <1>3, BluetoothCases DEF Drops, Confirms, Decrypts, Tick, vars

\* Nothing is taken off the air, and every frame there was one before or has
\* just been sent.
LEMMA FramesStay ==
  ASSUME TypeOK, KeysAreOwn, [Next]_vars
  PROVE  /\ \A f \in frames : \E g \in frames' : SameFrame(g, f)
         /\ \A g \in frames' :
               \/ \E f \in frames : SameFrame(g, f)
               \/ \E d \in Device, text \in Text :
                     /\ end[d].phase = "active" /\ end[d] \in InUse
                     /\ end' = [end EXCEPT ![d] = [end[d] EXCEPT !.tx = end[d].tx + 1]]
                     /\ g = NewFrame(d, text)
  <1>1. ASSUME NEW f \in frames
        PROVE  SameFrame([f EXCEPT !.age = OlderBy1(@, LastUse)], f) /\ SameFrame(f, f)
    BY DEF SameFrame, TypeOK
  <1>2. CASE UNCHANGED frames
    BY <1>1, <1>2
  <1>3. CASE frames' = {[f EXCEPT !.age = OlderBy1(@, LastUse)] : f \in frames}
    BY <1>1, <1>3
  <1>4. ASSUME NEW d \in Device, NEW text \in Text,
               Active(end[d]), end[d] \in InUse,
               frames' = frames \cup {NewFrame(d, text)},
               end' = [end EXCEPT ![d] = [end[d] EXCEPT !.tx = end[d].tx + 1]]
        PROVE  /\ \A f \in frames : \E g \in frames' : SameFrame(g, f)
               /\ \A g \in frames' :
                     \/ \E f \in frames : SameFrame(g, f)
                     \/ g = NewFrame(d, text)
               /\ end[d].phase = "active"
    BY <1>1, <1>4 DEF Active
  <1> QED
    BY <1>2, <1>3, <1>4, FramesChange

\* The frame a session is about to send comes from its own pairing, and its
\* peer has derived the keys it is sent under.
LEMMA NewFrameEnds ==
  ASSUME TypeOK, OwnHello, KeysAreDerived, ActiveHasPeer,
         NEW d \in Device, end[d].phase = "active", end[d] \in InUse,
         NEW text \in Text, NEW f, f = NewFrame(d, text)
  PROVE  /\ f.script = end[d].script /\ f.from = end[d].hello.role
         /\ f.counter = end[d].tx /\ f.age = 0
         /\ SenderOf(f) = end[d].hello /\ SenderOf(f) \in hellos
         /\ ReceiverOf(f) \in hellos
         /\ <<ReceiverOf(f).device, f.script>> \in derived
  <1>1. /\ f.script = end[d].script /\ f.from = end[d].hello.role
        /\ f.counter = end[d].tx /\ f.age = 0
    BY DEF NewFrame
  <1>2. PICK p \in hellos : Paired(end[d], p)
    BY DEF KeysAreDerived, DerivedFrom
  <1>3. end[d].hello \in hellos
    BY DEF OwnHello, Idle
  <1>4. end[d].hello.role \in {"initiator", "responder"}
    BY InUseFields
  <1>5. SenderOf(f) = end[d].hello /\ ReceiverOf(f) = p
    BY <1>1, <1>2, <1>4 DEF SenderOf, ReceiverOf, Paired, Transcript
  <1>6. <<end[d].peer, end[d].script>> \in derived
    BY DEF ActiveHasPeer
  <1> QED
    BY <1>1, <1>2, <1>3, <1>5, <1>6 DEF Paired

\* A pairing counts its frames, and no pairing goes on from another's.
LEMMA CountStep ==
  ASSUME TypeOK, KeysAreOwn, OwnHello, KeysAreDerived, ActiveHasPeer,
         FramesAreCounted, OwnHello', [Next]_vars
  PROVE  FramesAreCounted'
  <1> DEFINE Counted(g) ==
               /\ SenderOf(g) \in hellos' /\ ReceiverOf(g) \in hellos'
               /\ <<ReceiverOf(g).device, g.script>> \in derived'
               /\ \A d \in Device : end'[d] # Idle /\ end'[d].hello = SenderOf(g) =>
                     end'[d].phase = "active" /\ g.counter < end'[d].tx
  <1>g. hellos \subseteq hellos' /\ derived \subseteq derived'
    BY PairingsGrow
  <1>1. ASSUME NEW g, NEW f \in frames, SameFrame(g, f) PROVE Counted(g)
    <2>1. /\ SenderOf(g) = SenderOf(f) /\ ReceiverOf(g) = ReceiverOf(f)
          /\ g.script = f.script /\ g.counter = f.counter
      BY <1>1 DEF SameFrame, SenderOf, ReceiverOf
    <2>2. /\ SenderOf(f) \in hellos /\ ReceiverOf(f) \in hellos
          /\ <<ReceiverOf(f).device, f.script>> \in derived
          /\ \A d \in Device : end[d] # Idle /\ end[d].hello = SenderOf(f) =>
                end[d].phase = "active" /\ f.counter < end[d].tx
      BY DEF FramesAreCounted
    <2>3. ASSUME NEW d \in Device, end'[d] # Idle, end'[d].hello = SenderOf(f)
          PROVE  end'[d].phase = "active" /\ f.counter < end'[d].tx
      <3>1. CASE UNCHANGED end[d]
        BY <2>2, <2>3, <3>1
      <3>2. CASE StartsOver(d)
        BY <2>3, <3>2 DEF StartsOver
      <3>3. CASE Offers(d)
        <4>1. end'[d].hello.key = pairings + 1
          BY <3>3 DEF Offers
        <4>2. SenderOf(f).key <= pairings /\ pairings \in Nat /\ SenderOf(f).key \in Nat
          BY <2>2, BluetoothAssumption DEF KeysAreOwn, TypeOK, Hello
        <4> QED
          BY <2>3, <4>1, <4>2
      <3>4. CASE HasKeys(d) \/ IsConfirmed(d)
        BY <2>2, <2>3, <3>4, Stages
      <3>5. CASE GoesOn(d)
        <4>1. end[d].phase = "active" /\ f.counter < end[d].tx
          BY <2>2, <2>3, <3>5, Stages
        <4>2. /\ end'[d].tx \in Nat /\ end[d].tx <= end'[d].tx
              /\ end'[d].phase = "active"
          BY <3>5, <4>1 DEF GoesOn
        <4>3. end[d].tx \in Nat /\ f.counter \in Nat
          BY <4>1, EndKinds, InUseFields, BluetoothAssumption DEF TypeOK
        <4> QED
          BY <4>1, <4>2, <4>3
      <3> QED
        BY <3>1, <3>2, <3>3, <3>4, <3>5, EndChanges
    <2> QED
      BY <1>g, <2>1, <2>2, <2>3
  <1>2. ASSUME NEW d \in Device, NEW text \in Text, NEW g, g = NewFrame(d, text),
               end[d].phase = "active", end[d] \in InUse,
               end' = [end EXCEPT ![d] = [end[d] EXCEPT !.tx = end[d].tx + 1]]
        PROVE  Counted(g)
    <2>1. /\ g.counter = end[d].tx /\ SenderOf(g) = end[d].hello
          /\ SenderOf(g) \in hellos /\ ReceiverOf(g) \in hellos
          /\ <<ReceiverOf(g).device, g.script>> \in derived
      BY <1>2, NewFrameEnds
    <2>2. /\ end[d].tx \in Nat /\ end'[d] = [end[d] EXCEPT !.tx = end[d].tx + 1]
      BY <1>2, InUseFields DEF TypeOK
    <2>3. end'[d].tx = end[d].tx + 1 /\ end'[d].phase = "active"
      BY <1>2, <2>2 DEF InUse
    <2>4. end[d].hello.device = d
      BY <1>2 DEF OwnHello, Idle
    <2>5. ASSUME NEW c \in Device, end'[c] # Idle, end'[c].hello = SenderOf(g)
          PROVE  c = d
      BY <2>1, <2>4, <2>5 DEF OwnHello
    <2>6. g.counter < end'[d].tx
      BY <2>1, <2>2, <2>3
    <2>7. \A c \in Device : end'[c] # Idle /\ end'[c].hello = SenderOf(g) =>
             end'[c].phase = "active" /\ g.counter < end'[c].tx
      BY <2>3, <2>5, <2>6
    <2>8. /\ SenderOf(g) \in hellos' /\ ReceiverOf(g) \in hellos'
          /\ <<ReceiverOf(g).device, g.script>> \in derived'
      BY <1>g, <2>1
    <2> QED
      BY <2>7, <2>8
  <1>3. \A g \in frames' : Counted(g)
    <2> HIDE DEF Counted
    <2> QED
      BY <1>1, <1>2, FramesStay
  <1> QED
    BY <1>3 DEF FramesAreCounted, SenderOf, ReceiverOf

\* No two frames come to share a key and a counter.
LEMMA NonceStep ==
  ASSUME TypeOK, KeysAreOwn, OwnHello, KeysAreDerived, ActiveHasPeer,
         FramesAreCounted, NoncesAreFresh, [Next]_vars
  PROVE  NoncesAreFresh'
  <1> DEFINE Alike(f, g) == f.script = g.script /\ f.from = g.from /\ f.counter = g.counter
  <1>1. CASE UNCHANGED frames
    BY <1>1 DEF NoncesAreFresh
  <1>2. CASE frames' = {[f EXCEPT !.age = OlderBy1(@, LastUse)] : f \in frames}
    <2> SUFFICES ASSUME NEW f2 \in frames', NEW g2 \in frames', Alike(f2, g2)
                 PROVE  f2 = g2
      BY DEF NoncesAreFresh
    <2>1. PICK f \in frames : f2 = [f EXCEPT !.age = OlderBy1(@, LastUse)]
      BY <1>2
    <2>2. PICK g \in frames : g2 = [g EXCEPT !.age = OlderBy1(@, LastUse)]
      BY <1>2
    <2>3. Alike(f, g)
      BY <2>1, <2>2 DEF TypeOK
    <2>4. f = g
      BY <2>3 DEF NoncesAreFresh
    <2> QED
      BY <2>1, <2>2, <2>4
  <1>3. ASSUME NEW d \in Device, NEW text \in Text, end[d].phase = "active",
               end[d] \in InUse, frames' = frames \cup {NewFrame(d, text)}
        PROVE  NoncesAreFresh'
    <2>1. ASSUME NEW f \in frames PROVE ~Alike(f, NewFrame(d, text))
      <3> DEFINE new == NewFrame(d, text)
      <3>1. /\ new.counter = end[d].tx /\ SenderOf(new) = end[d].hello
            /\ new.script = end[d].script
        BY <1>3, NewFrameEnds
      <3>2. ASSUME Alike(f, new) PROVE SenderOf(f) = SenderOf(new)
        BY <3>2 DEF SenderOf
      <3>3. end[d] # Idle /\ f.counter \in Nat /\ end[d].tx \in Nat
        BY <1>3, InUseFields, BluetoothAssumption DEF TypeOK, Idle
      <3>4. ASSUME SenderOf(f) = end[d].hello PROVE f.counter < end[d].tx
        BY <3>3, <3>4 DEF FramesAreCounted
      <3> QED
        BY <3>1, <3>2, <3>3, <3>4
    <2> QED
      BY <1>3, <2>1 DEF NoncesAreFresh
  <1> QED
    BY <1>1, <1>2, <1>3, FramesChange DEF Active

\* What an application has received stays what its peer sent, in order.
LEMMA ReceivedStep ==
  ASSUME TypeOK, KeysAreOwn, ReceivedIsPrefixOfSent, [Next]_vars
  PROVE  ReceivedIsPrefixOfSent'
  <1> DEFINE Sent(air, e, n, t) ==
               \E f \in air : ForIt(f, e) /\ f.counter = n /\ f.text = t
  <1>1. ASSUME NEW e, NEW n, NEW t, Sent(frames, e, n, t) PROVE Sent(frames', e, n, t)
    <2>1. PICK f \in frames : ForIt(f, e) /\ f.counter = n /\ f.text = t
      BY <1>1
    <2>2. PICK g \in frames' : SameFrame(g, f)
      BY FramesStay
    <2> QED
      BY <2>1, <2>2 DEF SameFrame, ForIt
  <1>2. ASSUME NEW d \in Device, end[d].phase = "active"
        PROVE  /\ Len(end[d].got) = end[d].rx
               /\ \A i \in 1 .. end[d].rx : Sent(frames, end[d], i - 1, end[d].got[i])
    BY <1>2 DEF ReceivedIsPrefixOfSent, ForIt
  <1>3. ASSUME NEW d \in Device, end'[d].phase = "active"
        PROVE  /\ Len(end'[d].got) = end'[d].rx
               /\ \A i \in 1 .. end'[d].rx : Sent(frames', end'[d], i - 1, end'[d].got[i])
    <2> HIDE DEF Sent
    <2>1. CASE UNCHANGED end[d]
      BY <1>1, <1>2, <1>3, <2>1
    <2>2. CASE IsConfirmed(d)
      <3>1. end'[d].rx = 0 /\ end'[d].got = <<>>
        BY <2>2 DEF IsConfirmed
      <3> QED
        BY <3>1
    <2>3. CASE StartsOver(d) \/ Offers(d) \/ HasKeys(d)
      BY <1>3, <2>3, Stages
    <2>4. CASE GoesOn(d)
      <3>1. /\ end[d].phase = "active" /\ end'[d].script = end[d].script
            /\ end'[d].hello = end[d].hello
            /\ Hears(d) \/ (end'[d].rx = end[d].rx /\ end'[d].got = end[d].got)
        BY <1>3, <2>4 DEF GoesOn
      <3>2. ASSUME NEW n, NEW t, Sent(frames', end[d], n, t)
            PROVE  Sent(frames', end'[d], n, t)
        BY <3>1, <3>2 DEF Sent, ForIt
      <3>3. CASE end'[d].rx = end[d].rx /\ end'[d].got = end[d].got
        BY <1>1, <1>2, <3>1, <3>2, <3>3
      <3>4. CASE Hears(d)
        <4>1. PICK f \in frames :
                     /\ ForIt(f, end[d]) /\ f.counter = end[d].rx
                     /\ end'[d].rx = end[d].rx + 1
                     /\ end'[d].got = Append(end[d].got, f.text)
                     /\ UNCHANGED frames
          BY <3>4 DEF Hears
        <4>2. /\ end[d].rx \in Nat /\ end[d].got \in Seq(Text) /\ f.text \in Text
              /\ Len(end[d].got) = end[d].rx
          BY <3>1, <1>2, EndKinds, InUseFields DEF TypeOK
        <4>3. /\ Len(end'[d].got) = end'[d].rx
              /\ end'[d].got[end[d].rx + 1] = f.text
              /\ \A i \in 1 .. end[d].rx : end'[d].got[i] = end[d].got[i]
          BY <4>1, <4>2
        <4>4. Sent(frames', end'[d], (end[d].rx + 1) - 1, end'[d].got[end[d].rx + 1])
          <5>1. (end[d].rx + 1) - 1 = end[d].rx
            BY <4>2
          <5>2. Sent(frames', end[d], end[d].rx, f.text)
            BY <4>1 DEF Sent
          <5> QED
            BY <3>2, <4>3, <5>1, <5>2
        <4>5. ASSUME NEW i \in 1 .. end[d].rx
              PROVE  Sent(frames', end'[d], i - 1, end'[d].got[i])
          <5>1. Sent(frames, end[d], i - 1, end[d].got[i])
            BY <1>2, <3>1
          <5>2. Sent(frames', end[d], i - 1, end[d].got[i])
            BY <1>1, <5>1
          <5> QED
            BY <3>2, <4>3, <5>2
        <4>6. \A i \in 1 .. end'[d].rx : i \in 1 .. end[d].rx \/ i = end[d].rx + 1
          BY <4>1, <4>2
        <4> QED
          BY <4>3, <4>4, <4>5, <4>6
      <3> QED
        BY <3>1, <3>3, <3>4
    <2> QED
      BY <2>1, <2>2, <2>3, <2>4, EndChanges
  <1> QED
    BY <1>3 DEF ReceivedIsPrefixOfSent, ForIt

\* No frame a device may still accept is older than its keys.
LEMMA YoungStep ==
  ASSUME TypeOK, TypeOK', KeysAreOwn, OwnHello, DerivesOnce, FramesAreCounted,
         FramesAreYoung, [Next]_vars
  PROVE  FramesAreYoung'
  <1> USE BluetoothAssumption
  <1> DEFINE Young(f, e) ==
               /\ e.phase = "pending" /\ ForIt(f, e)
                     /\ e.age <= ConfirmationTimeout => f.age <= e.age
               /\ e.phase = "active" /\ ForIt(f, e)
                     /\ e.age <= SessionLifetime => f.age <= ConfirmationTimeout + e.age
  <1>0. \A f \in frames, d \in Device : Young(f, end[d])
    BY DEF FramesAreYoung
  <1>a. ASSUME NEW d \in Device
        PROVE  /\ end[d].phase \in {"pending", "active"} => end[d].age \in Nat
               /\ end'[d].phase \in {"pending", "active"} => end'[d].age \in Nat
    <2>1. end[d] \in End /\ end'[d] \in End
      BY DEF TypeOK
    <2>2. ASSUME NEW e \in End, e.phase \in {"pending", "active"} PROVE e.age \in Nat
      <3>1. CASE e.phase = "pending"
        BY <2>2, <3>1, EndKinds DEF Pending
      <3>2. CASE e.phase = "active"
        BY <2>2, <3>2, EndKinds, InUseFields
      <3> QED
        BY <2>2, <3>1, <3>2
    <2> QED
      BY <2>1, <2>2
  <1>b. \A f \in frames : f.age \in Nat
    BY DEF TypeOK, LastUse
  <1>1. ASSUME Tick, NEW f \in frames, NEW g,
               g = [f EXCEPT !.age = OlderBy1(@, LastUse)], NEW d \in Device
        PROVE  Young(g, end'[d])
    <2>1. g.script = f.script /\ g.from = f.from /\ g.age <= f.age + 1 /\ g.age \in Nat
      BY <1>1, <1>b DEF TypeOK, OlderBy1
    <2>2. end'[d] = IF end[d].phase \in {"pending", "active"}
                    THEN [end[d] EXCEPT !.age = OlderBy1(@, Limit(end[d].phase))]
                    ELSE end[d]
      BY <1>1 DEF Tick
    <2>3. ASSUME end[d].phase \in {"pending", "active"}
          PROVE  /\ end'[d].phase = end[d].phase /\ end'[d].script = end[d].script
                 /\ end'[d].hello = end[d].hello
                 /\ end'[d].age = OlderBy1(end[d].age, Limit(end[d].phase))
      <3>1. end[d] \in Pending \/ end[d] \in InUse
        BY <2>3, EndKinds DEF TypeOK
      <3> QED
        BY <2>2, <2>3, <3>1 DEF Pending, InUse
    <2>4. ASSUME end[d].phase \in {"pending", "active"}, ForIt(g, end'[d])
          PROVE  ForIt(f, end[d])
      BY <2>1, <2>3, <2>4 DEF ForIt
    <2>5. ASSUME end[d].phase = "pending", ForIt(g, end'[d]), end'[d].age <= ConfirmationTimeout
          PROVE  g.age <= end'[d].age
      <3>1. end[d].age <= ConfirmationTimeout /\ end'[d].age = end[d].age + 1
        BY <1>a, <2>3, <2>5 DEF OlderBy1, Limit
      <3>2. f.age <= end[d].age
        BY <1>0, <2>4, <2>5, <3>1
      <3> QED
        BY <1>a, <1>b, <2>1, <2>5, <3>1, <3>2
    <2>6. ASSUME end[d].phase = "active", ForIt(g, end'[d]), end'[d].age <= SessionLifetime
          PROVE  g.age <= ConfirmationTimeout + end'[d].age
      <3>1. end[d].age <= SessionLifetime /\ end'[d].age = end[d].age + 1
        BY <1>a, <2>3, <2>6 DEF OlderBy1, Limit
      <3>2. f.age <= ConfirmationTimeout + end[d].age
        BY <1>0, <2>4, <2>6, <3>1
      <3> QED
        BY <1>a, <1>b, <2>1, <2>6, <3>1, <3>2
    <2>7. end'[d].phase \in {"pending", "active"} => end[d].phase = end'[d].phase
      BY <2>2, <2>3
    <2> QED
      BY <2>5, <2>6, <2>7
  <1>2. ASSUME ~Tick, NEW f \in frames, NEW d \in Device PROVE Young(f, end'[d])
    <2>1. CASE UNCHANGED end[d]
      BY <1>0, <2>1
    <2>2. CASE StartsOver(d) \/ Offers(d)
      BY <2>2, Stages
    <2>3. CASE HasKeys(d)
      <3>1. PICK h \in OfNow :
                   /\ end[d].phase = "offered" /\ end'[d].phase = "pending"
                   /\ end'[d].hello = end[d].hello
                   /\ end'[d].script = Transcript(end[d].hello, h)
        BY <2>3 DEF HasKeys
      <3>2. end[d].hello.device = d /\ end[d].hello.role \in {"initiator", "responder"}
        BY <3>1, EndKinds DEF OwnHello, Idle, TypeOK, Hello
      <3>3. /\ <<ReceiverOf(f).device, f.script>> \in derived
            /\ f.script \in Hello \X Hello
        BY DEF FramesAreCounted, TypeOK
      <3>4. ASSUME ForIt(f, end'[d]) PROVE FALSE
        <4>1. f.script = Transcript(end[d].hello, h) /\ f.from = Opposite(end[d].hello.role)
          BY <3>1, <3>4 DEF ForIt
        <4>2. ReceiverOf(f) = end[d].hello /\ end[d].hello \in {f.script[1], f.script[2]}
          BY <3>2, <4>1 DEF ReceiverOf, Transcript, Opposite
        <4>3. <<d, f.script>> \in derived
          BY <3>2, <3>3, <4>2
        <4> QED
          BY <3>1, <3>3, <4>2, <4>3 DEF DerivesOnce
      <3> QED
        BY <3>4
    <2>4. CASE IsConfirmed(d)
      <3>1. /\ end[d].phase = "pending" /\ end[d].age <= ConfirmationTimeout
            /\ end'[d].phase = "active" /\ end'[d].age = 0
            /\ end'[d].hello = end[d].hello /\ end'[d].script = end[d].script
        BY <2>4 DEF IsConfirmed
      <3>2. ASSUME ForIt(f, end'[d]) PROVE f.age <= ConfirmationTimeout + 0
        <4>1. f.age <= end[d].age
          BY <1>0, <3>1, <3>2 DEF ForIt
        <4> QED
          BY <1>a, <1>b, <3>1, <4>1
      <3> QED
        BY <3>1, <3>2
    <2>5. CASE GoesOn(d)
      <3>1. /\ end'[d].phase = end[d].phase /\ end'[d].age = end[d].age
            /\ end'[d].hello = end[d].hello /\ end'[d].script = end[d].script
        BY <1>2, <2>5 DEF GoesOn
      <3> QED
        BY <1>0, <3>1 DEF ForIt
    <2> QED
      BY <2>1, <2>2, <2>3, <2>4, <2>5, EndChanges
  <1>3. ASSUME NEW c \in Device, NEW text \in Text, NEW d \in Device
        PROVE  Young(NewFrame(c, text), end'[d])
    <2>1. NewFrame(c, text).age = 0
      BY DEF NewFrame
    <2> QED
      BY <1>a, <2>1
  <1>4. \A g \in frames', d \in Device : Young(g, end'[d])
    <2> HIDE DEF Young
    <2>1. CASE Tick
      <3>1. frames' = {[f EXCEPT !.age = OlderBy1(@, LastUse)] : f \in frames}
        BY <2>1 DEF Tick
      <3> QED
        BY <1>1, <2>1, <3>1
    <2>2. CASE ~Tick
      BY <1>2, <1>3, <2>2, FramesChange
    <2> QED
      BY <2>1, <2>2
  <1> QED
    BY <1>4 DEF FramesAreYoung, ForIt

-----------------------------------------------------------------------------
(* What holds *)

\* Nothing has been said yet.
LEMMA BluetoothInit == Init => BluetoothInv
  <1> SUFFICES ASSUME Init PROVE BluetoothInv
    OBVIOUS
  <1>1. /\ \A d \in Device : end[d] = Idle /\ end[d].phase = "idle"
        /\ hellos = {} /\ frames = {} /\ derived = {} /\ pairings = 0
    BY DEF Init, Idle
  <1>2. TypeOK
    BY BluetoothAssumption DEF Init, TypeOK, End
  <1> QED
    BY <1>1, <1>2
       DEF BluetoothInv, KeysAreOwn, OwnHello, KeysAreDerived, DerivesOnce,
           FramesAreCounted, NoncesAreFresh, ActiveHasPeer,
           ReceivedIsPrefixOfSent, FramesAreYoung

\* Every step keeps the inductive invariant.
LEMMA BluetoothStep == BluetoothInv /\ [Next]_vars => BluetoothInv'
  <1> SUFFICES ASSUME BluetoothInv, [Next]_vars PROVE BluetoothInv'
    OBVIOUS
  <1> USE DEF BluetoothInv
  <1>1. TypeOK'
    BY BluetoothType
  <1>2. KeysAreOwn' /\ OwnHello' /\ KeysAreDerived' /\ DerivesOnce'
    BY PairingStep
  <1>3. ActiveHasPeer'
    BY PeerStep
  <1>4. FramesAreCounted'
    BY <1>2, CountStep
  <1>5. NoncesAreFresh' /\ ReceivedIsPrefixOfSent'
    BY NonceStep, ReceivedStep
  <1>6. FramesAreYoung'
    BY <1>1, YoungStep
  <1> QED
    BY <1>1, <1>2, <1>3, <1>4, <1>5, <1>6

\* The inductive invariant holds in every reachable state.
THEOREM BluetoothInvariance == Spec => []BluetoothInv
  BY BluetoothInit, BluetoothStep, PTL DEF Spec

\* Pairings, sessions and frames keep their shape (secure_bluetooth.rs:125-131,
\* 214-217, 375-387, 431-444).
THEOREM BluetoothTypeCorrect == Spec => []TypeOK
  BY BluetoothInvariance, PTL DEF BluetoothInv

\* No key ever seals two frames under one counter, through every re-pairing
\* (secure_bluetooth.rs:480-494).
THEOREM NoncesStayFresh == Spec => []NoncesAreFresh
  BY BluetoothInvariance, PTL DEF BluetoothInv

\* What is received is what was sent, in order and without a gap, whatever the
\* radio does (secure_bluetooth.rs:497-547).
THEOREM ReceivedAsSent == Spec => []ReceivedIsPrefixOfSent
  BY BluetoothInvariance, PTL DEF BluetoothInv

\* A confirmed session has another device at its other end
\* (secure_bluetooth.rs:401-427).
THEOREM SessionsHavePeers == Spec => []ActiveHasPeer
  BY BluetoothInvariance, PTL DEF BluetoothInv

\* Nothing is accepted longer after it was sent than the two limits together
\* (secure_bluetooth.rs:405-407, 549-555).
THEOREM StaleFramesAreRefused == Spec => NoStaleFrameIsAccepted
  <1> DEFINE Fresh ==
         \A d \in Device :
            end[d].phase = "active" /\ end'[d].phase = "active"
            /\ end'[d].rx > end[d].rx =>
               \E f \in frames : /\ f.script = end[d].script
                                 /\ f.from = Opposite(end[d].hello.role)
                                 /\ f.counter = end[d].rx
                                 /\ f.age <= LastUse
  <1>1. ASSUME BluetoothInv, [Next]_vars PROVE Fresh
    <2> SUFFICES ASSUME NEW d \in Device, end[d].phase = "active",
                        end'[d].phase = "active", end'[d].rx > end[d].rx
                 PROVE  \E f \in frames : ForIt(f, end[d]) /\ f.counter = end[d].rx
                                          /\ f.age <= LastUse
      BY DEF ForIt
    <2>1. TypeOK /\ KeysAreOwn
      BY <1>1 DEF BluetoothInv
    <2>2. end[d].rx \in Nat /\ end[d].age \in Nat
      BY <2>1, EndKinds, InUseFields, BluetoothAssumption DEF TypeOK
    <2>3. GoesOn(d)
      BY <1>1, <2>1, <2>2, EndChanges, Stages
    <2>4. Hears(d)
      BY <2>2, <2>3 DEF GoesOn
    <2>5. PICK f \in frames : /\ ForIt(f, end[d]) /\ f.counter = end[d].rx
                              /\ end[d].age <= SessionLifetime
      BY <2>4 DEF Hears
    <2>6. f.age <= ConfirmationTimeout + end[d].age
      BY <1>1, <2>5 DEF BluetoothInv, FramesAreYoung
    <2>7. f.age \in Nat
      BY <2>1, BluetoothAssumption DEF TypeOK, LastUse
    <2> QED
      BY <2>2, <2>5, <2>6, <2>7, BluetoothAssumption DEF LastUse
  <1>2. BluetoothInv /\ [Next]_vars => [Fresh]_vars
    BY <1>1
  <1> QED
    BY <1>2, BluetoothInvariance, PTL DEF Spec, NoStaleFrameIsAccepted
=============================================================================
