------------------------ MODULE VaultContents_proofs ------------------------
(***************************************************************************)
(* What looking up, advancing, appending and merging do to an account      *)
(* list, for every list and every id.  The proofs about the GUI controller *)
(* and about syncing rest on these lemmas.                                 *)
(*                                                                         *)
(* Merged folds over the remote list.  Its result is reached by induction  *)
(* on the part of the list already folded, as membership in a set of       *)
(* naturals that holds 0 and is closed under successor.                    *)
(***************************************************************************)
EXTENDS VaultContents, WellFoundedInduction, TLAPS

-----------------------------------------------------------------------------
(* The naturals *)

\* Every non-empty set of naturals has a least one.
LEMMA LeastNumber ==
    ASSUME NEW T, T \subseteq Nat, T # {}
    PROVE  \E m \in T : \A k \in T : m <= k
  <1> DEFINE R == {pair \in Nat \X Nat : pair[1] < pair[2]}
  <1>1. IsWellFoundedOn(R, Nat)
    BY NatLessThanWellFounded DEF OpToRel, IsWellFoundedOn
  <1>2. PICK m \in T : \A k \in T : ~ (<<k, m>> \in R)
    <2> HIDE DEF R
    <2> QED BY <1>1, WFMin, Zenon
  <1>3. \A k \in T : /\ <<k, m>> \in Nat \X Nat
                     /\ <<k, m>>[1] = k /\ <<k, m>>[2] = m
    OBVIOUS
  <1>4. \A k \in T : ~ (k < m)
    BY <1>2, <1>3
  <1>5. QED
    BY <1>4

\* A set that has 0, and n + 1 with every n, has all the naturals.
LEMMA Induction ==
    ASSUME NEW S, 0 \in S, \A n \in Nat : n \in S => n + 1 \in S
    PROVE  Nat \subseteq S
  <1>1. SUFFICES ASSUME Nat \ S # {} PROVE FALSE
    OBVIOUS
  <1>2. PICK m \in Nat \ S : \A k \in Nat \ S : m <= k
    BY <1>1, LeastNumber
  <1>3. m - 1 \in Nat /\ m - 1 \in S
    BY <1>2
  <1>4. QED
    BY <1>2, <1>3

\* A number below the modulus is its own remainder.
LEMMA SmallRemainder ==
    ASSUME NEW a \in Nat, NEW b \in Nat, a < b
    PROVE  a % b = a
  BY SMT

\* A number of a set that none of the others exceeds is its maximum.
LEMMA GreatestIsMax ==
    ASSUME NEW S \in SUBSET Nat, NEW m \in S, \A k \in S : m >= k
    PROVE  Max(S) = m
  <1>1. \A x \in S : (\A k \in S : x >= k) => x = m
    OBVIOUS
  <1>2. QED
    BY <1>1 DEF Max

\* An interval and the one that ends before it.
LEMMA ShorterInterval ==
    ASSUME NEW n \in Nat
    PROVE  /\ (1 .. n + 1) \ {n + 1} = 1 .. n
           /\ 1 .. n + 1 = (1 .. n) \cup {n + 1}
           /\ Max(1 .. n + 1) = n + 1
  <1>1. \A k : k \in 1 .. n + 1 <=> k \in 1 .. n \/ k = n + 1
    OBVIOUS
  <1>2. n + 1 \notin 1 .. n
    OBVIOUS
  <1>3. Max(1 .. n + 1) = n + 1
    BY GreatestIsMax
  <1>4. QED
    BY <1>1, <1>2, <1>3

-----------------------------------------------------------------------------
(* Lookups *)

\* FirstWith is the first position that holds the id, and 0 when none does.
LEMMA FirstWithIsFirst ==
    ASSUME NEW list, list \in Seq(Account), NEW id
    PROVE  /\ id \in Ids(list) =>
                 /\ FirstWith(list, id) \in DOMAIN list
                 /\ list[FirstWith(list, id)].id = id
                 /\ \A k \in DOMAIN list :
                       list[k].id = id => FirstWith(list, id) <= k
           /\ id \notin Ids(list) => FirstWith(list, id) = 0
  <1> DEFINE I == {i \in 1 .. Len(list) : list[i].id = id}
             n == FirstWith(list, id)
  <1>1. n = IF I # {} THEN CHOOSE x \in I : \A y \in I : x =< y ELSE 0
    BY DEF FirstWith, SelectInSeq, Min
  <1>2. DOMAIN list = 1 .. Len(list)
    OBVIOUS
  <1>3. I # {} <=> id \in Ids(list)
    BY <1>2 DEF Ids
  <1>4. ASSUME I # {} PROVE n \in I /\ \A y \in I : n =< y
    <2>1. \E x \in I : \A y \in I : x =< y
      <3> I \subseteq Nat
        OBVIOUS
      <3> HIDE DEF I
      <3> QED BY <1>4, LeastNumber
    <2> HIDE DEF I, n
    <2> QED BY <1>1, <1>4, <2>1
  <1>5. CASE I = {}
    BY <1>1, <1>3, <1>5
  <1>6. CASE I # {}
    <2> HIDE DEF n
    <2>1. n \in DOMAIN list /\ list[n].id = id
      BY <1>2, <1>4, <1>6
    <2>2. \A k \in DOMAIN list : list[k].id = id => n <= k
      BY <1>2, <1>4, <1>6
    <2>3. QED
      BY <2>1, <2>2, <1>6, <1>3 DEF n
  <1>7. QED
    BY <1>5, <1>6

\* A position that holds the id, with no such position before it, is the one
\* FirstWith finds.
LEMMA FirstWithIsUnique ==
    ASSUME NEW list, list \in Seq(Account), NEW id,
           NEW n \in DOMAIN list, list[n].id = id,
           \A k \in DOMAIN list : list[k].id = id => n <= k
    PROVE  FirstWith(list, id) = n
  <1>1. id \in Ids(list)
    BY DEF Ids
  <1>2. QED
    BY <1>1, FirstWithIsFirst

\* A lookup of a known id finds a counter.
LEMMA CounterOfIsCounter ==
    ASSUME NEW list, list \in Seq(Account), NEW id \in Ids(list)
    PROVE  CounterOf(list, id) \in 0 .. MaxCounter
  <1>1. FirstWith(list, id) \in DOMAIN list
    BY FirstWithIsFirst
  <1>2. list[FirstWith(list, id)] \in Account
    BY <1>1
  <1>3. QED
    BY <1>2 DEF CounterOf, Account

\* newer has every account of older, each counter at least as far.
KeepsUp(newer, older) ==
    \A id \in Ids(older) : /\ id \in Ids(newer)
                           /\ CounterOf(newer, id) >= CounterOf(older, id)

\* Keeping up is reflexive ...
LEMMA KeepsUpWithItself ==
    ASSUME NEW list, list \in Seq(Account)
    PROVE  KeepsUp(list, list)
  <1>1. \A id \in Ids(list) : CounterOf(list, id) \in Nat
    BY CounterOfIsCounter, CounterAssumption
  <1>2. QED
    BY <1>1 DEF KeepsUp

\* ... and transitive.
LEMMA KeepsUpComposes ==
    ASSUME NEW a, a \in Seq(Account), NEW b, b \in Seq(Account),
           NEW c, c \in Seq(Account), KeepsUp(a, b), KeepsUp(b, c)
    PROVE  KeepsUp(a, c)
  <1> SUFFICES ASSUME NEW id \in Ids(c)
               PROVE  id \in Ids(a) /\ CounterOf(a, id) >= CounterOf(c, id)
    BY DEF KeepsUp
  <1>1. id \in Ids(b) /\ CounterOf(b, id) >= CounterOf(c, id)
    BY DEF KeepsUp
  <1>2. id \in Ids(a) /\ CounterOf(a, id) >= CounterOf(b, id)
    BY <1>1 DEF KeepsUp
  <1>3. /\ CounterOf(a, id) \in Int
        /\ CounterOf(b, id) \in Int
        /\ CounterOf(c, id) \in Int
    BY <1>1, <1>2, CounterOfIsCounter, CounterAssumption
  <1>4. QED
    BY <1>1, <1>2, <1>3

-----------------------------------------------------------------------------
(* One account more, and one counter further *)

\* An enrolled account hides behind an older one of its id, and takes nothing
\* from the list.
LEMMA AppendKeepsUp ==
    ASSUME NEW list, list \in Seq(Account), NEW account \in Account
    PROVE  LET longer == Append(list, account)
           IN  /\ longer \in Seq(Account)
               /\ Ids(longer) = Ids(list) \cup {account.id}
               /\ \A id \in Ids(list) : CounterOf(longer, id) = CounterOf(list, id)
               /\ account.id \notin Ids(list) =>
                     CounterOf(longer, account.id) = account.counter
  <1> DEFINE longer == Append(list, account)
             last == Len(list) + 1
  <1>1. /\ longer \in Seq(Account)
        /\ DOMAIN list = 1 .. Len(list)
        /\ DOMAIN longer = 1 .. last
        /\ longer[last] = account
        /\ \A k \in 1 .. Len(list) : longer[k] = list[k]
        /\ Len(list) \in Nat
    OBVIOUS
  <1> HIDE DEF longer
  <1>2. Ids(longer) = Ids(list) \cup {account.id}
    BY <1>1 DEF Ids
  <1>3. ASSUME NEW id \in Ids(list)
        PROVE  CounterOf(longer, id) = CounterOf(list, id)
    <2> DEFINE n == FirstWith(list, id)
    <2>1. /\ n \in DOMAIN list /\ list[n].id = id
          /\ \A k \in DOMAIN list : list[k].id = id => n <= k
      BY FirstWithIsFirst
    <2> HIDE DEF n
    <2>2. n \in DOMAIN longer /\ longer[n].id = id
      BY <1>1, <2>1
    <2>3. \A k \in DOMAIN longer : longer[k].id = id => n <= k
      BY <1>1, <2>1
    <2>4. FirstWith(longer, id) = n
      BY <1>1, <2>2, <2>3, FirstWithIsUnique
    <2>5. QED
      BY <1>1, <2>1, <2>4 DEF CounterOf, n
  <1>4. ASSUME account.id \notin Ids(list)
        PROVE  CounterOf(longer, account.id) = account.counter
    <2>1. \A k \in DOMAIN list : list[k].id # account.id
      BY <1>4 DEF Ids
    <2>2. \A k \in DOMAIN longer : longer[k].id = account.id => last <= k
      BY <1>1, <2>1
    <2>3. FirstWith(longer, account.id) = last
      BY <1>1, <2>2, FirstWithIsUnique
    <2>4. QED
      BY <1>1, <2>3 DEF CounterOf
  <1>5. QED
    BY <1>1, <1>2, <1>3, <1>4 DEF longer

\* Writing a new counter into the first account with an id changes that
\* account's counter and no other lookup.
Raised(list, id, counter) == [list EXCEPT ![FirstWith(list, id)].counter = counter]

\* Raising one counter leaves every other lookup as it was.
LEMMA RaisedCounter ==
    ASSUME NEW list, list \in Seq(Account), NEW id \in Ids(list),
           NEW counter \in 0 .. MaxCounter
    PROVE  LET raised == Raised(list, id, counter)
           IN  /\ raised \in Seq(Account)
               /\ Len(raised) = Len(list)
               /\ Ids(raised) = Ids(list)
               /\ CounterOf(raised, id) = counter
               /\ \A j \in Ids(list) \ {id} : CounterOf(raised, j) = CounterOf(list, j)
  <1> DEFINE n == FirstWith(list, id)
             changed == [list[n] EXCEPT !.counter = counter]
             raised == Raised(list, id, counter)
  <1>1. n \in DOMAIN list /\ list[n].id = id
    BY FirstWithIsFirst
  <1> HIDE DEF n
  <1>2. list[n] \in Account
    BY <1>1
  <1>3. changed \in Account /\ changed.id = id /\ changed.counter = counter
    BY <1>1, <1>2 DEF Account
  <1>4. raised = [list EXCEPT ![n] = changed]
    BY DEF Raised, n
  <1> HIDE DEF changed, raised
  <1>5. /\ raised \in Seq(Account)
        /\ Len(raised) = Len(list)
        /\ DOMAIN raised = DOMAIN list
        /\ raised[n] = changed
        /\ \A k \in DOMAIN list \ {n} : raised[k] = list[k]
    BY <1>1, <1>3, <1>4
  <1>6. \A k \in DOMAIN list : raised[k].id = list[k].id
    BY <1>1, <1>3, <1>5
  <1>7. Ids(raised) = Ids(list)
    BY <1>5, <1>6 DEF Ids
  <1>8. ASSUME NEW j \in Ids(list)
        PROVE  FirstWith(raised, j) = FirstWith(list, j)
    <2> DEFINE m == FirstWith(list, j)
    <2>1. /\ m \in DOMAIN list /\ list[m].id = j
          /\ \A k \in DOMAIN list : list[k].id = j => m <= k
      BY FirstWithIsFirst
    <2> HIDE DEF m
    <2>2. /\ m \in DOMAIN raised /\ raised[m].id = j
          /\ \A k \in DOMAIN raised : raised[k].id = j => m <= k
      BY <1>5, <1>6, <2>1
    <2>3. FirstWith(raised, j) = m
      BY <1>5, <2>2, FirstWithIsUnique
    <2>4. QED
      BY <2>3 DEF m
  <1>9. CounterOf(raised, id) = counter
    BY <1>3, <1>5, <1>8 DEF CounterOf, n
  <1>10. ASSUME NEW j \in Ids(list) \ {id}
         PROVE  CounterOf(raised, j) = CounterOf(list, j)
    <2>1. /\ FirstWith(list, j) \in DOMAIN list
          /\ list[FirstWith(list, j)].id = j
      BY FirstWithIsFirst
    <2>2. FirstWith(list, j) # n
      BY <1>1, <2>1
    <2>3. QED
      BY <1>5, <1>8, <2>1, <2>2 DEF CounterOf
  <1>11. QED
    BY <1>5, <1>7, <1>9, <1>10 DEF raised, n

\* "Next code" is such a write, one further and short of the wrap.
LEMMA AdvancedIsRaised ==
    ASSUME NEW list, list \in Seq(Account), NEW id, CanAdvance(list, id)
    PROVE  /\ id \in Ids(list)
           /\ CounterOf(list, id) + 1 \in 0 .. MaxCounter
           /\ CounterOf(list, id) + 1 >= CounterOf(list, id)
           /\ Advanced(list, id) = Raised(list, id, CounterOf(list, id) + 1)
  <1> DEFINE n == FirstWith(list, id)
             c == CounterOf(list, id)
  <1>1. n # 0 /\ list[n].counter < MaxCounter
    BY DEF CanAdvance
  <1>2. id \in Ids(list)
    BY <1>1, FirstWithIsFirst
  <1>3. n \in DOMAIN list
    BY <1>2, FirstWithIsFirst
  <1>4. c \in 0 .. MaxCounter /\ c = list[n].counter
    BY <1>2, CounterOfIsCounter DEF CounterOf
  <1>5. (c + 1) % (MaxCounter + 1) = c + 1 /\ c + 1 \in 0 .. MaxCounter /\ c + 1 >= c
    <2> HIDE DEF c, n
    <2>1. c \in Nat /\ c < MaxCounter
      BY <1>1, <1>4, CounterAssumption
    <2>2. c + 1 \in Nat /\ MaxCounter + 1 \in Nat /\ c + 1 < MaxCounter + 1
      BY <2>1, CounterAssumption
    <2>3. QED
      BY <2>1, <2>2, SmallRemainder, CounterAssumption
  <1>6. Advanced(list, id) = Raised(list, id, c + 1)
    BY <1>3, <1>4, <1>5 DEF Advanced, Raised
  <1>7. QED
    BY <1>2, <1>5, <1>6

\* "Next code" counts one further under its id and touches nothing else.
LEMMA AdvancedCountsOnce ==
    ASSUME NEW list, list \in Seq(Account), NEW id, CanAdvance(list, id)
    PROVE  LET next == Advanced(list, id)
           IN  /\ next \in Seq(Account)
               /\ Len(next) = Len(list)
               /\ id \in Ids(list)
               /\ Ids(next) = Ids(list)
               /\ CounterOf(next, id) = CounterOf(list, id) + 1
               /\ \A j \in Ids(list) \ {id} : CounterOf(next, j) = CounterOf(list, j)
  <1> DEFINE c == CounterOf(list, id)
  <1>1. /\ id \in Ids(list) /\ c + 1 \in 0 .. MaxCounter
        /\ Advanced(list, id) = Raised(list, id, c + 1)
    BY AdvancedIsRaised
  <1> DEFINE next == Advanced(list, id)
  <1>2. /\ next \in Seq(Account)
        /\ Len(next) = Len(list)
        /\ Ids(next) = Ids(list)
        /\ CounterOf(next, id) = c + 1
        /\ \A j \in Ids(list) \ {id} : CounterOf(next, j) = CounterOf(list, j)
    <2> HIDE DEF c
    <2> QED BY <1>1, RaisedCounter
  <1>3. QED
    BY <1>1, <1>2

\* An advance turns no counter back.
LEMMA AdvancedKeepsUp ==
    ASSUME NEW list, list \in Seq(Account), NEW id, CanAdvance(list, id)
    PROVE  KeepsUp(Advanced(list, id), list)
  <1>1. \A j \in Ids(list) : CounterOf(list, j) \in Nat
    BY CounterOfIsCounter, CounterAssumption
  <1>2. \A j \in Ids(list) : CounterOf(Advanced(list, id), j) >= CounterOf(list, j)
    BY <1>1, AdvancedCountsOnce
  <1>3. QED
    BY <1>2, AdvancedCountsOnce DEF KeepsUp

-----------------------------------------------------------------------------
(* Adopting one remote account *)

\* newer is older with counters changed and accounts of new ids after it.
GrowsFrom(newer, older) ==
    /\ Len(older) <= Len(newer)
    /\ \A k \in DOMAIN older : newer[k].id = older[k].id
    /\ \A k \in DOMAIN newer : k > Len(older) =>
          \A j \in DOMAIN newer : j < k => newer[j].id # newer[k].id

\* Growth, too, is reflexive ...
LEMMA GrowsFromItself ==
    ASSUME NEW list, list \in Seq(Account)
    PROVE  GrowsFrom(list, list)
  BY DEF GrowsFrom

\* ... and transitive.
LEMMA GrowsFromComposes ==
    ASSUME NEW a, a \in Seq(Account), NEW b, b \in Seq(Account),
           NEW c, c \in Seq(Account), GrowsFrom(a, b), GrowsFrom(b, c)
    PROVE  GrowsFrom(a, c)
  <1>1. /\ DOMAIN a = 1 .. Len(a) /\ Len(a) \in Nat
        /\ DOMAIN b = 1 .. Len(b) /\ Len(b) \in Nat
        /\ DOMAIN c = 1 .. Len(c) /\ Len(c) \in Nat
    OBVIOUS
  <1>2. Len(c) <= Len(a) /\ \A k \in DOMAIN c : a[k].id = c[k].id
    BY <1>1 DEF GrowsFrom
  <1>3. ASSUME NEW k \in DOMAIN a, k > Len(c), NEW j \in DOMAIN a, j < k
        PROVE  a[j].id # a[k].id
    <2>1. CASE k > Len(b)
      BY <1>3, <2>1 DEF GrowsFrom
    <2>2. CASE k <= Len(b)
      <3>1. k \in DOMAIN b /\ j \in DOMAIN b
        BY <1>1, <1>3, <2>2
      <3>2. b[j].id # b[k].id
        BY <1>3, <3>1 DEF GrowsFrom
      <3>3. QED
        BY <3>1, <3>2 DEF GrowsFrom
    <2>3. QED
      BY <1>1, <2>1, <2>2
  <1>4. QED
    BY <1>2, <1>3 DEF GrowsFrom

\* No id names both a counter and a clock, and a clock's unused counter field
\* is the same wherever it occurs.
Agreeing(accounts) ==
    \A x, y \in accounts : x.id = y.id => /\ x.hotp = y.hotp
                                          /\ x.hotp \/ x.counter = y.counter

\* An account is added at the end or, where its id is there, at most raises
\* the counter of the first account that has it.
LEMMA AdoptedAccount ==
    ASSUME NEW K \in SUBSET Account, NEW list, list \in Seq(K), NEW r \in K
    PROVE  LET next == Adopt(list, r)
           IN  /\ next \in Seq(K)
               /\ Ids(next) = Ids(list) \cup {r.id}
               /\ KeepsUp(next, list)
               /\ GrowsFrom(next, list)
               /\ Agreeing(K) => CounterOf(next, r.id) >= r.counter
  <1> DEFINE n == FirstWith(list, r.id)
             next == Adopt(list, r)
  <1>1. /\ list \in Seq(Account) /\ r \in Account
        /\ DOMAIN list = 1 .. Len(list) /\ Len(list) \in Nat
    OBVIOUS
  <1>2. r.counter \in 0 .. MaxCounter /\ r.counter \in Int
    BY <1>1, CounterAssumption DEF Account
  <1>3. \A id \in Ids(list) : CounterOf(list, id) \in Int
    BY <1>1, CounterOfIsCounter, CounterAssumption
  <1>4. CASE r.id \notin Ids(list)
    <2>1. n = 0
      BY <1>1, <1>4, FirstWithIsFirst
    <2>2. next = Append(list, r)
      BY <2>1 DEF Adopt
    <2>3. /\ next \in Seq(K)
          /\ Len(next) = Len(list) + 1
          /\ DOMAIN next = 1 .. Len(list) + 1
          /\ next[Len(list) + 1] = r
          /\ \A k \in DOMAIN list : next[k] = list[k]
      BY <1>1, <2>2
    <2>4. /\ Ids(next) = Ids(list) \cup {r.id}
          /\ \A id \in Ids(list) : CounterOf(next, id) = CounterOf(list, id)
          /\ CounterOf(next, r.id) = r.counter
      BY <1>1, <1>4, <2>2, AppendKeepsUp
    <2>5. KeepsUp(next, list)
      BY <1>3, <2>4 DEF KeepsUp
    <2>6. \A k \in DOMAIN list : list[k].id # r.id
      BY <1>4 DEF Ids
    <2>7. GrowsFrom(next, list)
      <3> HIDE DEF next
      <3> QED BY <1>1, <2>3, <2>6 DEF GrowsFrom
    <2>8. QED
      BY <1>2, <2>3, <2>4, <2>5, <2>7
  <1>5. CASE r.id \in Ids(list)
    <2>1. n \in DOMAIN list /\ list[n].id = r.id /\ n # 0
      BY <1>1, <1>5, FirstWithIsFirst
    <2>2. list[n] \in K /\ list[n] \in Account /\ CounterOf(list, r.id) = list[n].counter
      BY <1>1, <2>1 DEF CounterOf
    <2>3. CASE list[n].hotp /\ r.hotp /\ r.counter > list[n].counter
      <3>1. next = Raised(list, r.id, r.counter)
        BY <2>1, <2>3 DEF Adopt, Raised
      <3>2. [list[n] EXCEPT !.counter = r.counter] = r
        BY <1>1, <2>1, <2>2, <2>3 DEF Account
      <3>3. next = [list EXCEPT ![n] = r]
        BY <3>1, <3>2 DEF Raised
      <3>4. next \in Seq(K)
        BY <2>1, <3>3
      <3>5. /\ Len(next) = Len(list)
            /\ Ids(next) = Ids(list)
            /\ CounterOf(next, r.id) = r.counter
            /\ \A j \in Ids(list) \ {r.id} : CounterOf(next, j) = CounterOf(list, j)
        BY <1>1, <1>2, <1>5, <3>1, RaisedCounter
      <3>6. \A j \in Ids(list) : CounterOf(next, j) >= CounterOf(list, j)
        BY <1>2, <1>3, <2>2, <2>3, <3>5
      <3>7. \A k \in DOMAIN list : next[k].id = list[k].id
        BY <2>1, <3>3
      <3>8. GrowsFrom(next, list)
        <4> HIDE DEF next
        <4> QED BY <1>1, <3>4, <3>5, <3>7 DEF GrowsFrom
      <3>9. QED
        BY <1>2, <1>5, <3>4, <3>5, <3>6, <3>8 DEF KeepsUp
    <2>4. CASE ~(list[n].hotp /\ r.hotp /\ r.counter > list[n].counter)
      <3>1. next = list
        BY <2>1, <2>4 DEF Adopt
      <3>2. Agreeing(K) => CounterOf(list, r.id) >= r.counter
        <4>1. list[n].counter \in Int
          BY <2>2, CounterAssumption DEF Account
        <4>2. ASSUME Agreeing(K) PROVE list[n].counter >= r.counter
          BY <1>2, <2>1, <2>2, <2>4, <4>1, <4>2 DEF Agreeing
        <4>3. QED
          BY <2>2, <4>2
      <3>3. QED
        BY <1>1, <1>5, <3>1, <3>2, KeepsUpWithItself, GrowsFromItself
    <2>5. QED
      BY <2>3, <2>4
  <1>6. QED
    BY <1>4, <1>5

-----------------------------------------------------------------------------
(* Merging a remote list: the fold, one account at a time *)

\* What the fold makes of a set of positions, from what it makes of smaller ones.
FoldStep(local, remote, g, s) ==
    IF s = {} THEN local ELSE Adopt(g[s \ {Max(s)}], remote[Max(s)])

\* The function g is the fold of the remote list's first n accounts into local.
IsFold(local, remote, n, g) ==
    g = [s \in SUBSET (1 .. n) |-> FoldStep(local, remote, g, s)]

\* A function that satisfies the fold's recursive definition exists.
LEMMA FoldExists ==
    ASSUME NEW local, NEW remote, NEW n \in Nat
    PROVE  \E g : IsFold(local, remote, n, g)
  <1> DEFINE S == {m \in Nat : \E g : IsFold(local, remote, m, g)}
  <1>1. 0 \in S
    <2> DEFINE g == [s \in SUBSET (1 .. 0) |-> local]
    <2>1. 1 .. 0 = {}
      OBVIOUS
    <2>2. \A s \in SUBSET (1 .. 0) : FoldStep(local, remote, g, s) = local
      BY <2>1 DEF FoldStep
    <2>3. IsFold(local, remote, 0, g)
      BY <2>2 DEF IsFold
    <2>4. QED
      BY <2>3
  <1>2. ASSUME NEW m \in Nat, m \in S PROVE m + 1 \in S
    <2>1. PICK g : IsFold(local, remote, m, g)
      BY <1>2
    <2> DEFINE h == [s \in SUBSET (1 .. m + 1) |->
                       IF m + 1 \in s THEN Adopt(g[s \ {m + 1}], remote[m + 1])
                       ELSE g[s]]
    <2>2. \A s \in SUBSET (1 .. m) : /\ s \in SUBSET (1 .. m + 1)
                                     /\ m + 1 \notin s
                                     /\ h[s] = g[s]
                                     /\ g[s] = FoldStep(local, remote, g, s)
      <3>1. \A s \in SUBSET (1 .. m) : s \in SUBSET (1 .. m + 1) /\ m + 1 \notin s
        OBVIOUS
      <3>2. QED
        BY <3>1, <2>1 DEF IsFold
    <2> HIDE DEF h
    <2>3. ASSUME NEW s \in SUBSET (1 .. m + 1)
          PROVE  h[s] = FoldStep(local, remote, h, s)
      <3>1. CASE m + 1 \in s
        <4>1. Max(s) = m + 1
          BY <3>1, GreatestIsMax
        <4>2. s \ {m + 1} \in SUBSET (1 .. m)
          BY ShorterInterval
        <4>3. h[s] = Adopt(g[s \ {m + 1}], remote[m + 1])
          BY <3>1 DEF h
        <4>4. h[s \ {m + 1}] = g[s \ {m + 1}]
          BY <4>2, <2>2
        <4>5. QED
          BY <3>1, <4>1, <4>3, <4>4 DEF FoldStep
      <3>2. CASE m + 1 \notin s
        <4>1. s \in SUBSET (1 .. m) /\ s \ {Max(s)} \in SUBSET (1 .. m)
          BY <3>2, ShorterInterval
        <4>2. h[s] = FoldStep(local, remote, g, s)
          BY <4>1, <2>2
        <4>3. h[s \ {Max(s)}] = g[s \ {Max(s)}]
          BY <4>1, <2>2
        <4>4. QED
          BY <4>2, <4>3 DEF FoldStep
      <3>3. QED
        BY <3>1, <3>2
    <2>4. h = [s \in SUBSET (1 .. m + 1) |-> h[s]]
      BY DEF h
    <2>5. IsFold(local, remote, m + 1, h)
      BY <2>3, <2>4 DEF IsFold
    <2>6. QED
      BY <2>5
  <1>3. Nat \subseteq S
    <2> HIDE DEF S
    <2> QED BY <1>1, <1>2, Induction
  <1>4. QED
    BY <1>3

\* The merge as a chain of lists: it starts with the local one, each next link
\* adopts one remote account, and the last is the merged list.
LEMMA MergedIsAChain ==
    ASSUME NEW local, NEW remote, remote \in Seq(Account)
    PROVE  \E link : /\ link[0] = local
                     /\ \A n \in 0 .. Len(remote) - 1 :
                           link[n + 1] = Adopt(link[n], remote[n + 1])
                     /\ link[Len(remote)] = Merged(local, remote)
  <1> DEFINE N == Len(remote)
             fold == CHOOSE g : IsFold(local, remote, N, g)
  <1>1. N \in Nat /\ DOMAIN remote = 1 .. N
    OBVIOUS
  <1>2. Merged(local, remote) = fold[1 .. N]
    BY <1>1 DEF Merged, FoldLeft, MapThenFoldSet, IsFold, FoldStep
  <1>3. IsFold(local, remote, N, fold)
    <2>1. \E g : IsFold(local, remote, N, g)
      BY <1>1, FoldExists
    <2>2. QED
      BY <2>1
  <1> HIDE DEF fold, N
  <1> DEFINE link == [n \in 0 .. N |-> fold[1 .. n]]
  <1>4. \A n \in 0 .. N : fold[1 .. n] = FoldStep(local, remote, fold, 1 .. n)
    <2>1. \A n \in 0 .. N : 1 .. n \in SUBSET (1 .. N)
      BY <1>1
    <2>2. QED
      BY <2>1, <1>3 DEF IsFold
  <1>5. link[0] = local
    <2>1. 1 .. 0 = {} /\ 0 \in 0 .. N
      BY <1>1
    <2>2. QED
      BY <2>1, <1>4 DEF FoldStep
  <1>6. ASSUME NEW n \in 0 .. N - 1
        PROVE  link[n + 1] = Adopt(link[n], remote[n + 1])
    <2>1. n \in Nat /\ n \in 0 .. N /\ n + 1 \in 0 .. N
      BY <1>1
    <2>2. Max(1 .. n + 1) = n + 1 /\ (1 .. n + 1) \ {n + 1} = 1 .. n
      BY <2>1, ShorterInterval
    <2>3. n + 1 \in 1 .. n + 1
      BY <2>1
    <2>4. fold[1 .. n + 1] = Adopt(fold[1 .. n], remote[n + 1])
      BY <2>1, <2>2, <2>3, <1>4 DEF FoldStep
    <2>5. QED
      BY <2>1, <2>4
  <1>7. link[N] = Merged(local, remote)
    BY <1>1, <1>2
  <1>8. QED
    BY <1>5, <1>6, <1>7 DEF N

\* Merging costs neither side anything: the result has every account of both,
\* the local ones in their places, no counter behind either list, and no new
\* id twice.  For the remote counters it needs ids that name one kind of
\* account: a clock-based account met under a counter-based one's id is kept
\* as it is.
LEMMA MergedKeepsBoth ==
    ASSUME NEW K \in SUBSET Account,
           NEW local, local \in Seq(K), NEW remote, remote \in Seq(K)
    PROVE  LET merged == Merged(local, remote)
           IN  /\ merged \in Seq(K)
               /\ Ids(merged) = Ids(local) \cup Ids(remote)
               /\ KeepsUp(merged, local)
               /\ GrowsFrom(merged, local)
               /\ Agreeing(K) => KeepsUp(merged, remote)
  <1>1. /\ local \in Seq(Account) /\ remote \in Seq(Account)
        /\ Len(remote) \in Nat /\ DOMAIN remote = 1 .. Len(remote)
        /\ \A n \in DOMAIN remote : remote[n] \in K
    OBVIOUS
  <1>2. PICK link : /\ link[0] = local
                    /\ \A n \in 0 .. Len(remote) - 1 :
                          link[n + 1] = Adopt(link[n], remote[n + 1])
                    /\ link[Len(remote)] = Merged(local, remote)
    BY <1>1, MergedIsAChain
  <1> DEFINE Good(n) ==
               /\ link[n] \in Seq(K)
               /\ Ids(link[n]) = Ids(local) \cup {remote[k].id : k \in 1 .. n}
               /\ KeepsUp(link[n], local)
               /\ GrowsFrom(link[n], local)
               /\ Agreeing(K) => \A k \in 1 .. n :
                     CounterOf(link[n], remote[k].id) >= remote[k].counter
             S == {n \in Nat : n <= Len(remote) => Good(n)}
  <1>3. 0 \in S
    <2>1. 1 .. 0 = {}
      OBVIOUS
    <2>2. QED
      BY <1>1, <1>2, <2>1, KeepsUpWithItself, GrowsFromItself
  <1>4. ASSUME NEW n \in Nat, n \in S PROVE n + 1 \in S
    <2> SUFFICES ASSUME n + 1 <= Len(remote) PROVE Good(n + 1)
      OBVIOUS
    <2> DEFINE r == remote[n + 1]
    <2>1. n \in 0 .. Len(remote) - 1 /\ n + 1 \in DOMAIN remote /\ Good(n)
      BY <1>1, <1>4
    <2>2. r \in K /\ link[n + 1] = Adopt(link[n], r)
      BY <1>1, <1>2, <2>1
    <2> DEFINE old == link[n]
               new == link[n + 1]
    <2>3. /\ old \in Seq(K)
          /\ Ids(old) = Ids(local) \cup {remote[k].id : k \in 1 .. n}
          /\ KeepsUp(old, local)
          /\ GrowsFrom(old, local)
          /\ Agreeing(K) => \A k \in 1 .. n :
                CounterOf(old, remote[k].id) >= remote[k].counter
      BY <2>1
    <2> HIDE DEF Good, S
    <2>4. new = Adopt(old, r)
      BY <2>2
    <2> HIDE DEF old, new, r
    <2>5. /\ new \in Seq(K)
          /\ Ids(new) = Ids(old) \cup {r.id}
          /\ KeepsUp(new, old)
          /\ GrowsFrom(new, old)
          /\ Agreeing(K) => CounterOf(new, r.id) >= r.counter
      BY <2>2, <2>3, <2>4, AdoptedAccount
    <2>6. 1 .. n + 1 = (1 .. n) \cup {n + 1}
      BY ShorterInterval
    <2>7. Ids(new) = Ids(local) \cup {remote[k].id : k \in 1 .. n + 1}
      BY <2>3, <2>5, <2>6 DEF r
    <2>8. old \in Seq(Account) /\ new \in Seq(Account)
      BY <2>3, <2>5
    <2>9. KeepsUp(new, local) /\ GrowsFrom(new, local)
      BY <1>1, <2>3, <2>5, <2>8, KeepsUpComposes, GrowsFromComposes
    <2>10. ASSUME Agreeing(K), NEW k \in 1 .. n + 1
          PROVE  CounterOf(new, remote[k].id) >= remote[k].counter
      <3>1. CASE k = n + 1
        BY <2>5, <2>10, <3>1 DEF r
      <3>2. CASE k \in 1 .. n
        <4>1. remote[k].id \in Ids(old) /\ remote[k].id \in Ids(new)
          BY <2>3, <2>7, <3>2
        <4>2. /\ CounterOf(old, remote[k].id) \in Int
              /\ CounterOf(new, remote[k].id) \in Int
          BY <2>8, <4>1, CounterOfIsCounter, CounterAssumption
        <4>3. remote[k] \in Account
          BY <1>1, <2>1, <3>2
        <4>4. remote[k].counter \in Int
          BY <4>3, CounterAssumption DEF Account
        <4>5. CounterOf(new, remote[k].id) >= CounterOf(old, remote[k].id)
          BY <2>5, <4>1 DEF KeepsUp
        <4>6. CounterOf(old, remote[k].id) >= remote[k].counter
          BY <2>3, <2>10, <3>2
        <4>7. QED
          BY <4>2, <4>4, <4>5, <4>6
      <3>3. QED
        BY <2>6, <3>1, <3>2
    <2>11. QED
      BY <2>5, <2>7, <2>9, <2>10 DEF Good, new
  <1>5. Good(Len(remote))
    <2>1. Nat \subseteq S
      <3> HIDE DEF S
      <3> QED BY <1>3, <1>4, Induction
    <2>2. Len(remote) \in S
      BY <1>1, <2>1
    <2> HIDE DEF Good
    <2>3. QED
      BY <2>2
  <1> DEFINE merged == Merged(local, remote)
  <1>6. /\ merged \in Seq(K)
        /\ Ids(merged) = Ids(local) \cup {remote[k].id : k \in 1 .. Len(remote)}
        /\ KeepsUp(merged, local)
        /\ GrowsFrom(merged, local)
        /\ Agreeing(K) => \A k \in 1 .. Len(remote) :
              CounterOf(merged, remote[k].id) >= remote[k].counter
    BY <1>2, <1>5
  <1> HIDE DEF merged, Good, S
  <1>7. Ids(merged) = Ids(local) \cup Ids(remote)
    BY <1>1, <1>6 DEF Ids
  <1>8. ASSUME Agreeing(K) PROVE KeepsUp(merged, remote)
    <2> SUFFICES ASSUME NEW id \in Ids(remote)
                 PROVE  CounterOf(merged, id) >= CounterOf(remote, id)
      BY <1>7 DEF KeepsUp
    <2>1. /\ FirstWith(remote, id) \in 1 .. Len(remote)
          /\ remote[FirstWith(remote, id)].id = id
      BY <1>1, FirstWithIsFirst
    <2>2. QED
      BY <1>6, <1>8, <2>1 DEF CounterOf
  <1>9. QED
    BY <1>6, <1>7, <1>8 DEF merged

-----------------------------------------------------------------------------
(* Every copy of an account counts: the merge loses none and invents none *)

\* list has an account under x's id that is at least as far on as x.
Offers(list, x) == \E k \in DOMAIN list : /\ list[k].id = x.id
                                          /\ list[k].counter >= x.counter

\* newer has a copy as far on as each copy in older.
Holds(newer, older) == \A n \in DOMAIN older : Offers(newer, older[n])

\* A lookup in newer finds an account as far on as any copy in older.
TakesIn(newer, older) ==
    \A n \in DOMAIN older : /\ older[n].id \in Ids(newer)
                            /\ CounterOf(newer, older[n].id) >= older[n].counter

\* Counters can be compared.
LEMMA CounterIsInt ==
    ASSUME NEW list, list \in Seq(Account)
    PROVE  /\ \A n \in DOMAIN list : list[n].counter \in Int
           /\ \A id \in Ids(list) : CounterOf(list, id) \in Int
  <1>1. \A n \in DOMAIN list : list[n] \in Account
    OBVIOUS
  <1>2. \A x \in Account : x.counter \in Int
    BY CounterAssumption DEF Account
  <1>3. \A id \in Ids(list) : FirstWith(list, id) \in DOMAIN list
    BY FirstWithIsFirst
  <1>4. QED
    BY <1>1, <1>2, <1>3 DEF CounterOf

\* What is offered is offered at every lower counter.
LEMMA OffersLess ==
    ASSUME NEW list, list \in Seq(Account), NEW y, y.counter \in Int,
           NEW x, x.counter \in Int, x.id = y.id, y.counter >= x.counter,
           Offers(list, y)
    PROVE  Offers(list, x)
  <1>1. PICK k \in DOMAIN list : list[k].id = y.id /\ list[k].counter >= y.counter
    BY DEF Offers
  <1>2. list[k].counter \in Int
    BY CounterIsInt
  <1>3. QED
    BY <1>1, <1>2 DEF Offers

\* A list that holds another offers what the other offers.
LEMMA OfferedOn ==
    ASSUME NEW a, a \in Seq(Account), NEW b, b \in Seq(Account), Holds(a, b),
           NEW x, x.counter \in Int, Offers(b, x)
    PROVE  Offers(a, x)
  <1>1. PICK k \in DOMAIN b : b[k].id = x.id /\ b[k].counter >= x.counter
    BY DEF Offers
  <1>2. PICK j \in DOMAIN a : a[j].id = b[k].id /\ a[j].counter >= b[k].counter
    BY <1>1 DEF Holds, Offers
  <1>3. a[j].counter \in Int /\ b[k].counter \in Int
    BY CounterIsInt
  <1>4. a[j].counter >= x.counter
    BY <1>1, <1>2, <1>3
  <1>5. QED
    BY <1>1, <1>2, <1>4 DEF Offers

\* Holding is reflexive ...
LEMMA HoldsItself ==
    ASSUME NEW list, list \in Seq(Account)
    PROVE  Holds(list, list)
  BY CounterIsInt DEF Holds, Offers

\* ... and transitive.
LEMMA HoldsComposes ==
    ASSUME NEW a, a \in Seq(Account), NEW b, b \in Seq(Account),
           NEW c, c \in Seq(Account), Holds(a, b), Holds(b, c)
    PROVE  Holds(a, c)
  <1> SUFFICES ASSUME NEW n \in DOMAIN c PROVE Offers(a, c[n])
    BY DEF Holds
  <1>1. c[n].counter \in Int /\ Offers(b, c[n])
    BY CounterIsInt DEF Holds
  <1>2. QED
    BY <1>1, OfferedOn

\* Taking in a list takes in what that list holds.
LEMMA TakesInComposes ==
    ASSUME NEW a, a \in Seq(Account), NEW b, b \in Seq(Account),
           NEW c, c \in Seq(Account), TakesIn(a, b), Holds(b, c)
    PROVE  TakesIn(a, c)
  <1> SUFFICES ASSUME NEW n \in DOMAIN c
               PROVE  /\ c[n].id \in Ids(a)
                      /\ CounterOf(a, c[n].id) >= c[n].counter
    BY DEF TakesIn
  <1>1. PICK k \in DOMAIN b : b[k].id = c[n].id /\ b[k].counter >= c[n].counter
    BY DEF Holds, Offers
  <1>2. c[n].id \in Ids(a) /\ CounterOf(a, c[n].id) >= b[k].counter
    BY <1>1 DEF TakesIn
  <1>3. /\ CounterOf(a, c[n].id) \in Int /\ b[k].counter \in Int
        /\ c[n].counter \in Int
    BY <1>2, CounterIsInt
  <1>4. QED
    BY <1>1, <1>2, <1>3

\* Taking in is holding, by the copy a lookup finds ...
LEMMA TakesInHolds ==
    ASSUME NEW a, a \in Seq(Account), NEW b, b \in Seq(Account), TakesIn(a, b)
    PROVE  Holds(a, b)
  <1> SUFFICES ASSUME NEW n \in DOMAIN b PROVE Offers(a, b[n])
    BY DEF Holds
  <1>1. b[n].id \in Ids(a) /\ CounterOf(a, b[n].id) >= b[n].counter
    BY DEF TakesIn
  <1>2. /\ FirstWith(a, b[n].id) \in DOMAIN a
        /\ a[FirstWith(a, b[n].id)].id = b[n].id
    BY <1>1, FirstWithIsFirst
  <1>3. QED
    BY <1>1, <1>2 DEF Offers, CounterOf

\* ... and keeping up.
LEMMA TakesInKeepsUp ==
    ASSUME NEW a, a \in Seq(Account), NEW b, b \in Seq(Account), TakesIn(a, b)
    PROVE  KeepsUp(a, b)
  <1> SUFFICES ASSUME NEW id \in Ids(b)
               PROVE  id \in Ids(a) /\ CounterOf(a, id) >= CounterOf(b, id)
    BY DEF KeepsUp
  <1>1. FirstWith(b, id) \in DOMAIN b /\ b[FirstWith(b, id)].id = id
    BY FirstWithIsFirst
  <1>2. QED
    BY <1>1 DEF TakesIn, CounterOf

\* Raising the first account under an id keeps every copy of it.
LEMMA RaisedHolds ==
    ASSUME NEW list, list \in Seq(Account), NEW id \in Ids(list),
           NEW counter \in 0 .. MaxCounter, counter >= CounterOf(list, id)
    PROVE  /\ Raised(list, id, counter) \in Seq(Account)
           /\ Holds(Raised(list, id, counter), list)
           /\ \A k \in DOMAIN Raised(list, id, counter) :
                 \/ k \in DOMAIN list /\ Raised(list, id, counter)[k] = list[k]
                 \/ /\ Raised(list, id, counter)[k].id = id
                    /\ Raised(list, id, counter)[k].counter = counter
  <1> DEFINE n == FirstWith(list, id)
             changed == [list[n] EXCEPT !.counter = counter]
             raised == Raised(list, id, counter)
  <1>1. n \in DOMAIN list /\ list[n].id = id
    BY FirstWithIsFirst
  <1>2. list[n].counter = CounterOf(list, id)
    BY DEF CounterOf
  <1> HIDE DEF n
  <1>3. list[n] \in Account
    BY <1>1
  <1>4. changed \in Account /\ changed.id = id /\ changed.counter = counter
    BY <1>1, <1>3 DEF Account
  <1>5. raised = [list EXCEPT ![n] = changed]
    BY DEF Raised, n
  <1> HIDE DEF changed, raised
  <1>6. /\ raised \in Seq(Account)
        /\ DOMAIN raised = DOMAIN list
        /\ raised[n] = changed
        /\ \A k \in DOMAIN list \ {n} : raised[k] = list[k]
    BY <1>1, <1>4, <1>5
  <1>7. \A k \in DOMAIN list : list[k].counter \in Int
    BY CounterIsInt
  <1>8. \A k \in DOMAIN list : /\ raised[k].id = list[k].id
                               /\ raised[k].counter >= list[k].counter
    BY <1>1, <1>2, <1>4, <1>6, <1>7
  <1>9. Holds(raised, list)
    BY <1>6, <1>8 DEF Holds, Offers
  <1>10. QED
    BY <1>4, <1>6, <1>9 DEF raised

\* Enrolling keeps every copy.
LEMMA AppendHolds ==
    ASSUME NEW list, list \in Seq(Account), NEW account \in Account
    PROVE  LET longer == Append(list, account)
           IN  /\ longer \in Seq(Account)
               /\ Holds(longer, list)
               /\ \A k \in DOMAIN longer :
                     (k \in DOMAIN list /\ longer[k] = list[k]) \/ longer[k] = account
  <1> DEFINE longer == Append(list, account)
  <1>1. /\ longer \in Seq(Account)
        /\ Len(list) \in Nat /\ DOMAIN list = 1 .. Len(list)
        /\ DOMAIN longer = 1 .. Len(list) + 1
        /\ longer[Len(list) + 1] = account
        /\ \A k \in DOMAIN list : longer[k] = list[k]
    OBVIOUS
  <1> HIDE DEF longer
  <1>2. \A k \in DOMAIN longer : k \in DOMAIN list \/ k = Len(list) + 1
    BY <1>1
  <1>3. \A k \in DOMAIN list : k \in DOMAIN longer /\ list[k].counter \in Int
    BY <1>1, CounterIsInt
  <1>4. Holds(longer, list)
    BY <1>1, <1>3 DEF Holds, Offers
  <1>5. QED
    BY <1>1, <1>2, <1>4 DEF longer

\* An advance keeps every copy at least as far on.
LEMMA AdvancedHolds ==
    ASSUME NEW list, list \in Seq(Account), NEW id, CanAdvance(list, id)
    PROVE  Holds(Advanced(list, id), list)
  <1> DEFINE c == CounterOf(list, id) + 1
  <1>1. /\ id \in Ids(list) /\ c \in 0 .. MaxCounter /\ c >= CounterOf(list, id)
        /\ Advanced(list, id) = Raised(list, id, c)
    BY AdvancedIsRaised
  <1> HIDE DEF c
  <1>2. QED
    BY <1>1, RaisedHolds

\* Adopting one account keeps every copy and takes in that account.
LEMMA AdoptedCopies ==
    ASSUME NEW K \in SUBSET Account, NEW list, list \in Seq(K), NEW r \in K
    PROVE  LET next == Adopt(list, r)
           IN  /\ Holds(next, list)
               /\ \A k \in DOMAIN next :
                     Offers(list, next[k]) \/ (next[k].id = r.id /\ r.counter >= next[k].counter)
  <1> DEFINE n == FirstWith(list, r.id)
             next == Adopt(list, r)
  <1>1. list \in Seq(Account) /\ r \in Account
    OBVIOUS
  <1>2. r.counter \in 0 .. MaxCounter /\ r.counter \in Int
    BY <1>1, CounterAssumption DEF Account
  <1>3. \A k \in DOMAIN list : list[k].counter \in Int /\ Offers(list, list[k])
    BY <1>1, CounterIsInt DEF Offers
  <1>4. CASE n = 0
    <2>1. next = Append(list, r)
      BY <1>4 DEF Adopt
    <2> HIDE DEF next
    <2>2. /\ Holds(next, list)
          /\ \A k \in DOMAIN next : (k \in DOMAIN list /\ next[k] = list[k]) \/ next[k] = r
      BY <1>1, <2>1, AppendHolds
    <2>3. ASSUME NEW k \in DOMAIN next
          PROVE  \/ Offers(list, next[k])
                 \/ next[k].id = r.id /\ r.counter >= next[k].counter
      BY <1>2, <1>3, <2>2
    <2>4. QED
      BY <2>2, <2>3 DEF next
  <1>5. CASE n # 0
    <2>1. r.id \in Ids(list) /\ n \in DOMAIN list
      BY <1>1, <1>5, FirstWithIsFirst
    <2>2. CASE list[n].hotp /\ r.hotp /\ r.counter > list[n].counter
      <3>1. next = Raised(list, r.id, r.counter)
        BY <1>5, <2>2 DEF Adopt, Raised
      <3>2. r.counter >= CounterOf(list, r.id)
        BY <1>2, <1>3, <2>1, <2>2 DEF CounterOf
      <3> HIDE DEF next, n
      <3>3. /\ Holds(next, list)
            /\ \A k \in DOMAIN next :
                  \/ k \in DOMAIN list /\ next[k] = list[k]
                  \/ next[k].id = r.id /\ next[k].counter = r.counter
        BY <1>1, <1>2, <2>1, <3>1, <3>2, RaisedHolds
      <3>4. ASSUME NEW k \in DOMAIN next
            PROVE  \/ Offers(list, next[k])
                   \/ next[k].id = r.id /\ r.counter >= next[k].counter
        BY <1>2, <1>3, <3>3
      <3>5. QED
        BY <3>3, <3>4 DEF next
    <2>3. CASE ~(list[n].hotp /\ r.hotp /\ r.counter > list[n].counter)
      <3>1. next = list
        BY <1>5, <2>3 DEF Adopt
      <3>2. QED
        BY <1>1, <1>3, <3>1, HoldsItself
    <2>4. QED
      BY <2>2, <2>3
  <1>6. QED
    BY <1>4, <1>5

\* The merge has every copy either side had, looks up what is as far on as any
\* remote copy, and has nothing further on than both sides.
LEMMA MergedCopies ==
    ASSUME NEW K \in SUBSET Account, Agreeing(K),
           NEW local, local \in Seq(K), NEW remote, remote \in Seq(K)
    PROVE  LET merged == Merged(local, remote)
           IN  /\ Holds(merged, local)
               /\ TakesIn(merged, remote)
               /\ \A k \in DOMAIN merged :
                     Offers(local, merged[k]) \/ Offers(remote, merged[k])
  <1>1. /\ local \in Seq(Account) /\ remote \in Seq(Account)
        /\ Len(remote) \in Nat /\ DOMAIN remote = 1 .. Len(remote)
        /\ \A n \in DOMAIN remote : remote[n] \in K /\ remote[n].counter \in Int
    BY CounterIsInt
  <1>2. PICK link : /\ link[0] = local
                    /\ \A n \in 0 .. Len(remote) - 1 :
                          link[n + 1] = Adopt(link[n], remote[n + 1])
                    /\ link[Len(remote)] = Merged(local, remote)
    BY <1>1, MergedIsAChain
  <1> DEFINE From(x) == Offers(local, x) \/ Offers(remote, x)
             Good(n) ==
               /\ link[n] \in Seq(K)
               /\ Holds(link[n], local)
               /\ \A k \in 1 .. n :
                     /\ remote[k].id \in Ids(link[n])
                     /\ CounterOf(link[n], remote[k].id) >= remote[k].counter
               /\ \A k \in DOMAIN link[n] : From(link[n][k])
             S == {n \in Nat : n <= Len(remote) => Good(n)}
  <1>3. 0 \in S
    <2>1. 1 .. 0 = {}
      OBVIOUS
    <2>2. Holds(local, local)
      BY <1>1, HoldsItself
    <2>3. QED
      BY <1>1, <1>2, <2>1, <2>2 DEF Holds
  <1>4. ASSUME NEW n \in Nat, n \in S PROVE n + 1 \in S
    <2> SUFFICES ASSUME n + 1 <= Len(remote) PROVE Good(n + 1)
      OBVIOUS
    <2> DEFINE r == remote[n + 1]
               old == link[n]
               new == link[n + 1]
    <2>1. n \in 0 .. Len(remote) - 1 /\ n + 1 \in DOMAIN remote /\ Good(n)
      BY <1>1, <1>4
    <2>2. r \in K /\ new = Adopt(old, r)
      BY <1>1, <1>2, <2>1
    <2> HIDE DEF From
    <2>3. /\ old \in Seq(K)
          /\ Holds(old, local)
          /\ \A k \in 1 .. n :
                /\ remote[k].id \in Ids(old)
                /\ CounterOf(old, remote[k].id) >= remote[k].counter
          /\ \A k \in DOMAIN old : From(old[k])
      BY <2>1
    <2> HIDE DEF Good, S
    <2> HIDE DEF old, new, r
    <2>5. /\ new \in Seq(K)
          /\ Ids(new) = Ids(old) \cup {r.id}
          /\ KeepsUp(new, old)
          /\ CounterOf(new, r.id) >= r.counter
      BY <2>2, <2>3, AdoptedAccount
    <2>6. /\ Holds(new, old)
          /\ \A k \in DOMAIN new :
                Offers(old, new[k]) \/ (new[k].id = r.id /\ r.counter >= new[k].counter)
      BY <2>2, <2>3, AdoptedCopies
    <2>7. 1 .. n + 1 = (1 .. n) \cup {n + 1}
      BY ShorterInterval
    <2>8. old \in Seq(Account) /\ new \in Seq(Account)
      BY <2>3, <2>5
    <2>9. Holds(new, local)
      BY <1>1, <2>3, <2>6, <2>8, HoldsComposes
    <2>10. ASSUME NEW k \in 1 .. n + 1
          PROVE  /\ remote[k].id \in Ids(new)
                 /\ CounterOf(new, remote[k].id) >= remote[k].counter
      <3>1. CASE k = n + 1
        BY <2>5, <3>1 DEF r
      <3>2. CASE k \in 1 .. n
        <4>1. remote[k].id \in Ids(old) /\ remote[k].id \in Ids(new)
          BY <2>3, <2>5, <3>2
        <4>2. /\ CounterOf(old, remote[k].id) \in Int
              /\ CounterOf(new, remote[k].id) \in Int
          BY <2>8, <4>1, CounterIsInt
        <4>3. remote[k].counter \in Int
          BY <1>1, <2>1, <3>2
        <4>4. CounterOf(new, remote[k].id) >= CounterOf(old, remote[k].id)
          BY <2>5, <4>1 DEF KeepsUp
        <4>5. CounterOf(old, remote[k].id) >= remote[k].counter
          BY <2>3, <3>2
        <4>6. QED
          BY <4>1, <4>2, <4>3, <4>4, <4>5
      <3>3. QED
        BY <2>7, <3>1, <3>2
    <2>11. ASSUME NEW k \in DOMAIN new PROVE From(new[k])
      <3>1. new[k].counter \in Int
        BY <2>8, CounterIsInt
      <3>2. CASE Offers(old, new[k])
        <4>1. PICK j \in DOMAIN old : old[j].id = new[k].id /\ old[j].counter >= new[k].counter
          BY <3>2 DEF Offers
        <4>2. old[j].counter \in Int /\ From(old[j])
          BY <2>3, <2>8, CounterIsInt
        <4>3. /\ Offers(local, old[j]) => Offers(local, new[k])
              /\ Offers(remote, old[j]) => Offers(remote, new[k])
          BY <1>1, <3>1, <4>1, <4>2, OffersLess
        <4>4. QED
          BY <4>2, <4>3 DEF From
      <3>3. CASE new[k].id = r.id /\ r.counter >= new[k].counter
        BY <2>1, <3>3 DEF From, Offers, r
      <3>4. QED
        BY <2>6, <3>2, <3>3
    <2>12. QED
      BY <2>5, <2>9, <2>10, <2>11 DEF Good, new
  <1>5. Good(Len(remote))
    <2>1. Nat \subseteq S
      <3> HIDE DEF S
      <3> QED BY <1>3, <1>4, Induction
    <2>2. Len(remote) \in S
      BY <1>1, <2>1
    <2> HIDE DEF Good
    <2>3. QED
      BY <2>2
  <1> HIDE DEF From
  <1>6. QED
    BY <1>1, <1>2, <1>5 DEF From, TakesIn
=============================================================================
