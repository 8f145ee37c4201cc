---------------------------- MODULE Codes_proofs ----------------------------
(***************************************************************************)
(* For every URI, account a sync brings and schedule of timers:            *)
(* what is enrolled is what the URI says, the countdown is honest, what is *)
(* copied is current and what was copied has a timer.                      *)
(*                                                                         *)
(* Parsing folds over the parameters of a URI.  Its result is reached by   *)
(* induction on the part already read, as membership in a set of naturals  *)
(* that holds 0 and is closed under successor.                             *)
(***************************************************************************)
EXTENDS Codes, WellFoundedInduction, TLAPS

-----------------------------------------------------------------------------
(* Numbers *)

\* Every non-empty set of naturals has a least one.
LEMMA LeastNumber ==
    ASSUME NEW T, T \subseteq Nat, T # {}
    PROVE  \E m \in T : \A k \in T : m <= k
  <1> DEFINE R == {pair \in Nat \X Nat : pair[1] < pair[2]}
  <1>1. IsWellFoundedOn(R, Nat)
    BY NatLessThanWellFounded DEF OpToRel, IsWellFoundedOn
  <1>2. PICK m \in T : \A k \in T : ~ (<<k, m>> \in R)
    <2> HIDE DEF R
    <2> QED BY <1>1, WFMin, Zenon
  <1>3. \A k \in T : /\ <<k, m>> \in Nat \X Nat
                     /\ <<k, m>>[1] = k /\ <<k, m>>[2] = m
    OBVIOUS
  <1>4. \A k \in T : ~ (k < m)
    BY <1>2, <1>3
  <1>5. QED
    BY <1>4

\* A set that has 0, and n + 1 with every n, has all the naturals.
LEMMA Induction ==
    ASSUME NEW S, 0 \in S, \A n \in Nat : n \in S => n + 1 \in S
    PROVE  Nat \subseteq S
  <1>1. SUFFICES ASSUME Nat \ S # {} PROVE FALSE
    OBVIOUS
  <1>2. PICK m \in Nat \ S : \A k \in Nat \ S : m <= k
    BY <1>1, LeastNumber
  <1>3. m - 1 \in Nat /\ m - 1 \in S
    BY <1>2
  <1>4. QED
    BY <1>2, <1>3

\* A number of a set that none of the others exceeds is its maximum.
LEMMA GreatestIsMax ==
    ASSUME NEW S \in SUBSET Nat, NEW m \in S, \A k \in S : m >= k
    PROVE  Max(S) = m
  <1>1. \A x \in S : (\A k \in S : x >= k) => x = m
    OBVIOUS
  <1>2. QED
    BY <1>1 DEF Max

\* An interval and the one that ends before it.
LEMMA ShorterInterval ==
    ASSUME NEW n \in Nat
    PROVE  /\ (1 .. n + 1) \ {n + 1} = 1 .. n
           /\ 1 .. n + 1 = (1 .. n) \cup {n + 1}
           /\ Max(1 .. n + 1) = n + 1
  <1>1. \A k : k \in 1 .. n + 1 <=> k \in 1 .. n \/ k = n + 1
    OBVIOUS
  <1>2. n + 1 \notin 1 .. n
    OBVIOUS
  <1>3. Max(1 .. n + 1) = n + 1
    BY GreatestIsMax
  <1>4. QED
    BY <1>1, <1>2, <1>3

-----------------------------------------------------------------------------
(* Reading one parameter *)

\* What refuses a URI.
IsBad(p) == p.key \in DOMAIN Valid /\ p.value \notin Valid[p.key]

\* What has been read so far is a verdict and a value for every field.
IsRead(read) ==
    /\ read = [ok |-> read.ok, fields |-> read.fields]
    /\ read.ok \in BOOLEAN
    /\ read.fields = [key \in DOMAIN Defaults |-> read.fields[key]]

\* The fields that can be bad are among those that are read.
LEMMA FieldNames ==
    /\ DOMAIN Defaults = {"algorithm", "digits", "period", "counter", "secret", "issuer"}
    /\ DOMAIN Valid = {"algorithm", "digits", "period", "counter"}
  BY DEF Defaults, Valid

\* next is what reading p makes of read: p settles its own field and may refuse
\* the URI.
ReadsMore(next, read, p) ==
    /\ IsRead(next)
    /\ next.ok <=> read.ok /\ ~IsBad(p)
    /\ next.ok => \A key \in DOMAIN Defaults :
          next.fields[key] = IF p.key = key THEN p.value ELSE read.fields[key]

\* One turn of the loop does just that.
LEMMA ReadsOne ==
    ASSUME NEW read, IsRead(read), NEW p
    PROVE  ReadsMore(Reads(read, p), read, p)
  <1> DEFINE next == Reads(read, p)
             Names == DOMAIN Defaults
  <1>1. DOMAIN Valid \subseteq Names
    BY FieldNames
  <1>2. CASE ~read.ok \/ p.key \notin Names
    <2>1. next = read
      BY <1>2 DEF Reads
    <2>2. QED
      BY <1>1, <1>2, <2>1 DEF IsBad, ReadsMore
  <1>3. CASE read.ok /\ p.key \in Names /\ IsBad(p)
    <2>1. next = [read EXCEPT !.ok = FALSE]
      BY <1>3 DEF Reads, IsBad
    <2>2. next = [ok |-> FALSE, fields |-> read.fields]
      BY <2>1 DEF IsRead
    <2>3. QED
      BY <1>3, <2>2 DEF IsRead, ReadsMore
  <1>4. CASE read.ok /\ p.key \in Names /\ ~IsBad(p)
    <2> DEFINE f == [read.fields EXCEPT ![p.key] = p.value]
    <2>1. next = [read EXCEPT !.fields = f]
      BY <1>4 DEF Reads, IsBad
    <2>2. f = [key \in Names |-> IF p.key = key THEN p.value ELSE read.fields[key]]
      BY DEF IsRead
    <2> HIDE DEF f
    <2>3. next = [ok |-> read.ok, fields |-> f]
      BY <2>1 DEF IsRead
    <2>4. QED
      BY <1>4, <2>2, <2>3 DEF IsRead, ReadsMore
  <1>5. QED
    BY <1>2, <1>3, <1>4 DEF IsRead

-----------------------------------------------------------------------------
(* Reading all parameters *)

Blank == [ok |-> TRUE, fields |-> Defaults]

\* The fold over parameters as a function on sets of positions: g is its result
\* on smaller sets, s the set.
ReadStep(params, g, s) ==
    IF s = {} THEN Blank ELSE Reads(g[s \ {Max(s)}], params[Max(s)])

\* The function g is the fold of the first n parameters.
ReadsAll(params, n, g) ==
    g = [s \in SUBSET (1 .. n) |-> ReadStep(params, g, s)]

\* A function that satisfies the fold's recursive definition exists.
LEMMA ReadingExists ==
    ASSUME NEW params, NEW n \in Nat
    PROVE  \E g : ReadsAll(params, n, g)
  <1> DEFINE S == {m \in Nat : \E g : ReadsAll(params, m, g)}
  <1>1. 0 \in S
    <2> DEFINE g == [s \in SUBSET (1 .. 0) |-> Blank]
    <2>1. 1 .. 0 = {}
      OBVIOUS
    <2>2. \A s \in SUBSET (1 .. 0) : ReadStep(params, g, s) = Blank
      BY <2>1 DEF ReadStep
    <2>3. ReadsAll(params, 0, g)
      BY <2>2 DEF ReadsAll
    <2>4. QED
      BY <2>3
  <1>2. ASSUME NEW m \in Nat, m \in S PROVE m + 1 \in S
    <2>1. PICK g : ReadsAll(params, m, g)
      BY <1>2
    <2> DEFINE h == [s \in SUBSET (1 .. m + 1) |->
                       IF m + 1 \in s THEN Reads(g[s \ {m + 1}], params[m + 1])
                       ELSE g[s]]
    <2>2. \A s \in SUBSET (1 .. m) : /\ s \in SUBSET (1 .. m + 1)
                                     /\ m + 1 \notin s
                                     /\ h[s] = g[s]
                                     /\ g[s] = ReadStep(params, g, s)
      <3>1. \A s \in SUBSET (1 .. m) : s \in SUBSET (1 .. m + 1) /\ m + 1 \notin s
        OBVIOUS
      <3>2. QED
        BY <3>1, <2>1 DEF ReadsAll
    <2> HIDE DEF h
    <2>3. ASSUME NEW s \in SUBSET (1 .. m + 1)
          PROVE  h[s] = ReadStep(params, h, s)
      <3>1. CASE m + 1 \in s
        <4>1. Max(s) = m + 1
          BY <3>1, GreatestIsMax
        <4>2. s \ {m + 1} \in SUBSET (1 .. m)
          BY ShorterInterval
        <4>3. h[s] = Reads(g[s \ {m + 1}], params[m + 1])
          BY <3>1 DEF h
        <4>4. h[s \ {m + 1}] = g[s \ {m + 1}]
          BY <4>2, <2>2
        <4>5. QED
          BY <3>1, <4>1, <4>3, <4>4 DEF ReadStep
      <3>2. CASE m + 1 \notin s
        <4>1. s \in SUBSET (1 .. m) /\ s \ {Max(s)} \in SUBSET (1 .. m)
          BY <3>2, ShorterInterval
        <4>2. h[s] = ReadStep(params, g, s)
          BY <4>1, <2>2
        <4>3. h[s \ {Max(s)}] = g[s \ {Max(s)}]
          BY <4>1, <2>2
        <4>4. QED
          BY <4>2, <4>3 DEF ReadStep
      <3>3. QED
        BY <3>1, <3>2
    <2>4. h = [s \in SUBSET (1 .. m + 1) |-> h[s]]
      BY DEF h
    <2>5. ReadsAll(params, m + 1, h)
      BY <2>3, <2>4 DEF ReadsAll
    <2>6. QED
      BY <2>5
  <1>3. Nat \subseteq S
    <2> HIDE DEF S
    <2> QED BY <1>1, <1>2, Induction
  <1>4. QED
    BY <1>3

Reading(params) == FoldLeft(Reads, Blank, params)

\* Reading as a chain: it starts with the defaults and each next link reads one
\* more parameter.
LEMMA ReadingIsAChain ==
    ASSUME NEW params, NEW N \in Nat, DOMAIN params = 1 .. N
    PROVE  \E link : /\ link[0] = Blank
                     /\ \A n \in 0 .. N - 1 :
                           link[n + 1] = Reads(link[n], params[n + 1])
                     /\ link[N] = Reading(params)
  <1> DEFINE fold == CHOOSE g : ReadsAll(params, N, g)
  <1>1. Reading(params) = fold[1 .. N]
    BY DEF Reading, FoldLeft, MapThenFoldSet, ReadsAll, ReadStep
  <1>2. ReadsAll(params, N, fold)
    BY ReadingExists
  <1> HIDE DEF fold
  <1> DEFINE link == [n \in 0 .. N |-> fold[1 .. n]]
  <1>3. \A n \in 0 .. N : fold[1 .. n] = ReadStep(params, fold, 1 .. n)
    <2>1. \A n \in 0 .. N : 1 .. n \in SUBSET (1 .. N)
      OBVIOUS
    <2>2. QED
      BY <2>1, <1>2 DEF ReadsAll
  <1>4. link[0] = Blank
    <2>1. 1 .. 0 = {} /\ 0 \in 0 .. N
      OBVIOUS
    <2>2. QED
      BY <2>1, <1>3 DEF ReadStep
  <1>5. ASSUME NEW n \in 0 .. N - 1
        PROVE  link[n + 1] = Reads(link[n], params[n + 1])
    <2>1. n \in Nat /\ n \in 0 .. N /\ n + 1 \in 0 .. N
      OBVIOUS
    <2>2. Max(1 .. n + 1) = n + 1 /\ (1 .. n + 1) \ {n + 1} = 1 .. n
      BY <2>1, ShorterInterval
    <2>3. n + 1 \in 1 .. n + 1
      BY <2>1
    <2>4. fold[1 .. n + 1] = Reads(fold[1 .. n], params[n + 1])
      BY <2>1, <2>2, <2>3, <1>3 DEF ReadStep
    <2>5. QED
      BY <2>1, <2>4
  <1>6. link[N] = Reading(params)
    BY <1>1
  <1>7. QED
    BY <1>4, <1>5, <1>6

\* The last of the first n parameters that names the field settles it; where
\* there is none the default stands.
Settles(params, n, key, value) ==
    \/ /\ value = Defaults[key]
       /\ \A i \in 1 .. n : params[i].key # key
    \/ \E i \in 1 .. n : /\ params[i].key = key
                         /\ value = params[i].value
                         /\ \A k \in 1 .. n : params[k].key = key => k <= i

\* What reading comes to: refused exactly for a bad parameter, each field
\* settled by the last parameter that names it.
LEMMA ReadingSettles ==
    ASSUME NEW params, NEW N \in Nat, DOMAIN params = 1 .. N
    PROVE  LET read == Reading(params)
           IN  /\ IsRead(read)
               /\ read.ok <=> \A i \in 1 .. N : ~IsBad(params[i])
               /\ read.ok => \A key \in DOMAIN Defaults :
                                Settles(params, N, key, read.fields[key])
  <1>1. PICK link : /\ link[0] = Blank
                    /\ \A n \in 0 .. N - 1 :
                          link[n + 1] = Reads(link[n], params[n + 1])
                    /\ link[N] = Reading(params)
    BY ReadingIsAChain
  <1> DEFINE Good(n) ==
               /\ IsRead(link[n])
               /\ link[n].ok <=> \A i \in 1 .. n : ~IsBad(params[i])
               /\ link[n].ok => \A key \in DOMAIN Defaults :
                                   Settles(params, n, key, link[n].fields[key])
             S == {n \in Nat : n <= N => Good(n)}
  <1>2. 0 \in S
    <2>1. 1 .. 0 = {}
      OBVIOUS
    <2>2. IsRead(Blank) /\ Blank.ok /\ Blank.fields = Defaults
      BY DEF Blank, IsRead, Defaults
    <2>3. QED
      BY <1>1, <2>1, <2>2 DEF Settles
  <1>3. ASSUME NEW n \in Nat, n \in S PROVE n + 1 \in S
    <2> SUFFICES ASSUME n + 1 <= N PROVE Good(n + 1)
      OBVIOUS
    <2> DEFINE old == link[n]
               new == link[n + 1]
               p == params[n + 1]
    <2>1. n \in 0 .. N - 1 /\ Good(n)
      BY <1>3
    <2>2. new = Reads(old, p)
      BY <1>1, <2>1
    <2>3. /\ IsRead(old)
          /\ old.ok <=> \A i \in 1 .. n : ~IsBad(params[i])
          /\ old.ok => \A key \in DOMAIN Defaults :
                          Settles(params, n, key, old.fields[key])
      BY <2>1
    <2> HIDE DEF old, new, p, Good, S
    <2>4. /\ IsRead(new)
          /\ new.ok <=> old.ok /\ ~IsBad(p)
          /\ new.ok => \A key \in DOMAIN Defaults :
                new.fields[key] = IF p.key = key THEN p.value ELSE old.fields[key]
      <3>1. ReadsMore(new, old, p)
        BY <2>2, <2>3, ReadsOne
      <3>2. QED
        BY <3>1 DEF ReadsMore
    <2>5. 1 .. n + 1 = (1 .. n) \cup {n + 1}
      BY ShorterInterval
    <2>6. new.ok <=> \A i \in 1 .. n + 1 : ~IsBad(params[i])
      BY <2>3, <2>4, <2>5 DEF p
    <2>7. ASSUME new.ok, NEW key \in DOMAIN Defaults
          PROVE  Settles(params, n + 1, key, new.fields[key])
      <3>1. Settles(params, n, key, old.fields[key])
        BY <2>3, <2>4, <2>7
      <3>2. CASE p.key = key
        <4>1. \A k \in 1 .. n + 1 : k <= n + 1
          OBVIOUS
        <4>2. QED
          BY <2>4, <2>5, <2>7, <3>2, <4>1 DEF Settles, p
      <3>3. CASE p.key # key
        <4>1. new.fields[key] = old.fields[key]
          BY <2>4, <2>7, <3>3
        <4>2. QED
          BY <2>5, <3>1, <3>3, <4>1 DEF Settles, p
      <3>4. QED
        BY <3>2, <3>3
    <2>8. QED
      BY <2>4, <2>6, <2>7 DEF Good, new
  <1>4. Good(N)
    <2>1. Nat \subseteq S
      <3> HIDE DEF S
      <3> QED BY <1>2, <1>3, Induction
    <2> HIDE DEF Good
    <2>2. QED
      BY <2>1
  <1>5. QED
    BY <1>1, <1>4

-----------------------------------------------------------------------------
(* What is enrolled *)

\* What settles a field is what the URI says of it.
LEMMA SettledIsWritten ==
    ASSUME NEW uri, IsUri(uri), NEW key, NEW value,
           Settles(uri.params, Len(uri.params), key, value)
    PROVE  value = Written(uri, key)
  <1>1. DOMAIN uri.params = 1 .. Len(uri.params)
    BY DEF IsUri
  <1>2. Named(uri, key) = {i \in 1 .. Len(uri.params) : uri.params[i].key = key}
    BY <1>1 DEF Named
  <1>3. CASE Named(uri, key) = {}
    BY <1>2, <1>3 DEF Settles, Written
  <1>4. CASE Named(uri, key) # {}
    <2>1. PICK i \in 1 .. Len(uri.params) :
             /\ uri.params[i].key = key
             /\ value = uri.params[i].value
             /\ \A k \in 1 .. Len(uri.params) : uri.params[k].key = key => k <= i
      BY <1>2, <1>4 DEF Settles
    <2>2. Max(Named(uri, key)) = i
      <3>1. /\ Named(uri, key) \in SUBSET Nat
            /\ i \in Named(uri, key)
            /\ \A k \in Named(uri, key) : i >= k
        BY <1>2, <2>1
      <3>2. QED
        BY <3>1, GreatestIsMax
    <2>3. QED
      BY <1>4, <2>1, <2>2 DEF Written
  <1>5. QED
    BY <1>3, <1>4

\* Among numbers and names, a parameter is bad as the URI format says.
LEMMA BadIsWrong ==
    ASSUME NEW p, IsParam(p)
    PROVE  IsBad(p) <=> \/ p.key = "algorithm" /\ p.value \notin Algorithm
                        \/ p.key = "digits" /\ (p.value < 6 \/ p.value > 8)
                        \/ p.key = "period" /\ p.value <= 0
                        \/ p.key = "counter" /\ p.value < 0
  <1>1. /\ Valid["algorithm"] = Algorithm
        /\ Valid["digits"] = 6 .. 8
        /\ Valid["period"] = Nat \ {0}
        /\ Valid["counter"] = Nat
    BY DEF Valid
  <1>2. CASE p.key = "algorithm"
    BY <1>1, <1>2, FieldNames DEF IsBad
  <1>3. CASE p.key = "digits"
    BY <1>1, <1>3, FieldNames DEF IsBad, IsParam, Numeric
  <1>4. CASE p.key = "period"
    BY <1>1, <1>4, FieldNames DEF IsBad, IsParam, Numeric
  <1>5. CASE p.key = "counter"
    BY <1>1, <1>5, FieldNames DEF IsBad, IsParam, Numeric
  <1>6. CASE p.key \notin {"algorithm", "digits", "period", "counter"}
    BY <1>6, FieldNames DEF IsBad
  <1>7. QED
    BY <1>2, <1>3, <1>4, <1>5, <1>6

\* The value of a field that was read without refusing the URI.
LEMMA FieldIsWritten ==
    ASSUME NEW uri, IsUri(uri), Reading(uri.params).ok
    PROVE  \A key \in DOMAIN Defaults : Reading(uri.params).fields[key] = Written(uri, key)
  <1>1. Len(uri.params) \in Nat /\ DOMAIN uri.params = 1 .. Len(uri.params)
    BY DEF IsUri
  <1>2. \A key \in DOMAIN Defaults :
           Settles(uri.params, Len(uri.params), key, Reading(uri.params).fields[key])
    BY <1>1, ReadingSettles
  <1>3. QED
    BY <1>2, SettledIsWritten

\* A URI that is not refused says something of the right kind in every field.
LEMMA WrittenTypes ==
    ASSUME NEW uri, IsUri(uri), \A i \in DOMAIN uri.params : ~IsBad(uri.params[i])
    PROVE  /\ Written(uri, "algorithm") \in Algorithm
           /\ Written(uri, "digits") \in Nat
           /\ Written(uri, "period") \in Nat
           /\ Written(uri, "counter") \in Nat
           /\ Named(uri, "issuer") # {} => Written(uri, "issuer") \in Text
           /\ Named(uri, "issuer") = {} => Written(uri, "issuer") = None
  <1>1. ASSUME NEW key \in DOMAIN Defaults
        PROVE  \/ Named(uri, key) = {} /\ Written(uri, key) = Defaults[key]
               \/ /\ Named(uri, key) # {}
                  /\ \E i \in DOMAIN uri.params : /\ uri.params[i].key = key
                                                  /\ Written(uri, key) = uri.params[i].value
    <2> DEFINE value == Reading(uri.params).fields[key]
    <2>1. Len(uri.params) \in Nat /\ DOMAIN uri.params = 1 .. Len(uri.params)
      BY DEF IsUri
    <2>2. Settles(uri.params, Len(uri.params), key, value)
      BY <2>1, ReadingSettles
    <2> HIDE DEF value
    <2>3. value = Written(uri, key)
      BY <2>2, SettledIsWritten
    <2>4. QED
      BY <2>1, <2>2, <2>3 DEF Settles, Named
  <1>2. \A i \in DOMAIN uri.params : IsParam(uri.params[i])
    BY DEF IsUri
  <1>3. /\ Defaults["algorithm"] \in Algorithm
        /\ Defaults["digits"] \in Nat
        /\ Defaults["period"] \in Nat
        /\ Defaults["counter"] \in Nat
        /\ Defaults["issuer"] = None
    BY DEF Defaults, Algorithm
  <1>4. /\ Valid["algorithm"] = Algorithm
        /\ Valid["digits"] \subseteq Nat
        /\ Valid["period"] \subseteq Nat
        /\ Valid["counter"] = Nat
    BY DEF Valid
  <1>5. \A i \in DOMAIN uri.params :
           uri.params[i].key \in DOMAIN Valid =>
              uri.params[i].value \in Valid[uri.params[i].key]
    BY DEF IsBad
  <1>6. Written(uri, "algorithm") \in Algorithm
    BY <1>1, <1>3, <1>4, <1>5, FieldNames
  <1>7. Written(uri, "digits") \in Nat
    BY <1>1, <1>3, <1>4, <1>5, FieldNames
  <1>8. Written(uri, "period") \in Nat
    BY <1>1, <1>3, <1>4, <1>5, FieldNames
  <1>9. Written(uri, "counter") \in Nat
    BY <1>1, <1>3, <1>4, <1>5, FieldNames
  <1>10. Named(uri, "issuer") # {} => Written(uri, "issuer") \in Text
    BY <1>1, <1>2, FieldNames DEF IsParam
  <1>11. Named(uri, "issuer") = {} => Written(uri, "issuer") = None
    BY <1>1, <1>3, FieldNames
  <1>12. QED
    BY <1>6, <1>7, <1>8, <1>9, <1>10, <1>11

\* A URI is refused exactly if it is wrong; the account of one that is not has
\* in every field what the URI says.
LEMMA AccountIsWritten ==
    ASSUME NEW uri, IsUri(uri)
    PROVE  /\ FromUri(uri) = None <=> IsWrong(uri)
           /\ ~IsWrong(uri) =>
                 /\ FromUri(uri) \in OtpAccount
                 /\ FromUri(uri).kind = uri.type
                 /\ FromUri(uri).issuer = IF Named(uri, "issuer") = {} THEN uri.prefix
                                          ELSE Written(uri, "issuer")
                 /\ \A key \in DOMAIN Defaults \ {"issuer"} :
                       FromUri(uri)[key] = Written(uri, key)
  <1> DEFINE read == Reading(uri.params)
             fields == read.fields
             issuer == IF fields.issuer # None THEN fields.issuer ELSE uri.prefix
             account == [kind      |-> uri.type,
                         issuer    |-> issuer,
                         label     |-> <<uri.prefix, uri.account>>,
                         secret    |-> fields.secret,
                         algorithm |-> fields.algorithm,
                         digits    |-> fields.digits,
                         period    |-> fields.period,
                         counter   |-> fields.counter]
             HasCounter == \E i \in DOMAIN uri.params : uri.params[i].key = "counter"
             Accepted == /\ uri.scheme = "otpauth"
                         /\ uri.type \in Kind
                         /\ read.ok
                         /\ fields.secret \in Seed
                         /\ uri.type = "hotp" => HasCounter
  <1>1. FromUri(uri) = IF Accepted THEN account ELSE None
    BY DEF FromUri, Reading, Blank
  <1>2. read.ok <=> \A i \in DOMAIN uri.params : ~IsBad(uri.params[i])
    <2>1. Len(uri.params) \in Nat /\ DOMAIN uri.params = 1 .. Len(uri.params)
      BY DEF IsUri
    <2>2. QED
      BY <2>1, ReadingSettles
  <1>3. ~read.ok => IsWrong(uri)
    <2>1. ASSUME NEW i \in DOMAIN uri.params, IsBad(uri.params[i]) PROVE IsWrong(uri)
      <3>1. IsParam(uri.params[i])
        BY DEF IsUri
      <3>2. QED
        BY <2>1, <3>1, BadIsWrong DEF IsWrong
    <2>2. QED
      BY <1>2, <2>1
  <1>4. read.ok => \A key \in DOMAIN Defaults : fields[key] = Written(uri, key)
    BY FieldIsWritten
  <1>5. HasCounter <=> Named(uri, "counter") # {}
    BY DEF Named
  <1> HIDE DEF read
  <1>6. Accepted <=> ~IsWrong(uri)
    <2>1. read.ok => fields.secret = Written(uri, "secret")
      BY <1>4, FieldNames
    <2>2. read.ok => \A i \in DOMAIN uri.params :
             LET p == uri.params[i]
             IN  ~ (\/ p.key = "algorithm" /\ p.value \notin Algorithm
                    \/ p.key = "digits" /\ (p.value < 6 \/ p.value > 8)
                    \/ p.key = "period" /\ p.value <= 0
                    \/ p.key = "counter" /\ p.value < 0)
      BY <1>2, BadIsWrong DEF IsUri
    <2> HIDE DEF fields, HasCounter
    <2>3. QED
      BY <1>3, <1>5, <2>1, <2>2 DEF IsWrong
  <1>7. ASSUME Accepted PROVE account \in OtpAccount
    <2>1. /\ fields.algorithm \in Algorithm
          /\ fields.digits \in Nat
          /\ fields.period \in Nat
          /\ fields.counter \in Nat
          /\ fields.issuer = None \/ fields.issuer \in Text
      BY <1>2, <1>4, <1>7, WrittenTypes, FieldNames
    <2>2. uri.prefix \in Text /\ uri.account \in Text
      BY DEF IsUri
    <2> HIDE DEF fields, HasCounter
    <2>3. issuer \in Text
      BY <2>1, <2>2
    <2>4. fields.secret \in Seed /\ uri.type \in Kind
      BY <1>7
    <2> HIDE DEF issuer
    <2>5. QED
      BY <2>1, <2>2, <2>3, <2>4 DEF OtpAccount
  <1>8. Accepted => issuer = IF Named(uri, "issuer") = {} THEN uri.prefix
                             ELSE Written(uri, "issuer")
    <2>1. Accepted => /\ fields.issuer = Written(uri, "issuer")
                      /\ Named(uri, "issuer") # {} => Written(uri, "issuer") \in Text
                      /\ Named(uri, "issuer") = {} => Written(uri, "issuer") = None
      BY <1>2, <1>4, WrittenTypes, FieldNames
    <2>2. None \notin Text
      BY OtpauthAssumption
    <2> HIDE DEF fields, Accepted
    <2>3. QED
      BY <2>1, <2>2
  <1>9. Accepted => \A key \in DOMAIN Defaults \ {"issuer"} : account[key] = Written(uri, key)
    <2>1. \A key \in DOMAIN Defaults \ {"issuer"} : account[key] = fields[key]
      <3> HIDE DEF fields, issuer
      <3> QED BY FieldNames
    <2> HIDE DEF account
    <2>2. QED
      BY <1>4, <2>1
  <1>10. account.kind = uri.type /\ account.issuer = issuer
    OBVIOUS
  <1> HIDE DEF account, Accepted, issuer
  <1>11. QED
    BY <1>1, <1>6, <1>7, <1>8, <1>9, <1>10, NoAccountAssumption

-----------------------------------------------------------------------------
(* Countdowns *)

\* The clock of a run that is set back to 0 at its bound.
LEMMA NextSecond ==
    ASSUME NEW h \in Nat \ {0}, NEW c \in 0 .. h - 1
    PROVE  (c + 1) % h = IF c + 1 = h THEN 0 ELSE c + 1
  BY SMT

\* A number the view's Int can hold comes through unchanged.
LEMMA NarrowedFits ==
    ASSUME NEW n \in 0 .. IntMax
    PROVE  Narrowed(n) = n
  <1>1. IntMax \in Nat
    BY OtpauthAssumption
  <1>2. ASSUME NEW a \in Nat, NEW b \in Nat, a < b PROVE a % b = a
    BY <1>2, SMT
  <1>3. n + IntMax + 1 \in Nat /\ 2 * (IntMax + 1) \in Nat
        /\ n + IntMax + 1 < 2 * (IntMax + 1)
    BY <1>1
  <1>4. (n + IntMax + 1) % (2 * (IntMax + 1)) = n + IntMax + 1
    BY <1>2, <1>3
  <1>5. QED
    BY <1>1, <1>4 DEF Narrowed

\* Two moments are in one period exactly until the rest of it has passed.
LEMMA SamePeriod ==
    ASSUME NEW s \in Nat \ {0}, NEW d \in Nat, NEW c \in Nat, d <= c
    PROVE  /\ s - (d % s) \in 1 .. s
           /\ c < d + (s - (d % s)) <=> c \div s = d \div s
  <1> DEFINE q == d \div s
             r == d % s
             p == c \div s
             t == c % s
  <1>1. /\ q \in Int /\ r \in Int /\ 0 <= r /\ r < s /\ d = s * q + r
        /\ p \in Int /\ t \in Int /\ 0 <= t /\ t < s /\ c = s * p + t
    BY SMT
  <1> HIDE DEF q, r, p, t
  <1>2. s - r \in 1 .. s
    BY <1>1
  <1>3. p >= q
    <2>1. SUFFICES ASSUME p + 1 <= q PROVE FALSE
      BY <1>1
    <2>2. s * (p + 1) <= s * q
      BY <1>1, <2>1, SMT
    <2>3. s * (p + 1) = s * p + s
      BY <1>1, SMT
    <2>4. QED
      BY <1>1, <2>2, <2>3
  <1>4. s * (q + 1) = s * q + s
    BY <1>1, SMT
  <1>5. ASSUME p = q PROVE c < d + (s - r)
    BY <1>1, <1>5
  <1>6. ASSUME p # q PROVE ~ (c < d + (s - r))
    <2>1. p >= q + 1
      BY <1>1, <1>3, <1>6
    <2>2. s * p >= s * (q + 1)
      BY <1>1, <2>1, SMT
    <2>3. QED
      BY <1>1, <1>4, <2>2
  <1>7. QED
    BY <1>2, <1>5, <1>6 DEF p, q, r

\* A countdown that fits the view ends with the code drawn beside it.
LEMMA CountdownEndsWithCode ==
    ASSUME NEW a \in Stored, NEW d \in Nat, NEW c \in Nat, d <= c,
           a.kind = "totp", a.period <= IntMax, CurrentCode(a, d) # Undefined
    PROVE  c < d + AccountView(a, d).seconds <=> CurrentCode(a, c) = CurrentCode(a, d)
  <1> DEFINE s == Step(a)
  <1>1. IntMax \in Nat \ {0} /\ a.period \in Nat
    BY OtpauthAssumption DEF Stored
  <1>2. s \in 1 .. IntMax
    BY <1>1 DEF Step
  <1>3. a.digits \in 6 .. 8
    BY DEF CurrentCode, Hotp
  <1>4. \A u : CurrentCode(a, u) = [algorithm |-> a.algorithm, secret |-> a.secret,
                                    counter |-> u \div s, digits |-> a.digits]
    BY <1>3 DEF CurrentCode, Hotp
  <1> HIDE DEF s
  <1>5. CurrentCode(a, c) = CurrentCode(a, d) <=> c \div s = d \div s
    BY <1>4
  <1>6. s \in Nat \ {0}
    BY <1>1, <1>2
  <1>7. /\ s - (d % s) \in 1 .. s
        /\ c < d + (s - (d % s)) <=> c \div s = d \div s
    BY <1>6, SamePeriod
  <1>8. s - (d % s) \in 0 .. IntMax
    <2> DEFINE rest == s - (d % s)
    <2>1. rest \in 1 .. s
      BY <1>7
    <2> HIDE DEF rest
    <2>2. rest \in 0 .. IntMax
      BY <1>1, <1>2, <2>1
    <2>3. QED
      BY <2>2 DEF rest
  <1>9. AccountView(a, d).seconds = s - (d % s)
    <2>1. AccountView(a, d).seconds = Narrowed(Remaining(a, d))
      BY DEF AccountView
    <2>2. Remaining(a, d) = s - (d % s)
      BY DEF Remaining, s
    <2>3. QED
      BY <1>8, <2>1, <2>2, NarrowedFits
  <1>10. QED
    BY <1>5, <1>7, <1>9

-----------------------------------------------------------------------------
(* The invariant *)

\* The rows on screen show the accounts as they were when last drawn.
RowsAreDrawn == \A i \in DOMAIN rows : rows[i] = AccountView(accounts[i], drawn)

CodesInv == TypeOK /\ RowsAreDrawn

\* Nothing is enrolled, shown or copied at first.
LEMMA CodesInit == Init => CodesInv
  <1> SUFFICES ASSUME Init PROVE CodesInv
    OBVIOUS
  <1>1. /\ ClearAfter \in Nat /\ MaxCopies \in Nat /\ Horizon \in Nat \ {0}
    BY CodesAssumption
  <1>2. 0 \in 0 .. Horizon - 1 /\ 0 \in 0 .. ClearAfter + 1 /\ 0 \in 0 .. MaxCopies
    BY <1>1
  <1>3. <<>> \in Seq(Stored) /\ DOMAIN <<>> = {}
    OBVIOUS
  <1>4. QED
    BY <1>2, <1>3 DEF Init, CodesInv, TypeOK, RowsAreDrawn

\* Drawing the list again keeps it true.
LEMMA RefreshDraws ==
    ASSUME TypeOK, accounts' \in Seq(Stored), RefreshVault(accounts')
    PROVE  /\ DOMAIN rows' = DOMAIN accounts'
           /\ drawn' \in 0 .. Horizon - 1
           /\ RowsAreDrawn'
  BY DEF RefreshVault, TypeOK, RowsAreDrawn

\* One account more.
LEMMA OneMore ==
    ASSUME NEW account \in Stored, TypeOK
    PROVE  Append(accounts, account) \in Seq(Stored)
  BY DEF TypeOK

\* An account from a URI is stored with all its fields.
LEMMA StoredIsStored ==
    ASSUME NEW a \in OtpAccount
    PROVE  StoredAccount(a) \in Stored
  BY DEF OtpAccount, StoredAccount, Stored

\* Scheduled clears are due within the delay.
LEMMA ScheduledInTime ==
    ASSUME TypeOK, NEW code
    PROVE  \A t \in Scheduled(code) : t \in [code : {t.code}, left : 0 .. ClearAfter]
  <1>1. ClearAfter \in 0 .. ClearAfter
    BY CodesAssumption
  <1>2. QED
    BY <1>1 DEF TypeOK, Scheduled

\* Every step keeps the shape of the state and the rows as drawn.
LEMMA CodesStep == CodesInv /\ [Next]_vars => CodesInv'
  <1> SUFFICES ASSUME CodesInv, [Next]_vars PROVE CodesInv'
    OBVIOUS
  <1> USE DEF CodesInv
  <1>0. /\ ClearAfter \in Nat \ {0} /\ MaxCopies \in Nat /\ Horizon \in Nat \ {0}
        /\ Synced \subseteq Stored /\ \A uri \in Uri : IsUri(uri)
        /\ 0 \in 0 .. ClearAfter + 1
    BY CodesAssumption
  <1>1. ASSUME NEW uri \in Uri, Pastes(uri) PROVE CodesInv'
    <2>1. UNCHANGED <<clock, clipboard, running, copies>>
      BY <1>1 DEF Pastes
    <2>2. CASE UNCHANGED list
      BY <2>1, <2>2 DEF TypeOK, RowsAreDrawn, list, clipboard
    <2>3. CASE ~UNCHANGED list
      <3>1. PICK account : /\ account = FromUri(uri)
                           /\ account # None
                           /\ accounts' = Append(accounts, StoredAccount(account))
                           /\ RefreshVault(accounts')
        BY <1>1, <2>3 DEF Pastes
      <3>2. account \in OtpAccount
        BY <1>0, <3>1, AccountIsWritten
      <3>3. accounts' \in Seq(Stored)
        BY <3>1, <3>2, StoredIsStored, OneMore
      <3>4. QED
        BY <2>1, <3>1, <3>3, RefreshDraws DEF TypeOK, clipboard
    <2>4. QED
      BY <2>2, <2>3
  <1>2. ASSUME NEW account \in Synced, SyncBrings(account) PROVE CodesInv'
    <2>1. accounts' \in Seq(Stored) /\ RefreshVault(accounts')
      BY <1>0, <1>2, OneMore DEF SyncBrings
    <2>2. QED
      BY <1>2, <2>1, RefreshDraws DEF SyncBrings, TypeOK, clipboard
  <1>3. ASSUME NEW i \in DOMAIN rows, Copies(i) PROVE CodesInv'
    <2>1. /\ copies < MaxCopies /\ copies' = copies + 1
          /\ UNCHANGED <<list, clock, running>>
          /\ \/ /\ timers' = Scheduled(Copied(i)) /\ UNCHANGED wiping
                /\ age' = 0 /\ missed' = FALSE
             \/ UNCHANGED clipboard
      BY <1>3 DEF Copies, Puts
    <2>2. /\ \A t \in timers' : t \in [code : {t.code}, left : 0 .. ClearAfter]
          /\ wiping' \in BOOLEAN /\ missed' \in BOOLEAN /\ age' \in 0 .. ClearAfter + 1
      BY <1>0, <2>1, ScheduledInTime DEF TypeOK, clipboard
    <2>3. copies' \in 0 .. MaxCopies
      BY <1>0, <2>1 DEF TypeOK
    <2>4. QED
      BY <1>0, <2>1, <2>2, <2>3 DEF TypeOK, RowsAreDrawn, list
  <1>4. ASSUME NEW t \in timers, Fires(t) PROVE CodesInv'
    <2>1. /\ timers' \subseteq timers
          /\ UNCHANGED <<list, clock, board, age, running, copies>>
      BY <1>4 DEF Fires
    <2>2. wiping' \in BOOLEAN /\ missed' \in BOOLEAN
      BY <1>4 DEF Fires, Finds, Missed, TypeOK
    <2>3. QED
      BY <2>1, <2>2 DEF TypeOK, RowsAreDrawn, list
  <1>5. CASE Refreshes
    <2>1. accounts' \in Seq(Stored) /\ RefreshVault(accounts')
      BY <1>5 DEF Refreshes, TypeOK
    <2>2. QED
      BY <1>5, <2>1, RefreshDraws DEF Refreshes, TypeOK, clipboard
  <1>6. CASE DesktopCopies
    BY <1>0, <1>6 DEF DesktopCopies, Puts, TypeOK, RowsAreDrawn, list
  <1>7. CASE Wipes
    <2>1. /\ missed' \in BOOLEAN /\ age' \in 0 .. ClearAfter + 1 /\ wiping' \in BOOLEAN
          /\ UNCHANGED <<list, clock, timers, running, copies>>
      BY <1>0, <1>7 DEF Wipes, Puts, Missed, TypeOK
    <2>2. QED
      BY <2>1 DEF TypeOK, RowsAreDrawn, list
  <1>8. CASE Quits
    <2>1. <<>> \in Seq(Stored) /\ DOMAIN <<>> = {}
      OBVIOUS
    <2>2. QED
      BY <1>8, <2>1 DEF Quits, TypeOK, RowsAreDrawn
  <1>9. CASE Second
    <2>1. clock' \in 0 .. Horizon - 1
      <3>1. clock \in 0 .. Horizon - 1 /\ clock' = (clock + 1) % Horizon
        BY <1>9 DEF Second, TypeOK
      <3>2. clock' = IF clock + 1 = Horizon THEN 0 ELSE clock + 1
        BY <1>0, <3>1, NextSecond
      <3>3. QED
        BY <1>0, <3>1, <3>2
    <2>2. age' \in 0 .. ClearAfter + 1
      BY <1>0, <1>9 DEF Second, TypeOK
    <2>3. \A t \in timers' : t \in [code : {t.code}, left : 0 .. ClearAfter]
      <3>1. ASSUME NEW t \in timers
            PROVE  LET u == [t EXCEPT !.left = IF @ > 0 THEN @ - 1 ELSE 0]
                   IN  u \in [code : {u.code}, left : 0 .. ClearAfter]
        <4>1. t \in [code : {t.code}, left : 0 .. ClearAfter]
          BY DEF TypeOK
        <4>2. QED
          BY <1>0, <4>1
      <3>2. QED
        BY <1>9, <3>1 DEF Second
    <2>4. QED
      BY <1>9, <2>1, <2>2, <2>3 DEF Second, TypeOK, RowsAreDrawn, list
  <1>10. CASE UNCHANGED vars
    BY <1>10 DEF vars, list, clipboard, TypeOK, RowsAreDrawn
  <1>11. QED
    BY <1>1, <1>2, <1>3, <1>4, <1>5, <1>6, <1>7, <1>8, <1>9, <1>10 DEF Next

LEMMA CodesInvariance == Spec => []CodesInv
  BY CodesInit, CodesStep, PTL DEF Spec

\* The state keeps its shape (ui.rs:36-49, 892-931, 1146-1169).
THEOREM CodesTypeCorrect == Spec => []TypeOK
  BY CodesInvariance, PTL DEF CodesInv

-----------------------------------------------------------------------------
(* What a paste enrolls *)

\* What is enrolled is what the URI says, however its parameters are ordered and
\* repeated, and nothing else is enrolled (otp/uri.rs:97-101).
THEOREM CodesEnrollAsWritten == Spec => []EnrolledAsWritten
  <1>1. Init => EnrolledAsWritten
    BY DEF Init, EnrolledAsWritten
  <1>2. EnrolledAsWritten /\ [Next]_vars => EnrolledAsWritten'
    <2> SUFFICES ASSUME EnrolledAsWritten, [Next]_vars PROVE EnrolledAsWritten'
      OBVIOUS
    <2>1. ASSUME NEW uri \in Uri, Pastes(uri) PROVE EnrolledAsWritten'
      <3> DEFINE account == IF IsMigrationUri(uri) THEN None ELSE FromUri(uri)
      <3>1. pasted' = [uri |-> uri, account |-> account]
        BY <2>1 DEF Pastes
      <3>2. IsUri(uri)
        BY CodesAssumption
      <3>3. IsMigrationUri(uri) => IsWrong(uri)
        BY DEF IsMigrationUri, IsWrong
      <3>4. /\ account = None <=> IsWrong(uri)
            /\ ~IsWrong(uri) =>
                  /\ account.kind = uri.type
                  /\ account.issuer = IF Named(uri, "issuer") = {} THEN uri.prefix
                                      ELSE Written(uri, "issuer")
                  /\ \A key \in DOMAIN Defaults \ {"issuer"} :
                        account[key] = Written(uri, key)
        BY <3>2, <3>3, AccountIsWritten
      <3> HIDE DEF account
      <3>5. pasted'.uri = uri /\ pasted'.account = account
        BY <3>1
      <3>6. QED
        BY <3>4, <3>5 DEF EnrolledAsWritten
    <2>2. CASE pasted' = None
      BY <2>2 DEF EnrolledAsWritten
    <2>3. CASE UNCHANGED vars
      BY <2>3 DEF vars, EnrolledAsWritten
    <2>4. QED
      BY <2>1, <2>2, <2>3
      DEF Next, SyncBrings, Copies, Fires, Refreshes, DesktopCopies, Wipes, Quits, Second
  <1>3. QED
    BY <1>1, <1>2, PTL DEF Spec

-----------------------------------------------------------------------------
(* The code shown, and the code copied *)

\* The countdown drawn beside a code runs out with the code, however late the
\* list is drawn again and whatever period a sync brings (ui.rs:901-920,
\* otp/mod.rs:72-91).
THEOREM CodesCountHonestly == Spec => []CountdownIsHonest
  <1>1. CodesInv => CountdownIsHonest
    <2> SUFFICES ASSUME CodesInv, NEW i \in DOMAIN rows,
                        accounts[i].kind = "totp", accounts[i].period <= IntMax,
                        rows[i].code # Undefined, drawn <= clock
                 PROVE  clock < drawn + rows[i].seconds
                        <=> CurrentCode(accounts[i], clock) = rows[i].code
      BY DEF CountdownIsHonest
    <2>1. accounts[i] \in Stored /\ rows[i] = AccountView(accounts[i], drawn)
      BY DEF CodesInv, TypeOK, RowsAreDrawn
    <2>2. drawn \in Nat /\ clock \in Nat
      BY CodesAssumption DEF CodesInv, TypeOK
    <2>3. rows[i].code = CurrentCode(accounts[i], drawn)
      BY <2>1 DEF AccountView
    <2>4. QED
      BY <2>1, <2>2, <2>3, CountdownEndsWithCode
  <1>2. QED
    BY <1>1, CodesInvariance, PTL

\* What a row copies is the current code of an account in the vault.
LEMMA CopiedIsCurrent ==
    ASSUME CodesInv, NEW i \in DOMAIN rows
    PROVE  \E j \in DOMAIN accounts : Copied(i) = CurrentCode(accounts[j], clock)
  <1> DEFINE I == {j \in 1 .. Len(accounts) : accounts[j].id = rows[i].id}
             first == SelectInSeq(accounts, LAMBDA a : a.id = rows[i].id)
  <1>1. DOMAIN accounts = 1 .. Len(accounts) /\ Len(accounts) \in Nat
    BY DEF CodesInv, TypeOK
  <1>2. i \in I
    BY <1>1 DEF CodesInv, TypeOK, RowsAreDrawn, AccountView
  <1>3. first = CHOOSE x \in I : \A y \in I : x =< y
    BY <1>2 DEF SelectInSeq, Min
  <1>4. \E x \in I : \A y \in I : x =< y
    <2> I \subseteq Nat
      OBVIOUS
    <2> HIDE DEF I
    <2> QED BY <1>2, LeastNumber
  <1>5. first \in I
    <2> HIDE DEF I, first
    <2> QED BY <1>3, <1>4
  <1>6. first \in DOMAIN accounts
    BY <1>1, <1>5
  <1>7. QED
    BY <1>6 DEF Copied

\* One account more leaves the others where they are.
LEMMA OthersStay ==
    ASSUME TypeOK, NEW account
    PROVE  \A i \in DOMAIN accounts : /\ i \in DOMAIN Append(accounts, account)
                                      /\ Append(accounts, account)[i] = accounts[i]
  BY DEF TypeOK

\* A step that leaves the clock and the board alone, and every account in its
\* place, leaves what was copied current.
LEMMA CurrentStays ==
    ASSUME TypeOK, CopiesAreCurrent, UNCHANGED <<board, age, clock, running>>,
           \A i \in DOMAIN accounts : i \in DOMAIN accounts' /\ accounts'[i] = accounts[i]
    PROVE  CopiesAreCurrent'
  BY DEF CopiesAreCurrent, OnBoard

\* Every step leaves what was copied the code that was current then.
LEMMA CurrentStep == CodesInv /\ CopiesAreCurrent /\ [Next]_vars => CopiesAreCurrent'
  <1> SUFFICES ASSUME CodesInv, CopiesAreCurrent, [Next]_vars PROVE CopiesAreCurrent'
    OBVIOUS
  <1>0. TypeOK
    BY DEF CodesInv
  <1>1. ASSUME NEW uri \in Uri, Pastes(uri) PROVE CopiesAreCurrent'
    BY <1>1 DEF Pastes, CopiesAreCurrent, OnBoard, clipboard
  <1>2. ASSUME NEW account \in Synced, SyncBrings(account) PROVE CopiesAreCurrent'
    BY <1>0, <1>2, OthersStay, CurrentStays DEF SyncBrings, clipboard
  <1>3. ASSUME NEW i \in DOMAIN rows, Copies(i) PROVE CopiesAreCurrent'
    <2>1. UNCHANGED <<accounts, clock, running>>
      BY <1>3 DEF Copies, list
    <2>2. CASE Puts(Copied(i))
      <3>1. board' = Copied(i) /\ age' = 0
        BY <2>2 DEF Puts
      <3>2. clock' - age' = clock
        BY <1>0, <2>1, <3>1, CodesAssumption DEF TypeOK
      <3>3. \E j \in DOMAIN accounts' : board' = CurrentCode(accounts'[j], clock' - age')
        BY <2>1, <3>1, <3>2, CopiedIsCurrent
      <3>4. QED
        BY <3>3 DEF CopiesAreCurrent
    <2>3. CASE UNCHANGED clipboard
      BY <1>0, <2>1, <2>3, CurrentStays DEF clipboard
    <2>4. QED
      BY <1>3, <2>2, <2>3 DEF Copies
  <1>4. ASSUME NEW t \in timers, Fires(t) PROVE CopiesAreCurrent'
    BY <1>0, <1>4, CurrentStays DEF Fires, list
  <1>5. CASE Refreshes
    BY <1>0, <1>5, CurrentStays DEF Refreshes, clipboard
  <1>6. CASE DesktopCopies \/ Wipes
    <2>1. CASE Puts(Foreign) \/ Puts(Empty)
      BY <2>1 DEF Puts, CopiesAreCurrent, OnBoard
    <2>2. CASE UNCHANGED <<board, age, list, clock, running>>
      BY <1>0, <2>2, CurrentStays DEF list
    <2>3. QED
      BY <1>6, <2>1, <2>2 DEF DesktopCopies, Wipes, list
  <1>7. CASE Quits
    BY <1>7 DEF Quits, CopiesAreCurrent
  <1>8. CASE Second
    <2> SUFFICES ASSUME running', OnBoard', age' <= ClearAfter, age' <= clock'
                 PROVE  \E i \in DOMAIN accounts' :
                           board' = CurrentCode(accounts'[i], clock' - age')
      BY DEF CopiesAreCurrent
    <2>1. /\ clock \in 0 .. Horizon - 1 /\ clock' = (clock + 1) % Horizon
          /\ age \in 0 .. ClearAfter + 1 /\ UNCHANGED <<accounts, board, running>>
          /\ age' = IF OnBoard /\ age <= ClearAfter THEN age + 1 ELSE age
          /\ ClearAfter \in Nat /\ Horizon \in Nat \ {0}
      BY <1>0, <1>8, CodesAssumption DEF Second, TypeOK, list
    <2>2. OnBoard
      BY <2>1 DEF OnBoard
    <2>3. age <= ClearAfter /\ age' = age + 1
      BY <2>1, <2>2
    <2>4. clock' = IF clock + 1 = Horizon THEN 0 ELSE clock + 1
      BY <2>1, NextSecond
    <2>5. clock' = clock + 1 /\ age <= clock /\ clock' - age' = clock - age
      BY <2>1, <2>3, <2>4
    <2>6. \E i \in DOMAIN accounts : board = CurrentCode(accounts[i], clock - age)
      BY <2>1, <2>2, <2>3, <2>5 DEF CopiesAreCurrent
    <2>7. QED
      BY <2>1, <2>5, <2>6
  <1>9. CASE UNCHANGED vars
    BY <1>0, <1>9, CurrentStays DEF vars, list, clipboard
  <1>10. QED
    BY <1>1, <1>2, <1>3, <1>4, <1>5, <1>6, <1>7, <1>8, <1>9 DEF Next

\* A code that was copied was the one to type when it was copied, from however
\* old a row (ui.rs:281-294).
THEOREM CodesCopyTheCurrent == Spec => []CopiesAreCurrent
  <1>1. Init => CopiesAreCurrent
    BY DEF Init, CopiesAreCurrent, OnBoard
  <1>2. QED
    BY <1>1, CurrentStep, CodesInvariance, PTL DEF Spec

-----------------------------------------------------------------------------
(* The clear of a copied code *)

\* A step that leaves the clipboard alone leaves its timers.
LEMMA TimersStay ==
    ASSUME CodeHasATimer, UNCHANGED clipboard, running' => running
    PROVE  CodeHasATimer'
  BY DEF CodeHasATimer, OnBoard, clipboard

\* Every step leaves a copied code a timer that is due in time.
LEMMA TimerStep == CodesInv /\ CodeHasATimer /\ [Next]_vars => CodeHasATimer'
  <1> SUFFICES ASSUME CodesInv, CodeHasATimer, [Next]_vars PROVE CodeHasATimer'
    OBVIOUS
  <1>0. TypeOK /\ ClearAfter \in Nat \ {0} /\ age \in Nat /\ missed \in BOOLEAN
    BY CodesAssumption DEF CodesInv, TypeOK
  <1> DEFINE Own(t) == /\ t.code = board
                       /\ t.left = IF age < ClearAfter THEN ClearAfter - age ELSE 0
  <1>1. ASSUME NEW i \in DOMAIN rows, Copies(i) PROVE CodeHasATimer'
    <2>1. CASE Puts(Copied(i)) /\ timers' = Scheduled(Copied(i))
      <3> DEFINE t == [code |-> Copied(i), left |-> ClearAfter]
      <3>1. t \in timers' /\ board' = Copied(i) /\ age' = 0
        BY <2>1 DEF Puts, Scheduled
      <3>2. t.code = board' /\ t.left = IF age' < ClearAfter THEN ClearAfter - age' ELSE 0
        BY <1>0, <3>1
      <3> HIDE DEF t
      <3>3. QED
        BY <3>1, <3>2 DEF CodeHasATimer
    <2>2. CASE UNCHANGED clipboard
      BY <1>1, <2>2, TimersStay DEF Copies
    <2>3. QED
      BY <1>1, <2>1, <2>2 DEF Copies
  <1>2. ASSUME NEW t \in timers, Fires(t) PROVE CodeHasATimer'
    <2> SUFFICES ASSUME running', OnBoard', ~missed'
                 PROVE  \/ wiping' /\ age' >= ClearAfter
                        \/ \E u \in timers' : Own(u)'
      BY DEF CodeHasATimer
    <2>1. /\ ~wiping /\ t.left = 0 /\ timers' = timers \ {t}
          /\ UNCHANGED <<board, age, running>>
          /\ \/ wiping' = (board = t.code) /\ UNCHANGED missed
             \/ wiping' = FALSE /\ missed' = Missed(t.code)
      BY <1>2 DEF Fires, EventLoop, Finds
    <2>2. OnBoard /\ ~missed
      <3>1. OnBoard /\ ~missed'
        BY <2>1 DEF OnBoard
      <3>2. QED
        BY <1>0, <2>1, <3>1 DEF Missed
    <2>3. PICK u \in timers : Own(u)
      BY <2>1, <2>2 DEF CodeHasATimer
    <2>4. CASE u = t
      <3>1. board = t.code /\ age >= ClearAfter
        BY <1>0, <2>1, <2>3, <2>4
      <3>2. QED
        BY <2>1, <3>1 DEF Missed
    <2>5. CASE u # t
      BY <2>1, <2>3, <2>5
    <2>6. QED
      BY <2>4, <2>5
  <1>3. CASE DesktopCopies
    BY <1>3 DEF DesktopCopies, Puts, CodeHasATimer, OnBoard
  <1>4. CASE Wipes
    <2>1. CASE Puts(Empty)
      BY <2>1 DEF Puts, CodeHasATimer, OnBoard
    <2>2. CASE UNCHANGED <<board, age>> /\ missed' = Missed(board)
      <3> SUFFICES ASSUME running', OnBoard', ~missed' PROVE \E u \in timers' : Own(u)'
        BY DEF CodeHasATimer
      <3>1. OnBoard /\ ~missed /\ ~(age >= ClearAfter) /\ running
        BY <1>4, <2>2 DEF OnBoard, Missed, Wipes
      <3>2. PICK u \in timers : Own(u)
        BY <3>1 DEF CodeHasATimer
      <3>3. QED
        BY <1>4, <2>2, <3>2 DEF Wipes
    <2>3. QED
      BY <1>4, <2>1, <2>2 DEF Wipes
  <1>5. CASE Quits
    BY <1>5 DEF Quits, CodeHasATimer
  <1>6. CASE Second
    <2> SUFFICES ASSUME running', OnBoard', ~missed'
                 PROVE  \/ wiping' /\ age' >= ClearAfter
                        \/ \E t \in timers' : Own(t)'
      BY DEF CodeHasATimer
    <2>1. /\ UNCHANGED <<board, wiping, running, missed>>
          /\ age' = IF OnBoard /\ age <= ClearAfter THEN age + 1 ELSE age
          /\ timers' = {[t EXCEPT !.left = IF @ > 0 THEN @ - 1 ELSE 0] : t \in timers}
      BY <1>6 DEF Second
    <2>2. CASE wiping /\ age >= ClearAfter
      BY <1>0, <2>1, <2>2
    <2>3. ASSUME NEW t \in timers, Own(t) PROVE \E u \in timers' : Own(u)'
      <3> DEFINE u == [t EXCEPT !.left = IF @ > 0 THEN @ - 1 ELSE 0]
      <3>1. t \in [code : {t.code}, left : 0 .. ClearAfter]
        BY <1>0 DEF TypeOK
      <3>2. /\ u \in timers'
            /\ u.code = t.code
            /\ u.left = IF t.left > 0 THEN t.left - 1 ELSE 0
            /\ t.left \in 0 .. ClearAfter
        BY <2>1, <3>1
      <3> HIDE DEF u
      <3>3. OnBoard
        BY <2>1 DEF OnBoard
      <3>4. u.left = IF age' < ClearAfter THEN ClearAfter - age' ELSE 0
        BY <1>0, <2>1, <2>3, <3>2, <3>3
      <3>5. u.code = board'
        BY <2>1, <2>3, <3>2
      <3>6. QED
        BY <3>2, <3>4, <3>5
    <2>4. QED
      BY <2>1, <2>2, <2>3 DEF CodeHasATimer, OnBoard
  <1>7. CASE UNCHANGED clipboard /\ UNCHANGED running
    BY <1>7, TimersStay
  <1>8. QED
    BY <1>1, <1>2, <1>3, <1>4, <1>5, <1>6, <1>7 DEF Next, Pastes, SyncBrings, Refreshes, vars

\* A copied code has a timer of its own that is due when it has been there for the
\* delay, however many copies, timers and failures there are, until that timer
\* itself finds the clipboard failing (ui.rs:1146-1169).
THEOREM CodesHaveTimers == Spec => []CodeHasATimer
  <1>1. Init => CodeHasATimer
    BY DEF Init, CodeHasATimer, OnBoard
  <1>2. QED
    BY <1>1, TimerStep, CodesInvariance, PTL DEF Spec
=============================================================================
