------------------------------- MODULE Otpauth -------------------------------
(***************************************************************************)
(* Accounts and their codes: src/otp/uri.rs, src/otp/mod.rs and the        *)
(* StoredAccount of src/vault/mod.rs.                                      *)
(*                                                                         *)
(* A URI is what Url::parse finds in it; a parameter that should be a      *)
(* number and is none has the value NaN, and a secret that is not base32   *)
(* or decodes to nothing is not a Seed.  A code stands for the truncated   *)
(* HMAC of its algorithm, secret and counter.                              *)
(***************************************************************************)
EXTENDS Integers, SequencesExt

CONSTANTS Text,    \* what an issuer or the holder of an account is called
          Seed,    \* the secrets that decode to a key
          IntMax,  \* i32::MAX, the largest Int of the view
          None
ASSUME OtpauthAssumption == IntMax \in Nat \ {0} /\ None \notin Seed \cup Text

NaN == -1
Kind == {"totp", "hotp"}
Algorithm == {"SHA1", "SHA256", "SHA512"}

OtpAccount == [kind : Kind, issuer : Text, label : Text \X Text, secret : Seed,
               algorithm : Algorithm, digits : Nat, period : Nat, counter : Nat]
ASSUME NoAccountAssumption == None \notin OtpAccount

\* The parameters a bad value of which refuses the URI.
Valid == [algorithm |-> Algorithm,
          digits    |-> 6 .. 8,
          period    |-> Nat \ {0},
          counter   |-> Nat]
Defaults == [algorithm |-> "SHA1", digits |-> 6, period |-> 30, counter |-> 0,
             secret |-> None, issuer |-> None]

\* One turn of the loop over query_pairs.
Reads_Defaulting(read, p) ==
    IF p.key \notin DOMAIN Defaults \/ (p.key \in DOMAIN Valid /\ p.value \notin Valid[p.key])
    THEN read
    ELSE [read EXCEPT !.fields[p.key] = p.value]
Reads(read, p) ==
    IF ~read.ok \/ p.key \notin DOMAIN Defaults THEN read
    ELSE IF p.key \in DOMAIN Valid /\ p.value \notin Valid[p.key]
         THEN [read EXCEPT !.ok = FALSE]
         ELSE [read EXCEPT !.fields[p.key] = p.value]

\* OtpAccount::from_uri, or None if it is refused.
FromUri(uri) ==
    LET read == FoldLeft(Reads, [ok |-> TRUE, fields |-> Defaults], uri.params)
        fields == read.fields
    IN  IF /\ uri.scheme = "otpauth"
           /\ uri.type \in Kind
           /\ read.ok
           /\ fields.secret \in Seed
           /\ uri.type = "hotp" => \E i \in DOMAIN uri.params : uri.params[i].key = "counter"
        THEN [kind      |-> uri.type,
              issuer    |-> IF fields.issuer # None THEN fields.issuer ELSE uri.prefix,
              label     |-> <<uri.prefix, uri.account>>,
              secret    |-> fields.secret,
              algorithm |-> fields.algorithm,
              digits    |-> fields.digits,
              period    |-> fields.period,
              counter   |-> fields.counter]
        ELSE None

StoredAccount(a) ==
    [id |-> <<a.issuer, a.label>>,
     kind |-> a.kind, issuer |-> a.issuer, label |-> a.label, secret |-> a.secret,
     algorithm |-> a.algorithm, digits |-> a.digits, period |-> a.period,
     counter |-> a.counter]
Stored == [id : Text \X (Text \X Text),
           kind : Kind, issuer : Text, label : Text \X Text, secret : Seed,
           algorithm : Algorithm, digits : Nat, period : Nat, counter : Nat]

-----------------------------------------------------------------------------
(* Codes *)

Undefined == [shown |-> "------"]
Hotp(algorithm, secret, counter, digits) ==
    IF digits \in 6 .. 8
    THEN [algorithm |-> algorithm, secret |-> secret, counter |-> counter, digits |-> digits]
    ELSE Undefined

Step(a) == IF a.period = 0 THEN 1 ELSE a.period   \* period.max(1)
CurrentCode(a, unix) ==
    Hotp(a.algorithm, a.secret,
         IF a.kind = "totp" THEN unix \div Step(a) ELSE a.counter, a.digits)

\* A row of the list, its countdown narrowed to the Int of the view.
Narrowed(n) == ((n + IntMax + 1) % (2 * (IntMax + 1))) - (IntMax + 1)
Remaining_FromOne(a, unix) == Step(a) - ((unix + 1) % Step(a))
Remaining(a, unix) == IF a.kind = "hotp" THEN 0 ELSE Step(a) - (unix % Step(a))
AccountView(a, unix) == [id      |-> a.id,
                         code    |-> CurrentCode(a, unix),
                         seconds |-> Narrowed(Remaining(a, unix))]

-----------------------------------------------------------------------------
(* What is worth enrolling: qr/mod.rs *)

IsMigrationUri(uri) == uri.scheme = "otpauth-migration"
=============================================================================
