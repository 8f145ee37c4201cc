-------------------------------- MODULE MCCodes --------------------------------
EXTENDS Codes

CONSTANTS seed

Param(key, values) == {[key |-> key, value |-> v] : v \in values}
Params == Param("algorithm", {"SHA256", "SHA999"}) \cup Param("digits", {8, 9})
          \cup Param("period", {2, 3, 0}) \cup Param("counter", {NaN})
          \cup Param("issuer", {"other"}) \cup Param("image", {"x"})
          \cup Param("secret", {"not base32"})
Of(scheme, type, prefix, params) ==
    [scheme |-> scheme, type |-> type, prefix |-> prefix, account |-> "alice",
     params |-> params]
Secret == [key |-> "secret", value |-> seed]
Rest(params) == {<<p, q>> : p, q \in params}
MCUri ==
    {Of("otpauth", "totp", "acme", <<Secret>> \o rest) : rest \in {<<>>} \cup Rest(Params)}
    \cup {Of("otpauth", "hotp", "acme", <<Secret>> \o rest) :
             rest \in Rest(Param("counter", {1, NaN}) \cup Param("digits", {8, 9}))}
    \cup {Of("otpauth", "totp", "", params) :
             params \in {<<>>, <<Secret>>} \cup {<<p>> : p \in Params}}
    \cup {Of("otpauth", "steam", "", <<Secret>>), Of("https", "totp", "", <<Secret>>),
          Of("otpauth-migration", "offline", "", <<>>)}

\* Written by other versions: a period of 0, more digits than any code has, a
\* period beyond the view's Int.
Old(digits, period) ==
    StoredAccount([Defaults EXCEPT !.issuer = "old", !.secret = seed,
                                   !.digits = digits, !.period = period]
                  @@ [kind |-> "totp", label |-> <<"old", "bob">>])
MCSynced == {Old(6, 0), Old(9, 2), Old(6, IntMax + 2)}
=============================================================================
