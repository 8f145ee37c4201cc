---------------------------- MODULE MCDesktopApp ----------------------------
EXTENDS DesktopApp

CONSTANTS a, b   \* account ids

Hotp(id, n) == [id |-> id, hotp |-> TRUE, counter |-> n]
Totp(id)    == [id |-> id, hotp |-> FALSE, counter |-> 0]

\* What may be enrolled: an HOTP account, possibly twice, and a TOTP one.
MCNewAccounts == {Hotp(a, 0), Totp(b)}
\* Another device that is behind, ahead, or has its own account.
MCRemoteVaults == {<<Hotp(a, 0), Totp(b)>>, <<Hotp(a, 2)>>}
=============================================================================
