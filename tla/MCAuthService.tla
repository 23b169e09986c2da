---------------------------- MODULE MCAuthService ----------------------------
(* A small instance of AuthService for TLC.                                *)
EXTENDS AuthService

CONSTANTS r1, r2, client, lower, capital, short, long, different,
          employee, hr

TwoRegistrations == {r1, r2}
OneFaulty == {r1}
OneSession == {client}

\* "capital" is "lower" with a capital letter in the domain.
TwoSpellings == {lower, capital}
NormalOfTwo == [s \in Spellings |-> IF s = capital THEN lower ELSE s]

\* "long" has more than 72 bytes, and "short" is the first 72 of them.
ThreePasswords == {short, long, different}
SignificantOfThree == [p \in Passwords |-> IF p = long THEN short ELSE p]

TwoRoles == {employee, hr}

RequestedRoles == [r \in Registrations |-> IF r = r1 THEN employee ELSE hr]
=============================================================================
