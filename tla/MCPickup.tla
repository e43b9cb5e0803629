------------------------------ MODULE MCPickup ------------------------------
EXTENDS Pickup, TLC
CONSTANTS d1, u1, u2
\* u1 is the login of the driver, u2 a commercial.
Logins == d1 :> u1
=============================================================================
