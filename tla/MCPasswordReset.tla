-------------------------- MODULE MCPasswordReset --------------------------
\* A small instance of PasswordReset.
EXTENDS PasswordReset

CONSTANTS r1, r2, r3, t1, t2, t3, t4
=============================================================================
