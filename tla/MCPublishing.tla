---------------------------- MODULE MCPublishing ----------------------------
\* A small instance of Publishing and Notifications.
EXTENDS Publishing

CONSTANTS u1, s1, e1, p1
=============================================================================
