------------------------------ MODULE MCSeats ------------------------------
(* Seats on a small instance, for TLC.                                      *)
EXTENDS Seats, TLC

\* Nothing but their identity tells the members of these apart.
Symmetry ==
    Permutations(Requests) \cup Permutations(Emails)
        \cup Permutations(Subs) \cup Permutations(Accounts)
=============================================================================
