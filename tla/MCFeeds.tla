------------------------------ MODULE MCFeeds ------------------------------
\* A small instance of Feeds.  Requests, feeds and addresses are alike.
EXTENDS Feeds, TLC

CONSTANTS r1, r2, f1, f2, a1, a2, i1

Symmetry == Permutations(Requests) \cup Permutations(Feeds) \cup Permutations(Urls)
=============================================================================
