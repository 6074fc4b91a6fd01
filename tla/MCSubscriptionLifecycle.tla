----------------------- MODULE MCSubscriptionLifecycle -----------------------
(* SubscriptionLifecycle on a small instance, for TLC.                      *)
EXTENDS SubscriptionLifecycle, TLC

\* Requests and subscriptions differ in nothing but their identity.
Symmetry == Permutations(Requests) \cup Permutations(Subs)
=============================================================================
