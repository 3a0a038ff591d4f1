-------------------------- MODULE MCClientLifecycle --------------------------
(* Instances of ClientLifecycle for TLC.                                   *)
EXTENDS ClientLifecycle, TLC

\* Users, handlers and channels are interchangeable.
Symmetric == Permutations(Users) \cup Permutations(Handlers) \cup Permutations(Chans)
=============================================================================
