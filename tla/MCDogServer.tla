----------------------------- MODULE MCDogServer -----------------------------
(* Instances of DogServer for TLC.                                         *)
EXTENDS DogServer, TLC

\* Connections and requests are interchangeable.
Symmetric == Permutations(Conns) \cup Permutations(Reqs)
=============================================================================
