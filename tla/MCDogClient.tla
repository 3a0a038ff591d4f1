----------------------------- MODULE MCDogClient -----------------------------
(* Instances of DogClient for TLC.                                         *)
EXTENDS DogClientProofs, TLC

\* Objects, callers and connections are interchangeable.
Symmetric == Permutations(Objs) \cup Permutations(Callers) \cup Permutations(Conns)

\* The fields of an object nobody points to are never read again.
LiveState == <<callVars, [m \in Objs \ Garbage |-> obj[m]], pool, queue,
               dropped \ Garbage, connVars, mapVars, goVars, netVars>>
=============================================================================
