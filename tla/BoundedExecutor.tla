--------------------------- MODULE BoundedExecutor ---------------------------
(* What a goroutine pool promises, without its channel and its wait group:   *)
(* a pool never has more than its size of tasks in flight, a refused task    *)
(* never runs, and a join ends only after the tasks handed over before it.   *)
EXTENDS Integers, FiniteSets

CONSTANTS Tasks, Pools
VARIABLES size,     \* how many tasks of a pool may be in flight
          phase,    \* phase[t]: "idle", "flight", "over"
          home,     \* the pool a task was handed to
          due,      \* due[p]: the tasks that a join of p waits for
          join      \* join[p]: "no", "asked", "ended"

vars == <<size, phase, home, due, join>>

InFlight(p) == {t \in Tasks : phase[t] = "flight" /\ home[t] = p}

Init == /\ size \in [Pools -> Nat]
        /\ phase = [t \in Tasks |-> "idle"]
        /\ home \in [Tasks -> Pools]
        /\ due = [p \in Pools |-> {}]
        /\ join = [p \in Pools |-> "no"]

Choose(t) == phase[t] = "idle" /\ \E p \in Pools : home' = [home EXCEPT ![t] = p]

Admit(t) == /\ Choose(t)
            /\ Cardinality(InFlight(home'[t])) < size[home'[t]]
            /\ phase' = [phase EXCEPT ![t] = "flight"]
            /\ UNCHANGED <<size, due, join>>

Refuse(t) == Choose(t) /\ UNCHANGED <<size, phase, due, join>>

Finish(t) == /\ phase[t] = "flight"
             /\ phase' = [phase EXCEPT ![t] = "over"]
             /\ UNCHANGED <<size, home, due, join>>

\* A join asked of some pools waits at least for what is in flight and was accepted.
AskJoin(ps) ==
    /\ \A p \in ps : join[p] = "no"
    /\ \E d \in [ps -> SUBSET Tasks] :
          /\ \A p \in ps : d[p] \subseteq InFlight(p) \cup {t \in Tasks : phase[t] = "over"}
          /\ due' = [p \in Pools |-> IF p \in ps THEN d[p] ELSE due[p]]
    /\ join' = [p \in Pools |-> IF p \in ps THEN "asked" ELSE join[p]]
    /\ UNCHANGED <<size, phase, home>>

EndJoin(p) == /\ join[p] = "asked"
              /\ \A t \in due[p] : phase[t] = "over"
              /\ join' = [join EXCEPT ![p] = "ended"]
              /\ UNCHANGED <<size, phase, home, due>>

Next == \/ \E t \in Tasks : Admit(t) \/ Refuse(t) \/ Finish(t)
        \/ \E ps \in SUBSET Pools : AskJoin(ps)
        \/ \E p \in Pools : EndJoin(p)

Spec == Init /\ [][Next]_vars
=============================================================================
