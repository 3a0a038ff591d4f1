----------------------------- MODULE OrderedMap ------------------------------
(* utls/orderedmap: a map that remembers the order of insertion, as a value  *)
(* om.  Its list is doubly linked through a root node.  Nodes are numbered   *)
(* as they are created; a deleted node stays reachable through mapper, where *)
(* Delete leaves it.                                                         *)
EXTENDS Naturals, Sequences

Root == 0
Nodes(om) == 0 .. Len(om.key)

With(f, x, v) == [y \in DOMAIN f \cup {x} |-> IF y = x THEN v ELSE f[y]]
Without(f, x) == [y \in DOMAIN f \ {x} |-> f[y]]

NewOrderedMap ==
    [store |-> [k \in {} |-> {}], mapper |-> [k \in {} |-> Root], key |-> <<>>,
     prev |-> [n \in {Root} |-> Root], next |-> [n \in {Root} |-> Root]]

Keys(om) == DOMAIN om.store
Get(om, k) == om.store[k]

\* Mutant: the root does not learn of its new predecessor.
LinkedWithoutTail(om, k) ==
    LET last == om.prev[Root]
        n    == Len(om.key) + 1
    IN  [om EXCEPT !.next = With([@ EXCEPT ![last] = n], n, Root),
                   !.prev = With(@, n, last),
                   !.key = Append(@, k),
                   !.mapper = With(@, k, n)]

\* Mutant: the new node becomes the first one.
LinkedFirst(om, k) ==
    LET first == om.next[Root]
        n     == Len(om.key) + 1
    IN  [om EXCEPT !.next = With([@ EXCEPT ![Root] = n], n, first),
                   !.prev = With([@ EXCEPT ![first] = n], n, Root),
                   !.key = Append(@, k),
                   !.mapper = With(@, k, n)]

\* A new node for k between the last one and the root.
Linked(om, k) ==
    LET last == om.prev[Root]
        n    == Len(om.key) + 1
    IN  [om EXCEPT !.next = With([@ EXCEPT ![last] = n], n, Root),
                   !.prev = With([@ EXCEPT ![Root] = n], n, last),
                   !.key = Append(@, k),
                   !.mapper = With(@, k, n)]

\* A key that is stored keeps its place.
Set(om, k, v) ==
    [(IF k \in Keys(om) THEN om ELSE Linked(om, k)) EXCEPT !.store = With(@, k, v)]

\* The node is looked up in mapper, also when the key has been deleted before.
Delete(om, k) ==
    LET stored == [om EXCEPT !.store = Without(@, k)]
    IN  IF k \notin DOMAIN om.mapper THEN stored
        ELSE LET n == om.mapper[k]
             IN  [stored EXCEPT !.next = [@ EXCEPT ![om.prev[n]] = om.next[n]],
                                !.prev = [@ EXCEPT ![om.next[n]] = om.prev[n]]]

\* The nodes RevIterFunc meets after n.
Behind(om) ==
    LET behind[n \in Nodes(om)] ==
            IF om.prev[n] = Root THEN {} ELSE {om.prev[n]} \cup behind[om.prev[n]]
    IN  behind

\* Links lead from a node to an older one and to a newer one, so that both
\* walks end at the root, whatever was deleted how often.
LinksOrdered(om) ==
    \A n \in Nodes(om) \ {Root} :
        om.prev[n] < n /\ om.next[n] \in {Root} \cup (n + 1) .. Len(om.key)

\* RevIterFunc meets the node of every stored key.
WalkComplete(om) == \A k \in Keys(om) : om.mapper[k] \in Behind(om)[Root]
=============================================================================
