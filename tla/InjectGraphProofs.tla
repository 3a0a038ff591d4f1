-------------------------- MODULE InjectGraphProofs --------------------------
(* The graph of runtime/inject and the ordered map below it, for any names,   *)
(* types, fields and number of calls: the walk of Close meets every stored    *)
(* key, every object is accounted for and closed once, users are closed       *)
(* before what they use, and Close leaves nothing behind.                     *)
EXTENDS InjectGraph, SequenceTheorems, NaturalsInduction, WellFoundedInduction, TLAPS

\* What is reached from a by steps to the members of D[x], all within S.
IgReach(D, S, a) == {x \in S : \A T \in SUBSET S : D[a] \subseteq T /\ (\A y \in T : D[y] \subseteq T) => x \in T}

LEMMA IgReachIs ==
    ASSUME NEW S, NEW D \in [S -> SUBSET S], NEW a \in S
    PROVE  IgReach(D, S, a) = D[a] \cup UNION {IgReach(D, S, d) : d \in D[a]}
  <1>1. \A b \in S : D[b] \subseteq IgReach(D, S, b)
    BY DEF IgReach
  <1>2. \A b \in S : \A y \in IgReach(D, S, b) : D[y] \subseteq IgReach(D, S, b)
    BY DEF IgReach
  <1> PICK R : R = D[a] \cup UNION {IgReach(D, S, d) : d \in D[a]}
    OBVIOUS
  <1>3. R \in SUBSET S
    BY DEF IgReach
  <1>4. \A y \in R : D[y] \subseteq R
    <2> SUFFICES ASSUME NEW y \in R, NEW z \in D[y] PROVE z \in R
      OBVIOUS
    <2>1. CASE y \in D[a]
      BY <1>1, <2>1
    <2>2. ASSUME NEW d \in D[a], y \in IgReach(D, S, d) PROVE z \in R
      BY <1>2, <2>2
    <2> QED
      BY <2>1, <2>2
  <1>5. IgReach(D, S, a) \subseteq R
    BY <1>3, <1>4 DEF IgReach
  <1>6. R \subseteq IgReach(D, S, a)
    <2> SUFFICES ASSUME NEW d \in D[a] PROVE IgReach(D, S, d) \subseteq IgReach(D, S, a)
      BY <1>1
    <2>1. d \in IgReach(D, S, a)
      BY <1>1
    <2>2. D[d] \subseteq IgReach(D, S, a)
      BY <1>2, <2>1
    <2> QED
      BY <1>2, <2>2 DEF IgReach
  <1> QED
    BY <1>5, <1>6

\* The deps of objects, as they are when an object uses earlier ones.
IgDeps(os) == /\ Len(os) \in Nat /\ \A o \in 1..Len(os) : os[o].deps \subseteq 1..(o - 1)

LEMMA IgUsesIs ==
    ASSUME NEW os, IgDeps(os)
    PROVE  UsesIn(os) = [o \in 1..Len(os) |-> os[o].deps \cup UNION {UsesIn(os)[d] : d \in os[o].deps}]
  <1> PICK S : S = 1..Len(os)
    OBVIOUS
  <1> PICK D : D = [o \in S |-> os[o].deps]
    OBVIOUS
  <1>1. D \in [S -> SUBSET S]
    BY DEF IgDeps
  <1> PICK f : f = [o \in S |-> IgReach(D, S, o)]
    OBVIOUS
  <1>2. ASSUME NEW o \in S PROVE f[o] = os[o].deps \cup UNION {f[d] : d \in os[o].deps}
    <2>1. D[o] = os[o].deps /\ D[o] \subseteq S
      BY <1>1
    <2>2. {f[d] : d \in os[o].deps} = {IgReach(D, S, d) : d \in D[o]}
      BY <2>1
    <2>3. IgReach(D, S, o) = D[o] \cup UNION {IgReach(D, S, d) : d \in D[o]}
      BY ONLY <1>1, <1>2, IgReachIs
    <2> QED
      BY <2>1, <2>2, <2>3
  <1>3. f = [o \in 1..Len(os) |-> os[o].deps \cup UNION {f[d] : d \in os[o].deps}]
    BY <1>2
  <1> DEFINE P(g) == g = [o \in 1..Len(os) |-> os[o].deps \cup UNION {g[d] : d \in os[o].deps}]
  <1>4. P(CHOOSE g : P(g))
    <2> HIDE DEF P
    <2>1. P(f)
      BY <1>3 DEF P
    <2> QED
      BY <2>1, Zenon
  <1>5. UsesIn(os) = CHOOSE g : P(g)
    BY DEF UsesIn
  <1>6. P(UsesIn(os))
    <2> HIDE DEF P
    <2> QED
      BY <1>4, <1>5, Zenon
  <1> QED
    BY <1>6

\* A set of numbers has a least one.
LEMMA IgLeast == ASSUME NEW S \in SUBSET Nat, S # {} PROVE \E m \in S : \A k \in S : m <= k
  <1>1. PICK m \in S : \A k \in S : ~(<<k, m>> \in OpToRel(<, Nat))
    BY NatLessThanWellFounded, WFMin
  <1>2. ASSUME NEW k \in S PROVE m <= k
    <2>1. ~(k < m)
      BY <1>1 DEF OpToRel
    <2> QED
      BY <2>1
  <1> QED
    BY <1>2

\* An object uses earlier ones.
LEMMA IgUsesBelow ==
    ASSUME NEW os, IgDeps(os), NEW o \in 1..Len(os)
    PROVE  UsesIn(os)[o] \subseteq 1..(o - 1)
  <1>0. Len(os) \in Nat /\ \A x \in 1..Len(os) : os[x].deps \subseteq 1..(x - 1)
    BY DEF IgDeps
  <1>1. PICK U : U = UsesIn(os)
    OBVIOUS
  <1>2. \A x \in 1..Len(os) : U[x] = os[x].deps \cup UNION {U[d] : d \in os[x].deps}
    BY <1>1, IgUsesIs
  <1>3. PICK B : B = {x \in 1..Len(os) : ~(U[x] \subseteq 1..(x - 1))}
    OBVIOUS
  <1>4. SUFFICES ASSUME B # {} PROVE FALSE
    BY <1>1, <1>3
  <1>5. B \in SUBSET Nat
    BY <1>0, <1>3
  <1>6. PICK m \in B : \A k \in B : m <= k
    BY <1>4, <1>5, IgLeast
  <1>7. m \in 1..Len(os) /\ os[m].deps \subseteq 1..(m - 1)
    BY <1>0, <1>3
  <1>8. ASSUME NEW d \in os[m].deps PROVE U[d] \subseteq 1..(m - 1)
    <2>1. d \in 1..(m - 1) /\ d \in 1..Len(os)
      BY <1>0, <1>7
    <2>2. d \notin B
      BY <1>0, <1>5, <1>6, <1>7, <2>1
    <2>3. U[d] \subseteq 1..(d - 1)
      BY <1>3, <2>1, <2>2
    <2> QED
      BY <1>0, <1>7, <2>1, <2>3
  <1>9. U[m] \subseteq 1..(m - 1)
    BY <1>2, <1>7, <1>8
  <1> QED
    BY <1>3, <1>6, <1>9

\* What the objects so far use does not depend on later ones.
LEMMA IgUsesSame ==
    ASSUME NEW os, NEW ot, IgDeps(os), IgDeps(ot), Len(os) <= Len(ot),
           \A x \in 1..Len(os) : ot[x].deps = os[x].deps, NEW o \in 1..Len(os)
    PROVE  UsesIn(ot)[o] = UsesIn(os)[o]
  <1>0. Len(os) \in Nat /\ Len(ot) \in Nat /\ \A x \in 1..Len(os) : os[x].deps \subseteq 1..(x - 1)
    BY DEF IgDeps
  <1>1. PICK U, V : U = UsesIn(os) /\ V = UsesIn(ot)
    OBVIOUS
  <1>2. \A x \in 1..Len(os) : U[x] = os[x].deps \cup UNION {U[d] : d \in os[x].deps}
    BY <1>1, IgUsesIs
  <1>3. \A x \in 1..Len(os) : V[x] = os[x].deps \cup UNION {V[d] : d \in os[x].deps}
    <2>1. \A x \in 1..Len(ot) : V[x] = ot[x].deps \cup UNION {V[d] : d \in ot[x].deps}
      BY <1>1, IgUsesIs
    <2>2. \A x \in 1..Len(os) : x \in 1..Len(ot)
      BY <1>0
    <2> QED
      BY <2>1, <2>2
  <1>4. PICK B : B = {x \in 1..Len(os) : V[x] # U[x]}
    OBVIOUS
  <1>5. SUFFICES ASSUME B # {} PROVE FALSE
    BY <1>1, <1>4
  <1>6. B \in SUBSET Nat
    BY <1>0, <1>4
  <1>7. PICK m \in B : \A k \in B : m <= k
    BY <1>5, <1>6, IgLeast
  <1>8. m \in 1..Len(os) /\ os[m].deps \subseteq 1..(m - 1)
    BY <1>0, <1>4
  <1>9. ASSUME NEW d \in os[m].deps PROVE V[d] = U[d]
    <2>1. d \in 1..(m - 1) /\ d \in 1..Len(os)
      BY <1>0, <1>8
    <2>2. d \notin B
      BY <1>0, <1>6, <1>7, <1>8, <2>1
    <2> QED
      BY <1>4, <2>1, <2>2
  <1>10. UNION {V[d] : d \in os[m].deps} = UNION {U[d] : d \in os[m].deps}
    BY <1>9
  <1>11. V[m] = U[m]
    BY <1>2, <1>3, <1>8, <1>10
  <1> QED
    BY <1>4, <1>7, <1>11

\* The backward links of a map, as far as the walk follows them.
OmLinks(om) == /\ Len(om.key) \in Nat /\ om.prev \in [0..Len(om.key) -> 0..Len(om.key)]
               /\ \A n \in 1..Len(om.key) : om.prev[n] < n

\* What the walk meets after a node.
LEMMA OmBehindIs ==
    ASSUME NEW om, OmLinks(om)
    PROVE  Behind(om) = [n \in 0..Len(om.key) |->
                           IF om.prev[n] = Root THEN {} ELSE {om.prev[n]} \cup Behind(om)[om.prev[n]]]
  <1>0. PICK S, p : S = 0..Len(om.key) /\ p = om.prev
    OBVIOUS
  <1>1. p \in [S -> S]
    BY <1>0 DEF OmLinks
  <1>2. PICK D : D = [n \in S |-> IF p[n] = Root THEN {} ELSE {p[n]}]
    OBVIOUS
  <1>3. D \in [S -> SUBSET S] /\ \A n \in S : D[n] = IF p[n] = Root THEN {} ELSE {p[n]}
    BY <1>1, <1>2
  <1>4. PICK f : f = [n \in S |-> IgReach(D, S, n)]
    OBVIOUS
  <1>5. ASSUME NEW n \in S PROVE f[n] = IF p[n] = Root THEN {} ELSE {p[n]} \cup f[p[n]]
    <2>1. f[n] = D[n] \cup UNION {IgReach(D, S, d) : d \in D[n]}
      BY <1>3, <1>4, IgReachIs
    <2>2. CASE p[n] = Root
      BY <1>3, <2>1, <2>2
    <2>3. CASE p[n] # Root
      <3>1. D[n] = {p[n]} /\ p[n] \in S /\ f[p[n]] = IgReach(D, S, p[n])
        BY <1>1, <1>3, <1>4, <2>3
      <3> QED
        BY <2>1, <2>3, <3>1
    <2> QED
      BY <2>2, <2>3
  <1> DEFINE P(g) == g = [n \in 0..Len(om.key) |-> IF om.prev[n] = Root THEN {} ELSE {om.prev[n]} \cup g[om.prev[n]]]
  <1>6. P(f)
    BY <1>0, <1>4, <1>5
  <1>7. P(CHOOSE g : P(g))
    <2> HIDE DEF P
    <2> QED
      BY <1>6, Zenon
  <1>8. Behind(om) = CHOOSE g : P(g)
    BY DEF Behind, Nodes
  <1>9. P(Behind(om))
    <2> HIDE DEF P
    <2> QED
      BY <1>7, <1>8, Zenon
  <1> QED
    BY <1>9

\* The same, of one node.
LEMMA OmBehindAt ==
    ASSUME NEW om, OmLinks(om), NEW n \in 0..Len(om.key)
    PROVE  /\ om.prev[n] = Root => Behind(om)[n] = {}
           /\ om.prev[n] # Root => Behind(om)[n] = {om.prev[n]} \cup Behind(om)[om.prev[n]]
  <1>1. PICK U, S : U = Behind(om) /\ S = 0..Len(om.key)
    OBVIOUS
  <1>2. U = [x \in S |-> IF om.prev[x] = Root THEN {} ELSE {om.prev[x]} \cup U[om.prev[x]]]
    <2>1. Behind(om) = [x \in 0..Len(om.key) |->
                           IF om.prev[x] = Root THEN {} ELSE {om.prev[x]} \cup Behind(om)[om.prev[x]]]
      BY OmBehindIs
    <2> QED
      BY ONLY <1>1, <2>1
  <1>3. n \in S
    BY <1>1
  <1>4. U[n] = IF om.prev[n] = Root THEN {} ELSE {om.prev[n]} \cup U[om.prev[n]]
    BY ONLY <1>2, <1>3, Zenon
  <1> QED
    BY <1>1, <1>4

\* It depends on older nodes only.
LEMMA OmBehindSame ==
    ASSUME NEW om, NEW on, OmLinks(om), OmLinks(on), Len(om.key) <= Len(on.key),
           \A x \in 1..Len(om.key) : on.prev[x] = om.prev[x], NEW n \in 1..Len(om.key)
    PROVE  Behind(on)[n] = Behind(om)[n]
  <1>0. Len(om.key) \in Nat /\ Len(on.key) \in Nat
    BY DEF OmLinks
  <1>1. PICK U, V, p : U = Behind(om) /\ V = Behind(on) /\ p = om.prev
    OBVIOUS
  <1>2. \A x \in 1..Len(om.key) : p[x] \in Nat /\ p[x] < x
    BY <1>0, <1>1 DEF OmLinks
  <1>3. ASSUME NEW x \in 1..Len(om.key)
        PROVE  (p[x] = Root => U[x] = {}) /\ (p[x] # Root => U[x] = {p[x]} \cup U[p[x]])
    <2>1. x \in 0..Len(om.key)
      BY <1>0
    <2> QED
      BY <1>1, <2>1, OmBehindAt
  <1>4. ASSUME NEW x \in 1..Len(om.key)
        PROVE  (p[x] = Root => V[x] = {}) /\ (p[x] # Root => V[x] = {p[x]} \cup V[p[x]])
    <2>1. x \in 0..Len(on.key) /\ on.prev[x] = p[x]
      BY <1>0, <1>1
    <2>2. (on.prev[x] = Root => V[x] = {}) /\ (on.prev[x] # Root => V[x] = {on.prev[x]} \cup V[on.prev[x]])
      BY <1>1, <2>1, OmBehindAt
    <2> QED
      BY <2>1, <2>2
  <1>5. PICK B : B = {x \in 1..Len(om.key) : V[x] # U[x]}
    OBVIOUS
  <1>6. SUFFICES ASSUME B # {} PROVE FALSE
    BY <1>1, <1>5
  <1>7. B \in SUBSET Nat
    BY <1>0, <1>5
  <1>8. PICK m \in B : \A k \in B : m <= k
    BY <1>6, <1>7, IgLeast
  <1>9. m \in 1..Len(om.key) /\ V[m] # U[m]
    BY <1>5
  <1>10. p[m] # Root => p[m] \in 1..Len(om.key) /\ p[m] \notin B
    BY <1>0, <1>2, <1>7, <1>8, <1>9 DEF Root
  <1>11. p[m] # Root => V[p[m]] = U[p[m]]
    BY <1>5, <1>10
  <1>12. V[m] = U[m]
    <2>1. CASE p[m] = Root
      BY <1>3, <1>4, <1>9, <2>1
    <2>2. CASE p[m] # Root
      BY <1>3, <1>4, <1>9, <1>11, <2>2
    <2> QED
      BY <2>1, <2>2
  <1> QED
    BY <1>9, <1>12

IgNames == Names \cup Types
OmShape(om) ==
    om \in [store : {om.store}, mapper : {om.mapper}, key : {om.key}, prev : {om.prev}, next : {om.next}]

OmRelinked(om, a, b, c, d) == [om EXCEPT !.next = a, !.prev = b, !.key = c, !.mapper = d]
LEMMA OmRelinkedFields ==
    ASSUME NEW om, OmShape(om), NEW a, NEW b, NEW c, NEW d
    PROVE  LET on == OmRelinked(om, a, b, c, d)
           IN  OmShape(on) /\ on.store = om.store /\ on.mapper = d /\ on.key = c /\ on.prev = b /\ on.next = a
  BY DEF OmShape, OmRelinked

OmRestored(om, s) == [om EXCEPT !.store = s]
LEMMA OmRestoredFields ==
    ASSUME NEW om, OmShape(om), NEW s
    PROVE  LET on == OmRestored(om, s)
           IN  /\ OmShape(on) /\ on.store = s /\ on.mapper = om.mapper /\ on.key = om.key
               /\ on.prev = om.prev /\ on.next = om.next
  BY DEF OmShape, OmRestored

OmUnlinked(om, a, b) == [om EXCEPT !.next = a, !.prev = b]
LEMMA OmUnlinkedFields ==
    ASSUME NEW om, OmShape(om), NEW a, NEW b
    PROVE  LET on == OmUnlinked(om, a, b)
           IN  OmShape(on) /\ on.store = om.store /\ on.mapper = om.mapper /\ on.key = om.key /\ on.prev = b /\ on.next = a
  BY DEF OmShape, OmUnlinked

LEMMA OmLinkedFields ==
    ASSUME NEW om, OmShape(om), NEW k
    PROVE  /\ OmShape(Linked(om, k))
           /\ Linked(om, k).store = om.store
           /\ Linked(om, k).mapper = With(om.mapper, k, Len(om.key) + 1)
           /\ Linked(om, k).key = Append(om.key, k)
           /\ Linked(om, k).prev = With([om.prev EXCEPT ![Root] = Len(om.key) + 1], Len(om.key) + 1, om.prev[Root])
           /\ Linked(om, k).next = With([om.next EXCEPT ![om.prev[Root]] = Len(om.key) + 1], Len(om.key) + 1, Root)
  <1>1. PICK a, b, c, d : /\ a = With([om.next EXCEPT ![om.prev[Root]] = Len(om.key) + 1], Len(om.key) + 1, Root)
                          /\ b = With([om.prev EXCEPT ![Root] = Len(om.key) + 1], Len(om.key) + 1, om.prev[Root])
                          /\ c = Append(om.key, k) /\ d = With(om.mapper, k, Len(om.key) + 1)
    OBVIOUS
  <1>2. Linked(om, k) = OmRelinked(om, a, b, c, d)
    BY <1>1 DEF Linked, OmRelinked
  <1>3. LET on == OmRelinked(om, a, b, c, d)
        IN  OmShape(on) /\ on.store = om.store /\ on.mapper = d /\ on.key = c /\ on.prev = b /\ on.next = a
    BY OmRelinkedFields
  <1> QED
    BY <1>1, <1>2, <1>3

\* Set of a key that is stored, and of one that is not.
LEMMA OmSetFields ==
    ASSUME NEW om, OmShape(om), NEW k, NEW v
    PROVE  LET ol == IF k \in Keys(om) THEN om ELSE Linked(om, k)
               on == Set(om, k, v)
           IN  /\ OmShape(on) /\ on.store = With(om.store, k, v) /\ on.mapper = ol.mapper /\ on.key = ol.key
               /\ on.prev = ol.prev /\ on.next = ol.next
  <1>1. PICK ol : ol = IF k \in Keys(om) THEN om ELSE Linked(om, k)
    OBVIOUS
  <1>2. OmShape(ol) /\ ol.store = om.store
    BY <1>1, OmLinkedFields
  <1>3. Set(om, k, v) = OmRestored(ol, With(ol.store, k, v))
    BY <1>1 DEF Set, OmRestored
  <1>4. PICK s : s = With(ol.store, k, v)
    OBVIOUS
  <1>5. LET on == OmRestored(ol, s)
        IN  /\ OmShape(on) /\ on.store = s /\ on.mapper = ol.mapper /\ on.key = ol.key
            /\ on.prev = ol.prev /\ on.next = ol.next
    BY <1>2, OmRestoredFields
  <1> QED
    BY <1>1, <1>2, <1>3, <1>4, <1>5

\* Delete of a key that has a node, and of one that never had.
LEMMA OmDeleteFields ==
    ASSUME NEW om, OmShape(om), NEW k
    PROVE  LET n == om.mapper[k]
               on == Delete(om, k)
           IN  /\ OmShape(on) /\ on.store = Without(om.store, k) /\ on.mapper = om.mapper /\ on.key = om.key
               /\ k \notin DOMAIN om.mapper => on.prev = om.prev /\ on.next = om.next
               /\ k \in DOMAIN om.mapper => /\ on.next = [om.next EXCEPT ![om.prev[n]] = om.next[n]]
                                            /\ on.prev = [om.prev EXCEPT ![om.next[n]] = om.prev[n]]
  <1>1. PICK s, n : s = Without(om.store, k) /\ n = om.mapper[k]
    OBVIOUS
  <1>2. PICK ol : ol = OmRestored(om, s)
    OBVIOUS
  <1>3. /\ OmShape(ol) /\ ol.store = s /\ ol.mapper = om.mapper /\ ol.key = om.key
        /\ ol.prev = om.prev /\ ol.next = om.next
    BY <1>2, OmRestoredFields
  <1>4. CASE k \notin DOMAIN om.mapper
    <2>1. Delete(om, k) = ol
      BY <1>1, <1>2, <1>4 DEF Delete, OmRestored
    <2> QED
      BY <1>1, <1>3, <1>4, <2>1
  <1>5. CASE k \in DOMAIN om.mapper
    <2>1. PICK a, b : a = [ol.next EXCEPT ![om.prev[n]] = om.next[n]] /\ b = [ol.prev EXCEPT ![om.next[n]] = om.prev[n]]
      OBVIOUS
    <2>2. Delete(om, k) = OmUnlinked(ol, a, b)
      BY <1>1, <1>2, <1>5, <2>1 DEF Delete, OmRestored, OmUnlinked
    <2>3. LET on == OmUnlinked(ol, a, b)
          IN  OmShape(on) /\ on.store = ol.store /\ on.mapper = ol.mapper /\ on.key = ol.key /\ on.prev = b /\ on.next = a
      BY <1>3, OmUnlinkedFields
    <2> QED
      BY <1>1, <1>3, <1>5, <2>1, <2>2, <2>3
  <1> QED
    BY <1>4, <1>5

OmTypes(om) ==
    /\ om.key \in Seq(IgNames)
    /\ om.store \in [DOMAIN om.store -> Nat] /\ DOMAIN om.store \subseteq DOMAIN om.mapper
    /\ om.mapper \in [DOMAIN om.mapper -> 1..Len(om.key)] /\ DOMAIN om.mapper \subseteq IgNames
    /\ om.prev \in [0..Len(om.key) -> 0..Len(om.key)] /\ om.next \in [0..Len(om.key) -> 0..Len(om.key)]

\* mapper leads to the newest node of a key.
OmNewest(om) ==
    /\ \A k \in DOMAIN om.mapper : om.key[om.mapper[k]] = k
    /\ \A n \in 1..Len(om.key) : om.key[n] \in DOMAIN om.mapper /\ n <= om.mapper[om.key[n]]

OmOk(om) == OmShape(om) /\ OmTypes(om) /\ OmNewest(om) /\ LinksOrdered(om)

OmNewestFrom(L, n, ky, kz, mp, mq, k) ==
    /\ \A j \in DOMAIN mp : mp[j] \in 1..L /\ ky[mp[j]] = j
    /\ \A m \in 1..L : ky[m] \in DOMAIN mp /\ m <= mp[ky[m]]
    /\ kz[n] = k /\ \A m \in 1..L : kz[m] = ky[m]
    /\ mq = With(mp, k, n) /\ L \in Nat /\ n = L + 1
LEMMA OmNewestGrown ==
    ASSUME NEW L, NEW n, NEW ky, NEW kz, NEW mp, NEW mq, NEW k, OmNewestFrom(L, n, ky, kz, mp, mq, k)
    PROVE  /\ \A j \in DOMAIN mq : mq[j] \in 1..n /\ kz[mq[j]] = j
           /\ \A m \in 1..n : kz[m] \in DOMAIN mq /\ m <= mq[kz[m]]
  <1>0. /\ \A j \in DOMAIN mp : mp[j] \in 1..L /\ ky[mp[j]] = j
        /\ \A m \in 1..L : ky[m] \in DOMAIN mp /\ m <= mp[ky[m]]
        /\ kz[n] = k /\ \A m \in 1..L : kz[m] = ky[m]
    BY DEF OmNewestFrom
  <1>00. mq = With(mp, k, n) /\ L \in Nat /\ n = L + 1
    BY DEF OmNewestFrom
  <1>1. DOMAIN mq = DOMAIN mp \cup {k} /\ mq[k] = n /\ \A j \in DOMAIN mp : j # k => mq[j] = mp[j]
    BY <1>00 DEF With
  <1>2. n \in 1..n /\ 1..L \subseteq 1..n
    BY <1>00
  <1>3. ASSUME NEW j \in DOMAIN mq PROVE mq[j] \in 1..n /\ kz[mq[j]] = j
    <2>1. CASE j = k
      BY <1>0, <1>00, <1>1, <1>2, <2>1
    <2>2. CASE j # k
      BY <1>0, <1>00, <1>1, <1>2, <2>2
    <2> QED
      BY <2>1, <2>2
  <1>4. ASSUME NEW m \in 1..n PROVE kz[m] \in DOMAIN mq /\ m <= mq[kz[m]]
    <2>1. CASE m = n
      BY <1>0, <1>00, <1>1, <2>1
    <2>2. CASE m # n
      <3>1. m \in 1..L /\ m <= n
        BY <1>00, <2>2
      <3>2. kz[m] = ky[m] /\ ky[m] \in DOMAIN mp /\ m <= mp[ky[m]]
        BY <1>0, <3>1
      <3>3. CASE ky[m] = k
        BY <1>0, <1>00, <1>1, <3>1, <3>2, <3>3
      <3>4. CASE ky[m] # k
        BY <1>0, <1>00, <1>1, <3>1, <3>2, <3>4
      <3> QED
        BY <3>3, <3>4
    <2> QED
      BY <2>1, <2>2
  <1> QED
    BY <1>3, <1>4

\* Links are ordered, of the links themselves.
OmOrdered(L, p, q) == \A n \in 1..L : p[n] < n /\ (q[n] = 0 \/ q[n] \in (n + 1)..L)
LEMMA OmOrderedIs ==
    ASSUME NEW om, Len(om.key) \in Nat
    PROVE  LinksOrdered(om) <=> OmOrdered(Len(om.key), om.prev, om.next)
  <1>1. (0..Len(om.key)) \ {0} = 1..Len(om.key)
    OBVIOUS
  <1> QED
    BY <1>1 DEF LinksOrdered, OmOrdered, Nodes, Root

LEMMA OmOrderedGrown ==
    ASSUME NEW L \in Nat, NEW n, n = L + 1, NEW p, NEW q, NEW a, NEW b, OmOrdered(L, p, q),
           b[n] \in 0..L, \A m \in 1..L : b[m] = p[m], a[n] = 0, \A m \in 1..L : a[m] = q[m] \/ a[m] = n
    PROVE  OmOrdered(n, b, a)
  <1> SUFFICES ASSUME NEW m \in 1..n PROVE b[m] < m /\ (a[m] = 0 \/ a[m] \in (m + 1)..n)
    BY DEF OmOrdered
  <1>1. CASE m = n
    BY <1>1
  <1>2. CASE m # n
    <2>1. m \in 1..L
      BY <1>2
    <2>2. p[m] < m /\ (q[m] = 0 \/ q[m] \in (m + 1)..L)
      BY <2>1 DEF OmOrdered
    <2> QED
      BY <2>1, <2>2
  <1> QED
    BY <1>1, <1>2

OmLinksFrom(L, n, p, l, x, b) ==
    /\ L \in Nat /\ n \in Nat /\ n = L + 1 /\ p \in [0..L -> 0..L] /\ l \in 0..L /\ x \in 0..n
    /\ b = With([p EXCEPT ![l] = n], n, x)
LEMMA OmGrownLinks ==
    ASSUME NEW L, NEW n, NEW p, NEW l, NEW x, NEW b, OmLinksFrom(L, n, p, l, x, b)
    PROVE  b \in [0..n -> 0..n] /\ b[l] = n /\ b[n] = x /\ \A m \in 0..L : m # l => b[m] = p[m]
  <1>0. L \in Nat /\ n \in Nat /\ n = L + 1 /\ p \in [0..L -> 0..L] /\ l \in 0..L /\ x \in 0..n
    BY DEF OmLinksFrom
  <1>1. PICK c : c = [p EXCEPT ![l] = n]
    OBVIOUS
  <1>2. c \in [0..L -> 0..n] /\ c[l] = n /\ (\A m \in 0..L : m # l => c[m] = p[m]) /\ p[0] \in 0..n
    BY ONLY <1>0, <1>1
  <1>3. n \notin 0..L /\ (0..L) \cup {n} = 0..n /\ 0 \in 0..L /\ \A m \in 1..L : m \in 0..L
    BY ONLY <1>0
  <1>4. b = With(c, n, x)
    BY <1>1 DEF OmLinksFrom
  <1>5. l \in 0..L /\ x \in 0..n
    BY ONLY <1>0
  <1> QED
    BY ONLY <1>2, <1>3, <1>4, <1>5 DEF With
LEMMA OmGrownKeys ==
    ASSUME NEW S, NEW ky \in Seq(S), NEW k \in S, NEW n, n = Len(ky) + 1, NEW kz, kz = Append(ky, k)
    PROVE  kz \in Seq(S) /\ Len(kz) = n /\ kz[n] = k /\ \A m \in 1..Len(ky) : kz[m] = ky[m]
  OBVIOUS

\* A new node.
OmGrown(om, ol, k) ==
    /\ OmOk(ol) /\ Len(ol.key) = Len(om.key) + 1 /\ ol.store = om.store
    /\ k \in DOMAIN ol.mapper /\ ol.mapper[k] = Len(om.key) + 1 /\ DOMAIN om.mapper \subseteq DOMAIN ol.mapper
    /\ \A j \in DOMAIN om.mapper : j # k => ol.mapper[j] = om.mapper[j]
    /\ ol.prev[Root] = Len(om.key) + 1 /\ ol.prev[Len(om.key) + 1] = om.prev[Root]
    /\ \A m \in 1..Len(om.key) : ol.prev[m] = om.prev[m]
LEMMA OmLinkedOk ==
    ASSUME NEW om, OmOk(om), NEW k \in IgNames
    PROVE  OmGrown(om, Linked(om, k), k)
  <1>0. OmShape(om) /\ OmTypes(om) /\ OmNewest(om) /\ LinksOrdered(om)
    BY DEF OmOk
  <1>1. PICK L, n, ol, ky, mp, p, q : /\ L = Len(om.key) /\ n = L + 1 /\ ol = Linked(om, k)
                                      /\ ky = om.key /\ mp = om.mapper /\ p = om.prev /\ q = om.next
    OBVIOUS
  <1>2. /\ OmShape(ol) /\ ol.store = om.store /\ ol.mapper = With(mp, k, n) /\ ol.key = Append(ky, k)
        /\ ol.prev = With([p EXCEPT ![0] = n], n, p[0]) /\ ol.next = With([q EXCEPT ![p[0]] = n], n, 0)
    BY <1>0, <1>1, OmLinkedFields DEF Root
  <1>3. /\ L \in Nat /\ ky \in Seq(IgNames) /\ Len(ky) = L /\ p \in [0..L -> 0..L] /\ q \in [0..L -> 0..L]
        /\ DOMAIN mp \subseteq IgNames
    BY <1>0, <1>1 DEF OmTypes
  <1>4. /\ \A j \in DOMAIN mp : mp[j] \in 1..L /\ ky[mp[j]] = j
        /\ \A m \in 1..L : ky[m] \in DOMAIN mp /\ m <= mp[ky[m]]
    BY <1>0, <1>1 DEF OmTypes, OmNewest
  <1>5. PICK kz, mq, b, a : /\ kz = Append(ky, k) /\ mq = With(mp, k, n)
                            /\ b = With([p EXCEPT ![0] = n], n, p[0]) /\ a = With([q EXCEPT ![p[0]] = n], n, 0)
    OBVIOUS
  <1>6. n = L + 1 /\ n \in Nat
    <2>1. L \in Nat
      BY <1>3
    <2>2. n = L + 1
      BY <1>1
    <2> QED
      BY ONLY <2>1, <2>2
  <1>7. kz \in Seq(IgNames) /\ Len(kz) = n /\ kz[n] = k /\ \A m \in 1..L : kz[m] = ky[m]
    <2>1. ky \in Seq(IgNames) /\ k \in IgNames /\ n = Len(ky) + 1 /\ kz = Append(ky, k) /\ Len(ky) = L
      BY <1>3, <1>5, <1>6
    <2> QED
      BY ONLY <2>1, OmGrownKeys
  <1>8. /\ \A j \in DOMAIN mq : mq[j] \in 1..n /\ kz[mq[j]] = j
        /\ \A m \in 1..n : kz[m] \in DOMAIN mq /\ m <= mq[kz[m]]
    <2>1. mq = With(mp, k, n) /\ kz[n] = k /\ (\A m \in 1..L : kz[m] = ky[m]) /\ L \in Nat
      BY <1>3, <1>5, <1>7
    <2>2. OmNewestFrom(L, n, ky, kz, mp, mq, k)
      BY ONLY <1>4, <1>6, <2>1 DEF OmNewestFrom
    <2> QED
      BY ONLY <1>4, <1>6, <2>1, <2>2, OmNewestGrown
  <1>9. b \in [0..n -> 0..n] /\ b[0] = n /\ b[n] = p[0] /\ \A m \in 1..L : b[m] = p[m]
    <2>1. L \in Nat /\ n \in Nat /\ n = L + 1 /\ p \in [0..L -> 0..L] /\ b = With([p EXCEPT ![0] = n], n, p[0])
      BY <1>3, <1>5, <1>6
    <2>2. 0 \in 0..L /\ p[0] \in 0..n /\ \A m \in 1..L : m \in 0..L /\ m # 0
      BY ONLY <2>1
    <2>4. OmLinksFrom(L, n, p, 0, p[0], b)
      BY ONLY <2>1, <2>2 DEF OmLinksFrom
    <2>3. b \in [0..n -> 0..n] /\ b[0] = n /\ b[n] = p[0] /\ \A m \in 0..L : m # 0 => b[m] = p[m]
      BY ONLY <2>4, OmGrownLinks
    <2> QED
      BY ONLY <2>2, <2>3
  <1>10. a \in [0..n -> 0..n] /\ a[n] = 0 /\ \A m \in 1..L : a[m] = q[m] \/ a[m] = n
    <2>1. /\ L \in Nat /\ n \in Nat /\ n = L + 1 /\ q \in [0..L -> 0..L] /\ p \in [0..L -> 0..L]
          /\ a = With([q EXCEPT ![p[0]] = n], n, 0)
      BY <1>3, <1>5, <1>6
    <2>2. 0 \in 0..n /\ p[0] \in 0..L /\ \A m \in 1..L : m \in 0..L
      BY ONLY <2>1
    <2>3. PICK l : l = p[0]
      OBVIOUS
    <2>5. OmLinksFrom(L, n, q, l, 0, a)
      BY ONLY <2>1, <2>2, <2>3 DEF OmLinksFrom
    <2>4. a \in [0..n -> 0..n] /\ a[l] = n /\ a[n] = 0 /\ \A m \in 0..L : m # l => a[m] = q[m]
      BY ONLY <2>5, OmGrownLinks
    <2> QED
      BY ONLY <2>2, <2>4
  <1>11. OmOrdered(n, b, a)
    <2>1. OmOrdered(L, p, q)
      BY <1>0, <1>1, <1>3, OmOrderedIs
    <2>2. b[n] \in 0..L
      BY <1>3, <1>9
    <2> QED
      BY ONLY <1>3, <1>6, <1>9, <1>10, <2>1, <2>2, OmOrderedGrown
  <1>12. DOMAIN mq = DOMAIN mp \cup {k} /\ mq[k] = n /\ \A j \in DOMAIN mp : j # k => mq[j] = mp[j]
    BY ONLY <1>5 DEF With
  <1>13. mq \in [DOMAIN mq -> 1..n]
    BY ONLY <1>5, <1>8 DEF With
  <1>14. ol.key = kz /\ ol.mapper = mq /\ ol.prev = b /\ ol.next = a /\ ol.store = om.store
    BY <1>2, <1>5
  <1>15. OmTypes(ol)
    BY <1>0, <1>1, <1>3, <1>7, <1>9, <1>10, <1>12, <1>13, <1>14 DEF OmTypes
  <1>16. OmNewest(ol)
    BY <1>7, <1>8, <1>14 DEF OmNewest
  <1>17. LinksOrdered(ol)
    BY <1>3, <1>6, <1>7, <1>11, <1>14, OmOrderedIs
  <1> QED
    BY <1>1, <1>2, <1>6, <1>7, <1>9, <1>12, <1>14, <1>15, <1>16, <1>17 DEF OmGrown, OmOk, Root

\* The links of a map that is in order lead to older nodes.
LEMMA OmOkLinks == ASSUME NEW om, OmOk(om) PROVE OmLinks(om)
  <1>1. OmTypes(om) /\ LinksOrdered(om)
    BY DEF OmOk
  <1>2. Len(om.key) \in Nat /\ om.prev \in [0..Len(om.key) -> 0..Len(om.key)]
    BY <1>1 DEF OmTypes
  <1>3. OmOrdered(Len(om.key), om.prev, om.next)
    BY <1>1, <1>2, OmOrderedIs
  <1> QED
    BY <1>2, <1>3 DEF OmLinks, OmOrdered

\* Behind a node are older ones.
LEMMA OmBehindBelow ==
    ASSUME NEW om, OmLinks(om), NEW n \in 1..Len(om.key)
    PROVE  Behind(om)[n] \subseteq 1..(n - 1)
  <1>1. PICK U, p, L : U = Behind(om) /\ p = om.prev /\ L = Len(om.key)
    OBVIOUS
  <1>2. L \in Nat
    BY <1>1 DEF OmLinks
  <1>3. \A x \in 1..L : p[x] \in Nat /\ p[x] < x
    BY <1>1 DEF OmLinks
  <1>4. ASSUME NEW x \in 1..L
        PROVE  (p[x] = 0 => U[x] = {}) /\ (p[x] # 0 => U[x] = {p[x]} \cup U[p[x]])
    <2>1. x \in 0..Len(om.key)
      BY <1>1, <1>2
    <2> QED
      BY <1>1, <2>1, OmBehindAt DEF Root
  <1>5. PICK B : B = {x \in 1..L : ~(U[x] \subseteq 1..(x - 1))}
    OBVIOUS
  <1>6. SUFFICES ASSUME B # {} PROVE FALSE
    BY <1>1, <1>5
  <1>7. B \in SUBSET Nat
    BY <1>2, <1>5
  <1>8. PICK m \in B : \A k \in B : m <= k
    BY <1>6, <1>7, IgLeast
  <1>9. m \in 1..L /\ m \in Nat /\ p[m] \in Nat /\ p[m] < m
    BY <1>3, <1>5, <1>7
  <1>10. U[m] \subseteq 1..(m - 1)
    <2>1. CASE p[m] = 0
      BY <1>4, <1>9, <2>1
    <2>2. CASE p[m] # 0
      <3>1. p[m] \in 1..L /\ p[m] \in 1..(m - 1)
        BY <1>2, <1>9, <2>2
      <3>2. p[m] \notin B
        BY <1>7, <1>8, <1>9
      <3>3. U[p[m]] \subseteq 1..(p[m] - 1)
        BY <1>5, <3>1, <3>2
      <3>4. 1..(p[m] - 1) \subseteq 1..(m - 1)
        BY <1>9
      <3> QED
        BY <1>4, <1>9, <2>2, <3>1, <3>3, <3>4
    <2> QED
      BY <2>1, <2>2
  <1> QED
    BY <1>5, <1>8, <1>10

\* The walk still meets what it met before, and the new node.
LEMMA OmGrownMeets ==
    ASSUME NEW om, NEW ol, NEW k, OmOk(om), OmGrown(om, ol, k)
    PROVE  Behind(ol)[Root] = Behind(om)[Root] \cup {Len(om.key) + 1}
  <1>1. OmLinks(om) /\ OmLinks(ol) /\ Len(ol.key) = Len(om.key) + 1
    BY OmOkLinks DEF OmGrown
  <1>2. PICK L, n, U, V : L = Len(om.key) /\ n = L + 1 /\ U = Behind(om) /\ V = Behind(ol)
    OBVIOUS
  <1>3. L \in Nat /\ n \in Nat /\ 0 \in 0..L /\ 0 \in 0..n /\ n \in 0..n /\ n # 0 /\ L <= n
    <2>1. L \in Nat /\ n = L + 1
      BY <1>1, <1>2 DEF OmLinks
    <2> QED
      BY ONLY <2>1
  <1>4. ol.prev[0] = n /\ ol.prev[n] = om.prev[0] /\ \A m \in 1..L : ol.prev[m] = om.prev[m]
    BY <1>2 DEF OmGrown, Root
  <1>5. V[0] = {n} \cup V[n]
    <2>1. 0 \in 0..Len(ol.key) /\ ol.prev[0] # Root
      BY <1>1, <1>2, <1>3, <1>4 DEF Root
    <2> QED
      BY <1>1, <1>2, <1>4, <2>1, OmBehindAt
  <1>6. (om.prev[0] = 0 => U[0] = {}) /\ (om.prev[0] # 0 => U[0] = {om.prev[0]} \cup U[om.prev[0]])
    <2>1. 0 \in 0..Len(om.key)
      BY <1>2, <1>3
    <2> QED
      BY <1>1, <1>2, <2>1, OmBehindAt DEF Root
  <1>7. (om.prev[0] = 0 => V[n] = {}) /\ (om.prev[0] # 0 => V[n] = {om.prev[0]} \cup V[om.prev[0]])
    <2>1. n \in 0..Len(ol.key)
      BY <1>1, <1>2, <1>3
    <2>2. (ol.prev[n] = Root => V[n] = {}) /\ (ol.prev[n] # Root => V[n] = {ol.prev[n]} \cup V[ol.prev[n]])
      BY <1>1, <1>2, <2>1, OmBehindAt
    <2> QED
      BY <1>4, <2>2 DEF Root
  <1>8. om.prev[0] # 0 => V[om.prev[0]] = U[om.prev[0]]
    <2>1. om.prev[0] \in 0..L
      BY <1>1, <1>2, <1>3 DEF OmLinks
    <2>2. om.prev[0] # 0 => om.prev[0] \in 1..L
      BY <1>3, <2>1
    <2>3. Len(om.key) <= Len(ol.key) /\ \A x \in 1..Len(om.key) : ol.prev[x] = om.prev[x]
      BY <1>1, <1>2, <1>3, <1>4
    <2> QED
      BY <1>1, <1>2, <2>2, <2>3, OmBehindSame
  <1>9. V[0] = U[0] \cup {n}
    BY <1>5, <1>6, <1>7, <1>8
  <1> QED
    BY <1>2, <1>9 DEF Root

\* What Set does: one key gets a value, and a place behind all others if it has none.
OmSetTo(om, on, k, v) ==
    /\ OmOk(on) /\ Keys(on) = Keys(om) \cup {k} /\ Get(on, k) = v
    /\ \A j \in Keys(om) : j # k => Get(on, j) = Get(om, j)
    /\ \A j \in Keys(om) : on.mapper[j] = om.mapper[j]
    /\ k \notin Keys(om) => \A j \in Keys(om) : om.mapper[j] < on.mapper[k]
    /\ Len(om.key) <= Len(on.key)
    /\ WalkComplete(om) => WalkComplete(on)
LEMMA OmSetOk ==
    ASSUME NEW om, OmOk(om), NEW k \in IgNames, NEW v \in Nat
    PROVE  OmSetTo(om, Set(om, k, v), k, v)
  <1>1. PICK ol, on : ol = (IF k \in Keys(om) THEN om ELSE Linked(om, k)) /\ on = Set(om, k, v)
    OBVIOUS
  <1>2. OmShape(om) /\ OmTypes(om) /\ Len(om.key) \in Nat
    BY DEF OmOk, OmTypes
  <1>3. /\ OmShape(on) /\ on.store = With(om.store, k, v) /\ on.mapper = ol.mapper /\ on.key = ol.key
        /\ on.prev = ol.prev /\ on.next = ol.next
    BY <1>1, <1>2, OmSetFields
  <1>4. OmOk(ol) /\ ol.store = om.store /\ k \in DOMAIN ol.mapper /\ DOMAIN om.mapper \subseteq DOMAIN ol.mapper
    <2>1. CASE k \in Keys(om)
      BY <1>1, <1>2, <2>1 DEF OmTypes, Keys
    <2>2. CASE k \notin Keys(om)
      BY <1>1, <2>2, OmLinkedOk DEF OmGrown
    <2> QED
      BY <2>1, <2>2
  <1>5. /\ \A j \in Keys(om) : ol.mapper[j] = om.mapper[j]
        /\ k \notin Keys(om) => \A j \in Keys(om) : om.mapper[j] < ol.mapper[k]
        /\ Len(om.key) <= Len(ol.key)
    <2>1. CASE k \in Keys(om)
      BY <1>1, <1>2, <2>1
    <2>2. CASE k \notin Keys(om)
      <3>1. OmGrown(om, ol, k)
        BY <1>1, <2>2, OmLinkedOk
      <3>2. ASSUME NEW j \in Keys(om) PROVE ol.mapper[j] = om.mapper[j] /\ om.mapper[j] \in 1..Len(om.key)
        BY <1>2, <2>2, <3>1 DEF OmGrown, OmTypes, Keys
      <3>3. ol.mapper[k] = Len(om.key) + 1 /\ Len(ol.key) = Len(om.key) + 1
        BY <3>1 DEF OmGrown
      <3> QED
        BY <1>2, <2>2, <3>2, <3>3
    <2> QED
      BY <2>1, <2>2
  <1>6. /\ DOMAIN on.store = DOMAIN om.store \cup {k} /\ on.store[k] = v
        /\ \A j \in DOMAIN om.store : j # k => on.store[j] = om.store[j]
    BY <1>3 DEF With
  <1>7. OmOk(on)
    <2>1. on.store \in [DOMAIN on.store -> Nat]
      <3>1. om.store \in [DOMAIN om.store -> Nat] /\ v \in Nat /\ on.store = With(om.store, k, v)
        BY <1>2, <1>3 DEF OmTypes
      <3> QED
        BY ONLY <3>1 DEF With
    <2>2. DOMAIN on.store \subseteq DOMAIN on.mapper
      BY <1>2, <1>3, <1>4, <1>6 DEF OmTypes
    <2>3. OmTypes(ol) /\ OmNewest(ol) /\ LinksOrdered(ol)
      BY <1>4 DEF OmOk
    <2>4. OmTypes(on)
      BY <1>3, <2>1, <2>2, <2>3 DEF OmTypes
    <2>5. OmNewest(on)
      BY <1>3, <2>3 DEF OmNewest
    <2>6. LinksOrdered(on)
      BY <1>3, <2>3 DEF LinksOrdered, Nodes
    <2> QED
      BY <1>3, <2>4, <2>5, <2>6 DEF OmOk
  <1>8. WalkComplete(om) => WalkComplete(on)
    <2>1. Behind(on) = Behind(ol)
      BY <1>3 DEF Behind, Nodes
    <2>2. CASE k \in Keys(om)
      BY <1>1, <1>3, <1>6, <2>1, <2>2 DEF WalkComplete, Keys
    <2>3. CASE k \notin Keys(om)
      <3>1. OmGrown(om, ol, k)
        BY <1>1, <2>3, OmLinkedOk
      <3>2. Behind(on)[Root] = Behind(om)[Root] \cup {Len(om.key) + 1}
        BY <2>1, <3>1, OmGrownMeets
      <3>3. on.mapper[k] = Len(om.key) + 1 /\ \A j \in Keys(om) : on.mapper[j] = om.mapper[j]
        BY <1>3, <1>5, <3>1 DEF OmGrown
      <3>4. Keys(on) = Keys(om) \cup {k}
        BY <1>6 DEF Keys
      <3> QED
        BY ONLY <3>2, <3>3, <3>4 DEF WalkComplete
    <2> QED
      BY <2>2, <2>3
  <1> QED
    BY <1>1, <1>3, <1>5, <1>6, <1>7, <1>8 DEF OmSetTo, Keys, Get

\* What Delete does, of a key that was deleted before too: the node it finds may be
\* out of the list, and its neighbours are linked past it again.
OmDeletedTo(om, on, k) ==
    /\ OmOk(on) /\ Keys(on) = Keys(om) \ {k} /\ on.key = om.key
OmUnlinkedFrom(L, p, q, n, b, a) ==
    /\ L \in Nat /\ p \in [0..L -> 0..L] /\ q \in [0..L -> 0..L] /\ OmOrdered(L, p, q) /\ n \in 1..L
    /\ a = [q EXCEPT ![p[n]] = q[n]] /\ b = [p EXCEPT ![q[n]] = p[n]]
LEMMA OmDeleteOrdered ==
    ASSUME NEW L, NEW p, NEW q, NEW n, NEW b, NEW a, OmUnlinkedFrom(L, p, q, n, b, a)
    PROVE  a \in [0..L -> 0..L] /\ b \in [0..L -> 0..L] /\ OmOrdered(L, b, a)
  <1>1. PICK x, y : x = p[n] /\ y = q[n]
    OBVIOUS
  <1>2. L \in Nat /\ p \in [0..L -> 0..L] /\ q \in [0..L -> 0..L] /\ n \in 1..L
    BY DEF OmUnlinkedFrom
  <1>3. \A m \in 1..L : p[m] < m /\ (q[m] = 0 \/ q[m] \in (m + 1)..L)
    BY DEF OmUnlinkedFrom, OmOrdered
  <1>4. x \in 0..L /\ y \in 0..L /\ x < n /\ (y = 0 \/ y \in (n + 1)..L)
    BY ONLY <1>1, <1>2, <1>3
  <1>5. a = [q EXCEPT ![x] = y] /\ b = [p EXCEPT ![y] = x]
    BY <1>1 DEF OmUnlinkedFrom
  <1>6. a \in [0..L -> 0..L] /\ b \in [0..L -> 0..L]
    BY ONLY <1>2, <1>4, <1>5
  <1>7. ASSUME NEW m \in 1..L PROVE b[m] < m
    <2>1. m \in 0..L /\ p[m] < m
      BY ONLY <1>2, <1>3, <1>7
    <2>2. CASE m = y
      <3>1. b[m] = x
        BY ONLY <1>2, <1>5, <2>1, <2>2
      <3>2. n < m
        BY ONLY <1>2, <1>4, <1>7, <2>2
      <3> QED
        BY ONLY <1>2, <1>4, <3>1, <3>2
    <2>3. CASE m # y
      BY ONLY <1>2, <1>5, <2>1, <2>3
    <2> QED
      BY <2>2, <2>3
  <1>8. ASSUME NEW m \in 1..L PROVE a[m] = 0 \/ a[m] \in (m + 1)..L
    <2>1. m \in 0..L /\ (q[m] = 0 \/ q[m] \in (m + 1)..L)
      BY ONLY <1>2, <1>3, <1>8
    <2>2. CASE m = x
      <3>1. a[m] = y
        BY ONLY <1>2, <1>5, <2>1, <2>2
      <3> QED
        BY ONLY <1>2, <1>4, <1>8, <2>2, <3>1
    <2>3. CASE m # x
      BY ONLY <1>2, <1>5, <2>1, <2>3
    <2> QED
      BY <2>2, <2>3
  <1> QED
    BY <1>6, <1>7, <1>8 DEF OmOrdered
LEMMA OmDeleteOk ==
    ASSUME NEW om, OmOk(om), NEW k
    PROVE  OmDeletedTo(om, Delete(om, k), k)
  <1>1. PICK on, L, n : on = Delete(om, k) /\ L = Len(om.key) /\ n = om.mapper[k]
    OBVIOUS
  <1>2. OmShape(om) /\ OmTypes(om) /\ OmNewest(om) /\ LinksOrdered(om)
    BY DEF OmOk
  <1>3. /\ OmShape(on) /\ on.store = Without(om.store, k) /\ on.mapper = om.mapper /\ on.key = om.key
        /\ k \notin DOMAIN om.mapper => on.prev = om.prev /\ on.next = om.next
        /\ k \in DOMAIN om.mapper => /\ on.next = [om.next EXCEPT ![om.prev[n]] = om.next[n]]
                                     /\ on.prev = [om.prev EXCEPT ![om.next[n]] = om.prev[n]]
    BY <1>1, <1>2, OmDeleteFields
  <1>4. L \in Nat /\ om.prev \in [0..L -> 0..L] /\ om.next \in [0..L -> 0..L]
    BY <1>1, <1>2 DEF OmTypes
  <1>5. OmOrdered(L, om.prev, om.next)
    BY <1>1, <1>2, <1>4, OmOrderedIs
  <1>6. on.next \in [0..L -> 0..L] /\ on.prev \in [0..L -> 0..L] /\ OmOrdered(L, on.prev, on.next)
    <2>1. CASE k \notin DOMAIN om.mapper
      BY <1>3, <1>4, <1>5, <2>1
    <2>2. CASE k \in DOMAIN om.mapper
      <3>1. n \in 1..L
        BY <1>1, <1>2, <2>2 DEF OmTypes
      <3>2. on.next = [om.next EXCEPT ![om.prev[n]] = om.next[n]] /\ on.prev = [om.prev EXCEPT ![om.next[n]] = om.prev[n]]
        BY <1>3, <2>2
      <3>3. OmUnlinkedFrom(L, om.prev, om.next, n, on.prev, on.next)
        BY ONLY <1>4, <1>5, <3>1, <3>2 DEF OmUnlinkedFrom
      <3> QED
        BY ONLY <3>3, OmDeleteOrdered
    <2> QED
      BY <2>1, <2>2
  <1>7. DOMAIN on.store = DOMAIN om.store \ {k} /\ \A j \in DOMAIN on.store : on.store[j] = om.store[j]
    BY <1>3 DEF Without
  <1>8. OmTypes(on)
    <2>1. on.store \in [DOMAIN on.store -> Nat]
      <3>1. om.store \in [DOMAIN om.store -> Nat] /\ on.store = Without(om.store, k)
        BY <1>2, <1>3 DEF OmTypes
      <3> QED
        BY ONLY <3>1 DEF Without
    <2> QED
      BY <1>1, <1>2, <1>3, <1>6, <1>7, <2>1 DEF OmTypes
  <1>9. OmNewest(on)
    BY <1>2, <1>3 DEF OmNewest
  <1>10. LinksOrdered(on)
    BY <1>1, <1>3, <1>4, <1>6, OmOrderedIs
  <1> QED
    BY <1>1, <1>3, <1>7, <1>8, <1>9, <1>10 DEF OmDeletedTo, OmOk, Keys

\* The maps on the way, after each of the first m deletions.
OmAfter(om, ks, m, g) == g = [i \in 0..m |-> IF i = 0 THEN om ELSE Delete(g[i - 1], ks[i])]
LEMMA OmAfterMore ==
    ASSUME NEW om, NEW ks, NEW m \in Nat, NEW g, OmAfter(om, ks, m, g)
    PROVE  \E h : OmAfter(om, ks, m + 1, h)
  <1>1. PICK M : M = m + 1
    OBVIOUS
  <1>2. PICK d, h : d = Delete(g[m], ks[M]) /\ h = [i \in 0..M |-> IF i = M THEN d ELSE g[i]]
    OBVIOUS
  <1>3. M \in Nat /\ M # 0 /\ M - 1 = m /\ \A i \in 0..M : i # M => i \in 0..m
    BY <1>1
  <1>4. \A i \in 0..m : g[i] = IF i = 0 THEN om ELSE Delete(g[i - 1], ks[i])
    BY Zenon DEF OmAfter
  <1>5. ASSUME NEW i \in 0..M PROVE h[i] = IF i = 0 THEN om ELSE Delete(h[i - 1], ks[i])
    <2>1. CASE i = M
      <3>1. h[i] = d /\ h[i - 1] = g[m] /\ i # 0
        BY <1>2, <1>3, <2>1
      <3> QED
        BY <1>2, <2>1, <3>1
    <2>2. CASE i # M
      <3>1. i \in 0..m /\ h[i] = g[i]
        BY <1>2, <1>3, <2>2
      <3>2. CASE i = 0
        BY <1>4, <3>1, <3>2
      <3>3. CASE i # 0
        <4>1. i - 1 \in 0..M /\ i - 1 # M
          BY <1>3, <3>1, <3>3
        <4>2. h[i - 1] = g[i - 1]
          BY <1>2, <4>1
        <4> QED
          BY <1>4, <3>1, <3>3, <4>2
      <3> QED
        BY <3>2, <3>3
    <2> QED
      BY <2>1, <2>2
  <1>6. OmAfter(om, ks, M, h)
    BY <1>2, <1>5 DEF OmAfter
  <1> QED
    BY <1>1, <1>6
LEMMA OmAfterIs ==
    ASSUME NEW om, NEW ks, NEW N \in Nat
    PROVE  \E g : OmAfter(om, ks, N, g)
  <1>1. PICK B : B = {m \in Nat : ~ \E g : OmAfter(om, ks, m, g)}
    OBVIOUS
  <1>2. SUFFICES ASSUME B # {} PROVE FALSE
    BY <1>1
  <1>3. B \in SUBSET Nat
    BY <1>1
  <1>4. PICK m \in B : \A k \in B : m <= k
    BY <1>2, <1>3, IgLeast
  <1>5. m # 0
    <2>1. PICK g : g = [i \in 0..0 |-> om]
      OBVIOUS
    <2>2. OmAfter(om, ks, 0, g)
      BY <2>1 DEF OmAfter
    <2> QED
      BY <1>1, <2>2
  <1>6. m - 1 \in Nat /\ ~(m <= m - 1) /\ (m - 1) + 1 = m
    BY <1>3, <1>5
  <1>7. m - 1 \notin B
    BY <1>4, <1>6
  <1>8. PICK g : OmAfter(om, ks, m - 1, g)
    BY <1>1, <1>6, <1>7
  <1>9. PICK l : l = m - 1
    OBVIOUS
  <1>10. \E h : OmAfter(om, ks, l + 1, h)
    BY <1>6, <1>8, <1>9, OmAfterMore
  <1> QED
    BY <1>1, <1>6, <1>9, <1>10

\* Deleting a list of keys, however often each is in it, leaves the other ones.
OmCleared(om, on, ks) == OmOk(on) /\ on.key = om.key /\ Keys(on) = Keys(om) \ {ks[i] : i \in 1..Len(ks)}
LEMMA OmDeletedOk ==
    ASSUME NEW om, OmOk(om), NEW ks, Len(ks) \in Nat
    PROVE  OmCleared(om, Deleted(om, ks), ks)
  <1> DEFINE P(g) == g = [i \in 0..Len(ks) |-> IF i = 0 THEN om ELSE Delete(g[i - 1], ks[i])]
  <1>0. PICK h : OmAfter(om, ks, Len(ks), h)
    BY OmAfterIs
  <1>1. P(h)
    BY <1>0 DEF OmAfter
  <1>2. P(CHOOSE g : P(g))
    <2> HIDE DEF P
    <2> QED
      BY <1>1, Zenon
  <1>3. PICK g : g = CHOOSE x : P(x)
    OBVIOUS
  <1>4. Deleted(om, ks) = g[Len(ks)]
    BY <1>3 DEF Deleted
  <1>5. P(g)
    <2> HIDE DEF P
    <2> QED
      BY <1>2, <1>3
  <1>6. g[0] = om /\ \A i \in 1..Len(ks) : g[i] = Delete(g[i - 1], ks[i])
    <2>1. \A i \in 0..Len(ks) : g[i] = IF i = 0 THEN om ELSE Delete(g[i - 1], ks[i])
      BY <1>5, Zenon
    <2>2. 0 \in 0..Len(ks) /\ \A i \in 1..Len(ks) : i \in 0..Len(ks) /\ i # 0
      OBVIOUS
    <2> QED
      BY ONLY <2>1, <2>2
  <1> HIDE DEF P
  <1> DEFINE Q(i) == OmOk(g[i]) /\ g[i].key = om.key /\ Keys(g[i]) = Keys(om) \ {ks[j] : j \in 1..i}
  <1>7. PICK B : B = {i \in 0..Len(ks) : ~Q(i)}
    OBVIOUS
  <1>8. B = {}
    <2> SUFFICES ASSUME B # {} PROVE FALSE
      OBVIOUS
    <2>1. B \in SUBSET Nat
      BY <1>7
    <2>2. PICK m \in B : \A k \in B : m <= k
      BY <2>1, IgLeast
    <2>3. m # 0
      <3>1. {ks[j] : j \in 1..0} = {}
        OBVIOUS
      <3>2. Q(0)
        BY <1>6, <3>1
      <3> QED
        BY <1>7, <3>2
    <2>4. PICK l : l = m - 1
      OBVIOUS
    <2>5. m \in 1..Len(ks) /\ l \in 0..Len(ks) /\ ~(m <= l) /\ 1..m = (1..l) \cup {m}
      BY <1>7, <2>1, <2>3, <2>4
    <2>6. Q(l)
      BY <1>7, <2>2, <2>5
    <2>7. OmDeletedTo(g[l], g[m], ks[m])
      BY <1>6, <2>4, <2>5, <2>6, OmDeleteOk
    <2>8. {ks[j] : j \in 1..m} = {ks[j] : j \in 1..l} \cup {ks[m]}
      BY <2>5
    <2>9. Q(m)
      BY <2>6, <2>7, <2>8 DEF OmDeletedTo
    <2> QED
      BY <1>7, <2>9
  <1>9. Len(ks) \in 0..Len(ks)
    OBVIOUS
  <1>10. Q(Len(ks))
    BY <1>7, <1>8, <1>9
  <1> QED
    BY <1>4, <1>10 DEF OmCleared

\* The objects: each uses earlier ones, and a name that is a type is its own.
IgObjectSet == [name : IgNames, type : Types, deps : SUBSET Nat, closes : {0, 1}]
IgObjects(os) ==
    /\ os \in Seq(IgObjectSet)
    /\ \A o \in 1..Len(os) : /\ os[o].deps \subseteq 1..(o - 1)
                             /\ os[o].name \in Types => os[o].name = os[o].type

\* Neither the object nor anything it uses was closed.
IgClean(os, o) == os[o].closes = 0 /\ \A d \in UsesIn(os)[o] : os[d].closes = 0

\* Keys lead to objects that have them as their name or their type.
IgLeads(om, os) ==
    \A k \in Keys(om) : /\ Get(om, k) \in 1..Len(os)
                        /\ k = os[Get(om, k)].name \/ k = os[Get(om, k)].type

\* An object is found under its name, or has lost the name to a late user of it.
IgHolds(om, os, u) == os[u].name \in Keys(om) /\ Get(om, os[u].name) = u
IgLost(os, lt, u) == \E v \in lt : os[v].name = os[u].name /\ u \in UsesIn(os)[v]
IgHeld(om, os, lt) == \A k \in Keys(om) : IgHolds(om, os, Get(om, k)) \/ IgLost(os, lt, Get(om, k))

\* The name of an object that is not late has its place behind all keys of older objects.
IgPlaced(om, os, lt) ==
    \A u \in 1..Len(os) : u \notin lt /\ IgHolds(om, os, u) =>
        \A k \in Keys(om) : Get(om, k) < u => om.mapper[k] < om.mapper[os[u].name]

IgAllClean(om, os) == \A k \in Keys(om) : IgClean(os, Get(om, k))

\* A frame of register, and what it uses so far.
IgFrame(os, f) ==
    /\ f \in [name : Names \cup Types \cup {NoName}, type : Types, singleton : BOOLEAN,
              value : {"nil", "zero", "set", "kept"}, field : Nat, deps : SUBSET (1..Len(os))]
    /\ f.field <= Len(FieldsOf(f.type)) + 1 /\ (f.name \in Types => f.name = f.type)
    /\ (f.field > 0 => f.name # NoName) /\ (f.singleton => f.type \in Structs)
    /\ \A d \in f.deps : IgClean(os, d)
IgUses(os, f) == f.deps \cup UNION {UsesIn(os)[d] : d \in f.deps}

\* A frame that looks for a dependency, the keys it finds and what comes with them.
IgAsks(f) == f.field \in 1..Len(FieldsOf(f.type)) /\ f.value # "kept" /\ f.value # "set"
IgField(f) == FieldsOf(f.type)[f.field]
IgFound(om, g) ==
    IF g.tag \in Keys(om) THEN {g.tag}
    ELSE {k \in {g.type} \cap Keys(om) : g.tag = NoName \/ (g.singleton /\ g.type \in Structs)}
IgComes(om, os, f) == UNION {{Get(om, k)} \cup UsesIn(os)[Get(om, k)] : k \in IgFound(om, IgField(f))}
IgPending(om, os, st) == IF st # <<>> /\ IgAsks(st[Len(st)]) THEN IgComes(om, os, st[Len(st)]) ELSE {}

\* The name of a frame was free when it began.  Whoever has it now was created for it.
IgTaken(om, os, st) ==
    \A i \in 1..Len(st) : st[i].field > 0 /\ st[i].name \in Keys(om) =>
        \/ Get(om, st[i].name) \in IgPending(om, os, st)
        \/ \E j \in i..Len(st) : Get(om, st[i].name) \in IgUses(os, st[j])

\* A frame creates what the one below it has asked for.
IgMakes(p, f) ==
    /\ IgField(p).tag = NoName => /\ f.type = IgField(p).type /\ f.type \in Structs
                                  /\ f.name = NoName \/ f.name = f.type
    /\ IgField(p).tag # NoName => f.name = IgField(p).tag
IgFrameSet == [name : Names \cup Types \cup {NoName}, type : Types, singleton : BOOLEAN,
               value : {"nil", "zero", "set", "kept"}, field : Nat, deps : SUBSET Nat]
IgFrames(om, os, st) ==
    /\ st \in Seq(IgFrameSet)
    /\ \A i \in 1..Len(st) : IgFrame(os, st[i])
    /\ \A i \in 2..Len(st) : IgAsks(st[i - 1]) /\ IgMakes(st[i - 1], st[i])
    /\ IgTaken(om, os, st)

\* During Close: the walk has met, or is going to meet, every key; an object whose
\* key it has met is not open, and the key is collected; what is closed and still
\* used by a stored object has a key that was met.
IgClosing(om, os, c, ks) ==
    /\ \A k \in Keys(om) : om.mapper[k] > c \/ om.mapper[k] = c \/ om.mapper[k] \in Behind(om)[c]
    /\ \A k \in Keys(om) : om.mapper[k] > c =>
          /\ os[Get(om, k)].type \in CloseAble => os[Get(om, k)].closes = 1
          /\ \E i \in 1..Len(ks) : ks[i] = k
    /\ \A x \in Keys(om) : \A d \in UsesIn(os)[Get(om, x)] \cup {Get(om, x)} :
          os[d].closes = 1 => \E k \in Keys(om) : Get(om, k) = d /\ om.mapper[k] > c

\* What is open is stored or evicted, and what was evicted had its type only or a late user.
IgKept(om, os, ev) ==
    \A o \in 1..Len(os) : os[o].type \in CloseAble /\ os[o].closes = 0 => o \in Stored(om) \cup ev
IgEvicts(os, ev, lt) == \A o \in ev : os[o].name = os[o].type \/ \E u \in lt : o \in UsesIn(os)[u]

\* The graph, the calls in progress, and the inductive invariant.
IgGraph(om, os, ev, lt) ==
    /\ OmOk(om) /\ WalkComplete(om) /\ IgObjects(os) /\ ev \subseteq 1..Len(os) /\ lt \subseteq 1..Len(os)
    /\ IgLeads(om, os) /\ IgHeld(om, os, lt) /\ IgPlaced(om, os, lt) /\ IgKept(om, os, ev) /\ IgEvicts(os, ev, lt)
IgPhase ==
    /\ pc \in {"idle", "register", "close"} /\ ((stack = <<>>) <=> (pc # "register"))
    /\ curr \in 0..Len(named.key) /\ calls \in 0..MaxCalls /\ keys \in Seq(IgNames)
    /\ pc # "close" => IgAllClean(named, objs)
    /\ pc = "close" => IgClosing(named, objs, curr, keys)
IgInv == IgGraph(named, objs, evicted, late) /\ IgFrames(named, objs, stack) /\ IgPhase

LEMMA IgObjectsAre ==
    ASSUME NEW os, IgObjects(os)
    PROVE  /\ Len(os) \in Nat /\ IgDeps(os)
           /\ \A o \in 1..Len(os) : /\ os[o].name \in IgNames /\ os[o].type \in Types /\ os[o].closes \in {0, 1}
                                    /\ os[o].deps \subseteq 1..(o - 1)
                                    /\ os[o].name \in Types => os[o].name = os[o].type
  <1>1. os \in Seq(IgObjectSet)
    BY DEF IgObjects
  <1>2. Len(os) \in Nat /\ \A o \in 1..Len(os) : os[o] \in IgObjectSet
    <2>1. PICK R : R = IgObjectSet
      OBVIOUS
    <2>2. os \in Seq(R)
      BY <1>1, <2>1
    <2>3. Len(os) \in Nat /\ \A o \in 1..Len(os) : os[o] \in R
      BY ONLY <2>2
    <2> QED
      BY <2>1, <2>3
  <1> QED
    BY <1>2 DEF IgObjects, IgObjectSet, IgDeps

\* What an object uses is older.
LEMMA IgUsesOlder ==
    ASSUME NEW os, IgObjects(os), NEW o \in 1..Len(os)
    PROVE  \A d \in UsesIn(os)[o] : d \in 1..Len(os) /\ d < o
  <1>1. UsesIn(os)[o] \subseteq 1..(o - 1) /\ Len(os) \in Nat
    BY IgObjectsAre, IgUsesBelow
  <1> QED
    BY <1>1

\* Another object.
IgAnother(os, ot, f, o) ==
    /\ IgObjects(os) /\ IgFrame(os, f) /\ f.field > 0
    /\ o = Len(os) + 1 /\ ot = Append(os, NewObject(f))
LEMMA IgAnotherIs ==
    ASSUME NEW os, NEW ot, NEW f, NEW o, IgAnother(os, ot, f, o)
    PROVE  /\ Len(os) \in Nat /\ o \in Nat /\ o = Len(os) + 1 /\ Len(ot) = o
           /\ \A x \in 1..Len(os) : ot[x] = os[x]
           /\ ot[o].name = f.name /\ ot[o].type = f.type /\ ot[o].deps = f.deps /\ ot[o].closes = 0
           /\ f.name \in IgNames /\ f.type \in Types /\ f.deps \subseteq 1..Len(os) /\ (f.name \in Types => f.name = f.type)
           /\ IgObjects(ot)
  <1>1. PICK L, x : L = Len(os) /\ x = NewObject(f)
    OBVIOUS
  <1>2. L \in Nat /\ os \in Seq(IgObjectSet)
    BY <1>1 DEF IgAnother, IgObjects
  <1>3. /\ f.name \in Names \cup Types \cup {NoName} /\ f.type \in Types /\ f.deps \subseteq 1..L
        /\ (f.name \in Types => f.name = f.type) /\ f.name # NoName
    BY <1>1 DEF IgAnother, IgFrame
  <1>4. f.name \in IgNames
    BY <1>3 DEF IgNames
  <1>5. x.name = f.name /\ x.type = f.type /\ x.deps = f.deps /\ x.closes = 0
    BY <1>1 DEF NewObject
  <1>6. x \in IgObjectSet
    <2>1. f.deps \in SUBSET Nat
      BY <1>2, <1>3
    <2> QED
      BY <1>1, <1>3, <1>4, <2>1 DEF NewObject, IgObjectSet
  <1>7. o = L + 1 /\ o \in Nat /\ ot = Append(os, x) /\ Len(os) = L
    BY <1>1, <1>2 DEF IgAnother
  <1>8. ot \in Seq(IgObjectSet) /\ Len(ot) = o /\ ot[o] = x
    BY ONLY <1>2, <1>6, <1>7
  <1>9. \A y \in 1..L : ot[y] = os[y]
    BY ONLY <1>2, <1>6, <1>7
  <1>10. ASSUME NEW y \in 1..o PROVE ot[y].deps \subseteq 1..(y - 1) /\ (ot[y].name \in Types => ot[y].name = ot[y].type)
    <2>1. CASE y = o
      <3>1. o - 1 = L
        BY ONLY <1>2, <1>7
      <3> QED
        BY <1>3, <1>5, <1>8, <2>1, <3>1
    <2>2. CASE y # o
      <3>1. y \in 1..L
        BY ONLY <1>2, <1>7, <1>10, <2>2
      <3>2. ot[y] = os[y]
        BY <1>9, <3>1
      <3> QED
        BY <1>1, <3>1, <3>2 DEF IgAnother, IgObjects
    <2> QED
      BY <2>1, <2>2
  <1>11. IgObjects(ot)
    BY <1>8, <1>10 DEF IgObjects
  <1> QED
    BY <1>1, <1>3, <1>4, <1>5, <1>7, <1>8, <1>9, <1>2, <1>11

\* What it uses, and that the others use what they did.
LEMMA IgAnotherUses ==
    ASSUME NEW os, NEW ot, NEW f, NEW o, IgAnother(os, ot, f, o)
    PROVE  /\ \A x \in 1..Len(os) : UsesIn(ot)[x] = UsesIn(os)[x]
           /\ UsesIn(ot)[o] = IgUses(os, f)
  <1>1. /\ Len(os) \in Nat /\ o \in Nat /\ o = Len(os) + 1 /\ Len(ot) = o
        /\ \A x \in 1..Len(os) : ot[x] = os[x]
    BY IgAnotherIs
  <1>2. ot[o].deps = f.deps /\ f.deps \subseteq 1..Len(os) /\ IgObjects(ot) /\ IgObjects(os)
    <2>1. IgObjects(os)
      BY DEF IgAnother
    <2> QED
      BY <2>1, IgAnotherIs
  <1>3. IgDeps(os) /\ IgDeps(ot)
    BY <1>2, IgObjectsAre
  <1>4. ASSUME NEW x \in 1..Len(os) PROVE UsesIn(ot)[x] = UsesIn(os)[x]
    <2>1. Len(os) <= Len(ot)
      BY ONLY <1>1
    <2>2. \A y \in 1..Len(os) : ot[y].deps = os[y].deps
      BY <1>1
    <2> QED
      BY <1>3, <2>1, <2>2, IgUsesSame
  <1>5. o \in 1..Len(ot)
    BY ONLY <1>1
  <1>6. UsesIn(ot) = [x \in 1..Len(ot) |-> ot[x].deps \cup UNION {UsesIn(ot)[d] : d \in ot[x].deps}]
    BY <1>3, IgUsesIs
  <1>7. UsesIn(ot)[o] = ot[o].deps \cup UNION {UsesIn(ot)[d] : d \in ot[o].deps}
    BY ONLY <1>5, <1>6, Zenon
  <1>8. \A d \in f.deps : UsesIn(ot)[d] = UsesIn(os)[d]
    BY <1>2, <1>4
  <1>9. UNION {UsesIn(ot)[d] : d \in f.deps} = UNION {UsesIn(os)[d] : d \in f.deps}
    BY ONLY <1>8
  <1> QED
    BY <1>2, <1>4, <1>7, <1>9 DEF IgUses

\* It is stored under its name, and as a singleton under its type.
IgStarted(om, on, f, o) ==
    on = IF f.singleton THEN Set(Set(om, f.name, o), f.type, o) ELSE Set(om, f.name, o)
IgStoredTo(om, on, f, o) ==
    /\ OmOk(on) /\ f.name \in Keys(on) /\ Get(on, f.name) = o /\ Keys(om) \subseteq Keys(on)
    /\ (f.singleton => f.type \in Keys(on) /\ Get(on, f.type) = o)
    /\ \A j \in Keys(on) : \/ j = f.name \/ (f.singleton /\ j = f.type)
                           \/ (j \in Keys(om) /\ Get(on, j) = Get(om, j))
    /\ \A j \in Keys(om) : on.mapper[j] = om.mapper[j]
    /\ f.name \notin Keys(om) => \A j \in Keys(om) : om.mapper[j] < on.mapper[f.name]
    /\ Len(om.key) <= Len(on.key)
    /\ WalkComplete(om) => WalkComplete(on)
LEMMA IgStartedIs ==
    ASSUME NEW om, NEW on, NEW f, NEW o \in Nat, OmOk(om), f.name \in IgNames, f.type \in IgNames, IgStarted(om, on, f, o)
    PROVE  IgStoredTo(om, on, f, o)
  <1>1. PICK oi : oi = Set(om, f.name, o)
    OBVIOUS
  <1>2. OmSetTo(om, oi, f.name, o)
    BY <1>1, OmSetOk
  <1>3. CASE ~f.singleton
    <2>1. on = oi
      BY <1>1, <1>3 DEF IgStarted
    <2> QED
      BY <1>2, <1>3, <2>1 DEF OmSetTo, IgStoredTo
  <1>4. CASE f.singleton
    <2>1. on = Set(oi, f.type, o)
      BY <1>1, <1>4 DEF IgStarted
    <2>2. OmOk(oi)
      BY <1>2 DEF OmSetTo
    <2>3. OmSetTo(oi, on, f.type, o)
      BY <2>1, <2>2, OmSetOk
    <2>4. /\ OmOk(on) /\ f.name \in Keys(on) /\ Get(on, f.name) = o /\ Keys(om) \subseteq Keys(on)
          /\ f.type \in Keys(on) /\ Get(on, f.type) = o
      BY <1>2, <2>3 DEF OmSetTo
    <2>5. ASSUME NEW j \in Keys(on), j # f.name, j # f.type PROVE j \in Keys(om) /\ Get(on, j) = Get(om, j)
      BY <1>2, <2>3, <2>5 DEF OmSetTo
    <2>6. \A j \in Keys(om) : on.mapper[j] = om.mapper[j]
      BY <1>2, <2>3 DEF OmSetTo
    <2>7. f.name \notin Keys(om) => \A j \in Keys(om) : om.mapper[j] < on.mapper[f.name]
      BY <1>2, <2>3 DEF OmSetTo
    <2>8. Len(om.key) <= Len(on.key)
      <3>1. OmTypes(om) /\ OmTypes(oi) /\ OmTypes(on)
        BY <2>2, <2>4 DEF OmOk
      <3>2. Len(om.key) \in Nat /\ Len(oi.key) \in Nat /\ Len(on.key) \in Nat
        BY <3>1 DEF OmTypes
      <3> QED
        BY <1>2, <2>3, <3>2 DEF OmSetTo
    <2>9. WalkComplete(om) => WalkComplete(on)
      BY <1>2, <2>3 DEF OmSetTo
    <2> QED
      BY <1>4, <2>4, <2>5, <2>6, <2>7, <2>8, <2>9 DEF IgStoredTo
  <1> QED
    BY <1>3, <1>4

\* An object is stored, by a frame whose name, if it is taken, was taken by what the frame uses.
IgGrew(om, os, lt, on, ot, mt, f, o) ==
    /\ IgAnother(os, ot, f, o) /\ IgStoredTo(om, on, f, o) /\ IgLeads(om, os) /\ lt \subseteq 1..Len(os)
    /\ mt = lt \cup {x \in {o} : f.name \in Keys(om)}
    /\ f.name \in Keys(om) => Get(om, f.name) \in IgUses(os, f)
LEMMA IgGrewOlder ==
    ASSUME NEW om, NEW os, NEW lt, NEW on, NEW ot, NEW mt, NEW f, NEW o, IgGrew(om, os, lt, on, ot, mt, f, o)
    PROVE  /\ Len(os) \in Nat /\ o \in Nat /\ o = Len(os) + 1 /\ Len(ot) = o /\ o \in 1..Len(ot)
           /\ \A x \in 1..Len(os) : /\ ot[x] = os[x] /\ UsesIn(ot)[x] = UsesIn(os)[x]
                                    /\ x \in 1..Len(ot) /\ x < o /\ x # o
           /\ \A x \in 1..Len(ot) : x # o => x \in 1..Len(os)
  <1>1. IgAnother(os, ot, f, o)
    BY DEF IgGrew
  <1>2. Len(os) \in Nat /\ o \in Nat /\ o = Len(os) + 1 /\ Len(ot) = o
    BY <1>1, IgAnotherIs
  <1>3. \A x \in 1..Len(os) : ot[x] = os[x] /\ UsesIn(ot)[x] = UsesIn(os)[x]
    BY <1>1, IgAnotherIs, IgAnotherUses
  <1>4. o \in 1..Len(ot) /\ (\A x \in 1..Len(os) : x \in 1..Len(ot) /\ x < o /\ x # o)
    BY ONLY <1>2
  <1>5. \A x \in 1..Len(ot) : x # o => x \in 1..Len(os)
    BY ONLY <1>2
  <1> QED
    BY <1>2, <1>3, <1>4, <1>5
LEMMA IgGrewNew ==
    ASSUME NEW om, NEW os, NEW lt, NEW on, NEW ot, NEW mt, NEW f, NEW o, IgGrew(om, os, lt, on, ot, mt, f, o)
    PROVE  /\ ot[o].name = f.name /\ ot[o].type = f.type /\ ot[o].deps = f.deps /\ ot[o].closes = 0
           /\ UsesIn(ot)[o] = IgUses(os, f) /\ IgObjects(os) /\ IgObjects(ot) /\ f.type \in Types
           /\ lt \subseteq mt /\ (o \in mt <=> f.name \in Keys(om)) /\ (\A x \in mt : x # o => x \in lt)
  <1>1. IgAnother(os, ot, f, o) /\ mt = lt \cup {x \in {o} : f.name \in Keys(om)} /\ lt \subseteq 1..Len(os)
    BY DEF IgGrew
  <1>2. ot[o].name = f.name /\ ot[o].type = f.type /\ ot[o].deps = f.deps /\ ot[o].closes = 0 /\ IgObjects(ot) /\ f.type \in Types
    BY <1>1, IgAnotherIs
  <1>3. UsesIn(ot)[o] = IgUses(os, f) /\ IgObjects(os)
    <2>1. UsesIn(ot)[o] = IgUses(os, f)
      BY <1>1, IgAnotherUses
    <2> QED
      BY <1>1, <2>1 DEF IgAnother
  <1>4. o \notin lt
    <2>1. \A x \in 1..Len(os) : x # o
      BY IgGrewOlder
    <2> QED
      BY <1>1, <2>1
  <1> QED
    BY <1>1, <1>2, <1>3, <1>4

\* A key that does not lead to the new object led where it leads; one that led elsewhere was taken.
LEMMA IgGrewKey ==
    ASSUME NEW om, NEW os, NEW lt, NEW on, NEW ot, NEW mt, NEW f, NEW o, IgGrew(om, os, lt, on, ot, mt, f, o),
           NEW k \in Keys(on), Get(on, k) # o
    PROVE  /\ k \in Keys(om) /\ Get(on, k) = Get(om, k) /\ k # f.name /\ (f.singleton => k # f.type)
           /\ Get(on, k) \in 1..Len(os)
  <1>1. IgStoredTo(om, on, f, o) /\ IgLeads(om, os)
    BY DEF IgGrew
  <1> QED
    BY <1>1 DEF IgStoredTo, IgLeads
LEMMA IgGrewTook ==
    ASSUME NEW om, NEW os, NEW lt, NEW on, NEW ot, NEW mt, NEW f, NEW o, IgGrew(om, os, lt, on, ot, mt, f, o),
           NEW k \in Keys(om)
    PROVE  k \in Keys(on) /\ (Get(on, k) = Get(om, k) \/ k = f.name \/ (f.singleton /\ k = f.type))
  <1>1. IgStoredTo(om, on, f, o)
    BY DEF IgGrew
  <1> QED
    BY <1>1 DEF IgStoredTo
LEMMA IgGrewLeads ==
    ASSUME NEW om, NEW os, NEW lt, NEW on, NEW ot, NEW mt, NEW f, NEW o, IgGrew(om, os, lt, on, ot, mt, f, o)
    PROVE  IgLeads(on, ot)
  <1> SUFFICES ASSUME NEW k \in Keys(on)
               PROVE  Get(on, k) \in 1..Len(ot) /\ (k = ot[Get(on, k)].name \/ k = ot[Get(on, k)].type)
    BY DEF IgLeads
  <1>1. CASE Get(on, k) # o
    <2>1. k \in Keys(om) /\ Get(on, k) = Get(om, k) /\ Get(on, k) \in 1..Len(os)
      BY <1>1, IgGrewKey
    <2>2. k = os[Get(om, k)].name \/ k = os[Get(om, k)].type
      BY <2>1 DEF IgGrew, IgLeads
    <2>3. ot[Get(on, k)] = os[Get(on, k)] /\ Get(on, k) \in 1..Len(ot)
      BY <2>1, IgGrewOlder
    <2> QED
      BY <2>1, <2>2, <2>3
  <1>2. CASE Get(on, k) = o
    <2>1. k = f.name \/ k = f.type
      <3>1. IgStoredTo(om, on, f, o) /\ IgLeads(om, os)
        BY DEF IgGrew
      <3>2. o \notin 1..Len(os)
        BY IgGrewOlder
      <3> QED
        BY <1>2, <3>1, <3>2 DEF IgStoredTo, IgLeads
    <2>2. ot[o].name = f.name /\ ot[o].type = f.type
      BY IgGrewNew
    <2>3. o \in 1..Len(ot)
      BY IgGrewOlder
    <2> QED
      BY <1>2, <2>1, <2>2, <2>3
  <1> QED
    BY <1>1, <1>2

\* An object that was found under its name still is, or has lost it to a late user, or had its type only.
LEMMA IgGrewHolds ==
    ASSUME NEW om, NEW os, NEW lt, NEW on, NEW ot, NEW mt, NEW f, NEW o, IgGrew(om, os, lt, on, ot, mt, f, o),
           NEW u \in 1..Len(os), IgHolds(om, os, u) \/ IgLost(os, lt, u)
    PROVE  \/ IgHolds(on, ot, u) \/ IgLost(ot, mt, u)
           \/ f.singleton /\ os[u].name = f.type /\ os[u].type = f.type
  <1>1. ot[u] = os[u] /\ u # o
    BY IgGrewOlder
  <1>2. CASE IgLost(os, lt, u)
    <2>1. PICK v \in lt : os[v].name = os[u].name /\ u \in UsesIn(os)[v]
      BY <1>2 DEF IgLost
    <2>2. v \in 1..Len(os) /\ v \in mt
      BY <2>1, IgGrewNew DEF IgGrew
    <2>3. ot[v] = os[v] /\ UsesIn(ot)[v] = UsesIn(os)[v]
      BY <2>2, IgGrewOlder
    <2> QED
      BY <1>1, <2>1, <2>2, <2>3 DEF IgLost
  <1>3. CASE IgHolds(om, os, u)
    <2>1. PICK n : n = os[u].name
      OBVIOUS
    <2>2. n \in Keys(om) /\ Get(om, n) = u
      BY <1>3, <2>1 DEF IgHolds
    <2>3. n \in Keys(on) /\ (Get(on, n) = Get(om, n) \/ n = f.name \/ (f.singleton /\ n = f.type))
      BY <2>2, IgGrewTook
    <2>4. CASE Get(on, n) = Get(om, n)
      BY <1>1, <2>1, <2>2, <2>3, <2>4 DEF IgHolds
    <2>5. CASE n = f.name
      <3>1. u \in IgUses(os, f)
        BY <2>2, <2>5 DEF IgGrew
      <3>2. o \in mt /\ ot[o].name = f.name /\ UsesIn(ot)[o] = IgUses(os, f)
        BY <2>2, <2>5, IgGrewNew
      <3> QED
        BY <1>1, <2>1, <2>5, <3>1, <3>2 DEF IgLost
    <2>6. CASE f.singleton /\ n = f.type
      <3>1. IgObjects(os) /\ f.type \in Types
        BY IgGrewNew
      <3>2. os[u].name \in Types => os[u].name = os[u].type
        BY <3>1, IgObjectsAre
      <3> QED
        BY <2>1, <2>6, <3>1, <3>2
    <2> QED
      BY <2>3, <2>4, <2>5, <2>6
  <1> QED
    BY <1>2, <1>3
LEMMA IgGrewHeld ==
    ASSUME NEW om, NEW os, NEW lt, NEW on, NEW ot, NEW mt, NEW f, NEW o, IgGrew(om, os, lt, on, ot, mt, f, o),
           IgHeld(om, os, lt)
    PROVE  IgHeld(on, ot, mt)
  <1> SUFFICES ASSUME NEW k \in Keys(on) PROVE IgHolds(on, ot, Get(on, k)) \/ IgLost(ot, mt, Get(on, k))
    BY DEF IgHeld
  <1>1. CASE Get(on, k) # o
    <2>1. PICK u : u = Get(on, k)
      OBVIOUS
    <2>2. k \in Keys(om) /\ Get(on, k) = Get(om, k) /\ (f.singleton => k # f.type) /\ Get(on, k) \in 1..Len(os)
      BY <1>1, IgGrewKey
    <2>3. IgHolds(om, os, u) \/ IgLost(os, lt, u)
      BY <2>1, <2>2 DEF IgHeld
    <2>4. ~(f.singleton /\ os[u].name = f.type /\ os[u].type = f.type)
      <3>1. k = os[u].name \/ k = os[u].type
        BY <2>1, <2>2 DEF IgGrew, IgLeads
      <3> QED
        BY <2>2, <3>1
    <2> QED
      BY <2>1, <2>2, <2>3, <2>4, IgGrewHolds
  <1>2. CASE Get(on, k) = o
    <2>1. ot[o].name = f.name
      BY IgGrewNew
    <2>2. IgStoredTo(om, on, f, o)
      BY DEF IgGrew
    <2> QED
      BY <1>2, <2>1, <2>2 DEF IgHolds, IgStoredTo
  <1> QED
    BY <1>1, <1>2

\* What loses its last key.
LEMMA IgGrewEvicts ==
    ASSUME NEW om, NEW os, NEW lt, NEW on, NEW ot, NEW mt, NEW f, NEW o, IgGrew(om, os, lt, on, ot, mt, f, o),
           IgHeld(om, os, lt), NEW u \in Stored(om), u \notin Stored(on)
    PROVE  u \in 1..Len(os) /\ (ot[u].name = ot[u].type \/ \E v \in mt : u \in UsesIn(ot)[v])
  <1>1. PICK k \in Keys(om) : u = Get(om, k)
    BY DEF Stored
  <1>2. u \in 1..Len(os) /\ (IgHolds(om, os, u) \/ IgLost(os, lt, u))
    BY <1>1 DEF IgHeld, IgGrew, IgLeads
  <1>3. ~IgHolds(on, ot, u)
    BY DEF IgHolds, Stored
  <1>4. ot[u] = os[u]
    BY <1>2, IgGrewOlder
  <1>5. IgLost(ot, mt, u) \/ (os[u].name = f.type /\ os[u].type = f.type)
    BY <1>2, <1>3, IgGrewHolds
  <1> QED
    BY <1>2, <1>4, <1>5 DEF IgLost
LEMMA IgGrewPlaced ==
    ASSUME NEW om, NEW os, NEW lt, NEW on, NEW ot, NEW mt, NEW f, NEW o, IgGrew(om, os, lt, on, ot, mt, f, o),
           IgPlaced(om, os, lt)
    PROVE  IgPlaced(on, ot, mt)
  <1> SUFFICES ASSUME NEW u \in 1..Len(ot), u \notin mt, IgHolds(on, ot, u), NEW k \in Keys(on), Get(on, k) < u
               PROVE  on.mapper[k] < on.mapper[ot[u].name]
    BY DEF IgPlaced
  <1>1. IgStoredTo(om, on, f, o)
    BY DEF IgGrew
  <1>2. Get(on, k) # o
    <2>1. u \in Nat /\ o \in Nat /\ u <= o
      BY IgGrewOlder
    <2> QED
      BY <2>1
  <1>3. k \in Keys(om) /\ Get(on, k) = Get(om, k)
    BY <1>2, IgGrewKey
  <1>4. on.mapper[k] = om.mapper[k]
    BY <1>1, <1>3 DEF IgStoredTo
  <1>5. CASE u = o
    <2>1. f.name \notin Keys(om) /\ ot[u].name = f.name
      BY <1>5, IgGrewNew
    <2> QED
      BY <1>1, <1>3, <1>4, <2>1 DEF IgStoredTo
  <1>6. CASE u # o
    <2>1. u \in 1..Len(os) /\ ot[u] = os[u]
      BY <1>6, IgGrewOlder
    <2>2. PICK n : n = os[u].name
      OBVIOUS
    <2>3. n \in Keys(on) /\ Get(on, n) = u /\ Get(on, n) # o
      BY <1>6, <2>1, <2>2 DEF IgHolds
    <2>4. n \in Keys(om) /\ Get(om, n) = u
      BY <2>3, IgGrewKey
    <2>5. IgHolds(om, os, u) /\ u \notin lt
      BY <2>2, <2>4, IgGrewNew DEF IgHolds
    <2>6. om.mapper[k] < om.mapper[n]
      BY <1>3, <2>1, <2>2, <2>5 DEF IgPlaced
    <2>7. on.mapper[n] = om.mapper[n]
      BY <1>1, <2>4 DEF IgStoredTo
    <2> QED
      BY <1>4, <2>1, <2>2, <2>6, <2>7
  <1> QED
    BY <1>5, <1>6

\* What was clean stays clean, and the new object is.
LEMMA IgGrewSame ==
    ASSUME NEW om, NEW os, NEW lt, NEW on, NEW ot, NEW mt, NEW f, NEW o, IgGrew(om, os, lt, on, ot, mt, f, o),
           NEW x \in 1..Len(os), IgClean(os, x)
    PROVE  IgClean(ot, x)
  <1>1. ot[x] = os[x] /\ UsesIn(ot)[x] = UsesIn(os)[x]
    BY IgGrewOlder
  <1>2. IgObjects(os)
    BY IgGrewNew
  <1>3. ASSUME NEW d \in UsesIn(os)[x] PROVE ot[d].closes = 0
    <2>1. d \in 1..Len(os)
      BY <1>2, IgUsesOlder
    <2>2. ot[d] = os[d]
      BY <2>1, IgGrewOlder
    <2> QED
      BY <2>2 DEF IgClean
  <1> QED
    BY <1>1, <1>3 DEF IgClean
LEMMA IgGrewClean ==
    ASSUME NEW om, NEW os, NEW lt, NEW on, NEW ot, NEW mt, NEW f, NEW o, IgGrew(om, os, lt, on, ot, mt, f, o)
    PROVE  IgClean(ot, o)
  <1>1. UsesIn(ot)[o] = IgUses(os, f) /\ ot[o].closes = 0 /\ IgObjects(os)
    BY IgGrewNew
  <1>2. IgFrame(os, f)
    BY DEF IgGrew, IgAnother
  <1>3. f.deps \subseteq 1..Len(os) /\ \A d \in f.deps : IgClean(os, d)
    BY <1>2 DEF IgFrame
  <1>4. ASSUME NEW d \in f.deps PROVE ot[d].closes = 0 /\ \A e \in UsesIn(os)[d] : ot[e].closes = 0
    <2>1. d \in 1..Len(os) /\ IgClean(os, d)
      BY <1>3
    <2>2. IgClean(ot, d)
      BY <2>1, IgGrewSame
    <2>3. UsesIn(ot)[d] = UsesIn(os)[d]
      BY <2>1, IgGrewOlder
    <2> QED
      BY <2>2, <2>3 DEF IgClean
  <1>5. \A d \in IgUses(os, f) : ot[d].closes = 0
    BY <1>4 DEF IgUses
  <1> QED
    BY <1>1, <1>5 DEF IgClean
LEMMA IgGrewAllClean ==
    ASSUME NEW om, NEW os, NEW lt, NEW on, NEW ot, NEW mt, NEW f, NEW o, IgGrew(om, os, lt, on, ot, mt, f, o),
           IgAllClean(om, os)
    PROVE  IgAllClean(on, ot)
  <1> SUFFICES ASSUME NEW k \in Keys(on) PROVE IgClean(ot, Get(on, k))
    BY DEF IgAllClean
  <1>1. CASE Get(on, k) # o
    <2>1. k \in Keys(om) /\ Get(on, k) = Get(om, k) /\ Get(on, k) \in 1..Len(os)
      BY <1>1, IgGrewKey
    <2>2. IgClean(os, Get(on, k))
      BY <2>1 DEF IgAllClean
    <2> QED
      BY <2>1, <2>2, IgGrewSame
  <1>2. CASE Get(on, k) = o
    BY <1>2, IgGrewClean
  <1> QED
    BY <1>1, <1>2

\* The stack: without its last frame, with another last one, with one more.
LEMMA IgBelow ==
    ASSUME NEW R, NEW st \in Seq(R), st # <<>>
    PROVE  /\ Len(st) \in Nat /\ Len(st) >= 1 /\ SubSeq(st, 1, Len(st) - 1) \in Seq(R)
           /\ Len(SubSeq(st, 1, Len(st) - 1)) = Len(st) - 1
           /\ \A i \in 1..(Len(st) - 1) : SubSeq(st, 1, Len(st) - 1)[i] = st[i]
  <1>1. Len(st) \in Nat /\ Len(st) # 0
    BY EmptySeq
  <1>2. PICK n : n = Len(st) - 1
    OBVIOUS
  <1>3. 1 \in 1..(Len(st) + 1) /\ n \in (1 - 1)..Len(st) /\ n - 1 + 1 = n /\ \A i \in 1..n : 1 + i - 1 = i
    BY <1>1, <1>2
  <1>4. /\ SubSeq(st, 1, n) \in Seq(R) /\ Len(SubSeq(st, 1, n)) = n - 1 + 1
        /\ \A i \in 1..(n - 1 + 1) : SubSeq(st, 1, n)[i] = st[1 + i - 1]
    BY <1>3, SubSeqProperties
  <1> QED
    BY <1>1, <1>2, <1>3, <1>4
LEMMA IgTopped ==
    ASSUME NEW R, NEW st \in Seq(R), st # <<>>, NEW g \in R, NEW sn, sn = Append(SubSeq(st, 1, Len(st) - 1), g)
    PROVE  /\ Len(st) \in Nat /\ Len(st) >= 1 /\ sn \in Seq(R) /\ Len(sn) = Len(st) /\ sn[Len(st)] = g
           /\ \A i \in 1..Len(st) : i # Len(st) => sn[i] = st[i]
  <1>1. PICK sb, L : sb = SubSeq(st, 1, Len(st) - 1) /\ L = Len(st)
    OBVIOUS
  <1>2. L \in Nat /\ L >= 1 /\ sb \in Seq(R) /\ Len(sb) = L - 1 /\ \A i \in 1..(L - 1) : sb[i] = st[i]
    BY <1>1, IgBelow
  <1>3. sn = Append(sb, g) /\ g \in R
    BY <1>1
  <1>4. sn \in Seq(R) /\ Len(sn) = L /\ sn[L] = g /\ \A i \in 1..(L - 1) : sn[i] = sb[i]
    BY ONLY <1>2, <1>3
  <1>5. \A i \in 1..L : i # L => sn[i] = st[i]
    BY ONLY <1>2, <1>4
  <1> QED
    BY <1>1, <1>2, <1>4, <1>5

LEMMA IgTypesApart == /\ NoName \notin Names /\ NoName \notin Types /\ Names \cap Types = {} /\ Structs \subseteq Types
                      /\ NoName \notin IgNames
  BY GraphAssumption DEF IgNames, Types

\* A frame as a record.
LEMMA IgFrameIn == ASSUME NEW os, NEW f, IgFrame(os, f), Len(os) \in Nat PROVE f \in IgFrameSet
  BY DEF IgFrame, IgFrameSet

\* Another last frame, that uses at least what the last one uses or was about to use.
IgTopOk(om, os, st, g) ==
    /\ IgFrames(om, os, st) /\ st # <<>> /\ IgFrame(os, g) /\ Len(os) \in Nat
    /\ Len(st) >= 2 => IgMakes(st[Len(st) - 1], g)
    /\ IgUses(os, st[Len(st)]) \subseteq IgUses(os, g) /\ IgPending(om, os, st) \subseteq IgUses(os, g)
    /\ g.field > 0 /\ g.name \in Keys(om) => st[Len(st)].field > 0 /\ st[Len(st)].name = g.name
LEMMA IgReplaced ==
    ASSUME NEW om, NEW os, NEW st, NEW g, NEW sn, IgTopOk(om, os, st, g), sn = Append(SubSeq(st, 1, Len(st) - 1), g)
    PROVE  IgFrames(om, os, sn)
  <1>1. PICK L : L = Len(st)
    OBVIOUS
  <1>2. st \in Seq(IgFrameSet) /\ st # <<>> /\ g \in IgFrameSet
    BY IgFrameIn DEF IgTopOk, IgFrames
  <1>3. /\ L \in Nat /\ L >= 1 /\ sn \in Seq(IgFrameSet) /\ Len(sn) = L /\ sn[L] = g
        /\ \A i \in 1..L : i # L => sn[i] = st[i]
    BY <1>1, <1>2, IgTopped
  <1>4. ASSUME NEW i \in 1..L PROVE IgFrame(os, sn[i])
    BY <1>1, <1>3 DEF IgTopOk, IgFrames
  <1>5. ASSUME NEW i \in 2..L PROVE IgAsks(sn[i - 1]) /\ IgMakes(sn[i - 1], sn[i])
    <2>1. i \in 1..L /\ i - 1 \in 1..L /\ i - 1 # L /\ L >= 2
      BY ONLY <1>3, <1>5
    <2>2. IgAsks(st[i - 1]) /\ IgMakes(st[i - 1], st[i]) /\ sn[i - 1] = st[i - 1]
      BY <1>1, <1>3, <1>5, <2>1 DEF IgTopOk, IgFrames
    <2>3. CASE i = L
      BY <1>1, <1>3, <2>1, <2>2, <2>3 DEF IgTopOk
    <2>4. CASE i # L
      BY <1>3, <2>1, <2>2, <2>4
    <2> QED
      BY <2>3, <2>4
  <1>6. ASSUME NEW i \in 1..L, sn[i].field > 0, sn[i].name \in Keys(om)
        PROVE  \E j \in i..L : Get(om, sn[i].name) \in IgUses(os, sn[j])
    <2>1. st[i].field > 0 /\ st[i].name = sn[i].name
      <3>1. CASE i = L
        BY <1>1, <1>3, <1>6, <3>1 DEF IgTopOk
      <3>2. CASE i # L
        BY <1>3, <1>6, <3>2
      <3> QED
        BY <3>1, <3>2
    <2>2. PICK x : x = Get(om, sn[i].name)
      OBVIOUS
    <2>3. x \in IgPending(om, os, st) \/ \E j \in i..L : x \in IgUses(os, st[j])
      BY <1>1, <1>6, <2>1, <2>2 DEF IgTopOk, IgFrames, IgTaken
    <2>4. L \in i..L /\ \A j \in i..L : j \in 1..L
      BY ONLY <1>3, <1>6
    <2>5. x \in IgPending(om, os, st) \/ x \in IgUses(os, st[L]) => x \in IgUses(os, sn[L])
      BY <1>1, <1>3 DEF IgTopOk
    <2>6. ASSUME NEW j \in i..L, x \in IgUses(os, st[j]) PROVE \E h \in i..L : x \in IgUses(os, sn[h])
      <3>1. CASE j = L
        BY <2>4, <2>5, <2>6, <3>1
      <3>2. CASE j # L
        BY <1>3, <2>4, <2>6, <3>2
      <3> QED
        BY <3>1, <3>2
    <2> QED
      BY <2>2, <2>3, <2>4, <2>5, <2>6
  <1>7. IgTaken(om, os, sn)
    BY <1>3, <1>6 DEF IgTaken
  <1> QED
    BY <1>3, <1>4, <1>5, <1>7 DEF IgFrames

\* One more frame, for what the last one does not find.
IgPushOk(om, os, st, g) ==
    /\ IgFrames(om, os, st) /\ st # <<>> /\ IgFrame(os, g) /\ Len(os) \in Nat
    /\ IgAsks(st[Len(st)]) /\ IgMakes(st[Len(st)], g) /\ g.field = 0 /\ IgPending(om, os, st) = {}
LEMMA IgPushed ==
    ASSUME NEW om, NEW os, NEW st, NEW g, NEW sn, IgPushOk(om, os, st, g), sn = Append(st, g)
    PROVE  IgFrames(om, os, sn)
  <1>1. PICK L, M : L = Len(st) /\ M = L + 1
    OBVIOUS
  <1>2. st \in Seq(IgFrameSet) /\ g \in IgFrameSet
    BY IgFrameIn DEF IgPushOk, IgFrames
  <1>3. L \in Nat /\ M \in Nat /\ M = L + 1
    <2>1. L \in Nat /\ M = L + 1
      BY <1>1, <1>2
    <2> QED
      BY ONLY <2>1
  <1>4. sn \in Seq(IgFrameSet) /\ Len(sn) = M /\ sn[M] = g /\ \A i \in 1..L : sn[i] = st[i]
    <2>1. M = Len(st) + 1 /\ sn = Append(st, g) /\ L = Len(st)
      BY <1>1
    <2> QED
      BY ONLY <1>2, <2>1
  <1>5. \A i \in 1..M : i # M => i \in 1..L
    BY ONLY <1>3
  <1>6. ASSUME NEW i \in 1..M PROVE IgFrame(os, sn[i])
    BY <1>1, <1>4, <1>5 DEF IgPushOk, IgFrames
  <1>7. ASSUME NEW i \in 2..M PROVE IgAsks(sn[i - 1]) /\ IgMakes(sn[i - 1], sn[i])
    <2>1. i \in 1..M /\ i - 1 \in 1..L /\ (i # M => i \in 2..L /\ i \in 1..L) /\ M - 1 = L
      BY ONLY <1>3, <1>7
    <2>2. CASE i = M
      BY <1>1, <1>4, <2>1, <2>2 DEF IgPushOk
    <2>3. CASE i # M
      BY <1>1, <1>4, <2>1, <2>3 DEF IgPushOk, IgFrames
    <2> QED
      BY <2>2, <2>3
  <1>8. ASSUME NEW i \in 1..M, sn[i].field > 0, sn[i].name \in Keys(om)
        PROVE  \E j \in i..M : Get(om, sn[i].name) \in IgUses(os, sn[j])
    <2>1. i \in 1..L /\ sn[i] = st[i]
      <3>1. g.field = 0
        BY DEF IgPushOk
      <3>2. i # M
        BY <1>4, <1>8, <3>1
      <3> QED
        BY <1>4, <1>5, <3>2
    <2>2. \E j \in i..L : Get(om, st[i].name) \in IgUses(os, st[j])
      BY <1>1, <1>8, <2>1 DEF IgPushOk, IgFrames, IgTaken
    <2>3. \A j \in i..L : j \in i..M /\ j \in 1..L
      BY ONLY <1>3, <2>1
    <2> QED
      BY <1>4, <2>1, <2>2, <2>3
  <1>9. IgTaken(om, os, sn)
    BY <1>4, <1>8 DEF IgTaken
  <1> QED
    BY <1>4, <1>6, <1>7, <1>9 DEF IgFrames

\* The last frame has stored its object and goes.
IgPopOk(om, os, lt, on, ot, mt, f, o, st) ==
    /\ IgGrew(om, os, lt, on, ot, mt, f, o) /\ IgFrames(om, os, st) /\ st # <<>> /\ f = st[Len(st)]
    /\ IgPending(om, os, st) = {}
LEMMA IgPopFrame ==
    ASSUME NEW om, NEW os, NEW lt, NEW on, NEW ot, NEW mt, NEW f, NEW o, IgGrew(om, os, lt, on, ot, mt, f, o),
           NEW g, IgFrame(os, g)
    PROVE  IgFrame(ot, g) /\ IgUses(ot, g) = IgUses(os, g)
  <1>1. g.deps \subseteq 1..Len(os) /\ \A d \in g.deps : IgClean(os, d)
    BY DEF IgFrame
  <1>2. \A x \in 1..Len(os) : x \in 1..Len(ot) /\ UsesIn(ot)[x] = UsesIn(os)[x]
    BY IgGrewOlder
  <1>3. ASSUME NEW d \in g.deps PROVE IgClean(ot, d) /\ UsesIn(ot)[d] = UsesIn(os)[d]
    <2>1. d \in 1..Len(os) /\ IgClean(os, d)
      BY <1>1
    <2>2. IgClean(ot, d)
      BY <2>1, IgGrewSame
    <2> QED
      BY <1>2, <2>1, <2>2
  <1>4. UNION {UsesIn(ot)[d] : d \in g.deps} = UNION {UsesIn(os)[d] : d \in g.deps}
    BY ONLY <1>3
  <1>5. g.deps \in SUBSET (1..Len(ot))
    BY <1>1, <1>2
  <1>6. IgFrame(ot, g)
    BY <1>3, <1>5 DEF IgFrame
  <1> QED
    BY <1>4, <1>6 DEF IgUses
\* The frame below finds the object.
LEMMA IgPopFound ==
    ASSUME NEW om, NEW os, NEW lt, NEW on, NEW ot, NEW mt, NEW f, NEW o, IgGrew(om, os, lt, on, ot, mt, f, o),
           NEW p, IgMakes(p, f)
    PROVE  {o} \cup IgUses(os, f) \subseteq IgComes(on, ot, p)
  <1>1. IgStoredTo(om, on, f, o) /\ IgFrame(os, f) /\ f.field > 0
    BY DEF IgGrew, IgAnother
  <1>2. f.name \in Keys(on) /\ Get(on, f.name) = o
    BY <1>1 DEF IgStoredTo
  <1>3. f.name # NoName
    BY <1>1 DEF IgFrame
  <1>4. NoName \notin Keys(on)
    <2>1. OmTypes(on)
      BY <1>1 DEF IgStoredTo, OmOk
    <2> QED
      BY <2>1, IgTypesApart DEF OmTypes, Keys
  <1>5. f.name \in IgFound(on, IgField(p))
    <2>1. CASE IgField(p).tag = NoName
      <3>1. f.name = IgField(p).type
        BY <1>3, <2>1 DEF IgMakes
      <3> QED
        BY <1>2, <1>4, <2>1, <3>1 DEF IgFound
    <2>2. CASE IgField(p).tag # NoName
      <3>1. f.name = IgField(p).tag
        BY <2>2 DEF IgMakes
      <3> QED
        BY <1>2, <3>1 DEF IgFound
    <2> QED
      BY <2>1, <2>2
  <1>6. UsesIn(ot)[o] = IgUses(os, f)
    BY IgGrewNew
  <1> QED
    BY <1>2, <1>5, <1>6 DEF IgComes
LEMMA IgPopped ==
    ASSUME NEW om, NEW os, NEW lt, NEW on, NEW ot, NEW mt, NEW f, NEW o, NEW st, NEW sn,
           IgPopOk(om, os, lt, on, ot, mt, f, o, st), sn = SubSeq(st, 1, Len(st) - 1)
    PROVE  IgFrames(on, ot, sn) /\ ((sn = <<>>) <=> (Len(st) = 1)) /\ Len(st) \in Nat /\ Len(st) >= 1
  <1>1. PICK L, M : L = Len(st) /\ M = Len(sn)
    OBVIOUS
  <1>2. IgGrew(om, os, lt, on, ot, mt, f, o) /\ IgFrames(om, os, st) /\ st # <<>> /\ f = st[L] /\ IgPending(om, os, st) = {}
    BY <1>1 DEF IgPopOk
  <1>3. st \in Seq(IgFrameSet)
    BY <1>2 DEF IgFrames
  <1>4. L \in Nat /\ L >= 1 /\ sn \in Seq(IgFrameSet) /\ M = L - 1 /\ \A i \in 1..(L - 1) : sn[i] = st[i]
    BY <1>1, <1>2, <1>3, IgBelow
  <1>5. M \in Nat /\ L = M + 1 /\ L \in 1..L /\ (\A i \in 1..M : sn[i] = st[i] /\ i \in 1..L) /\ \A i \in 2..M : i \in 2..L /\ i - 1 \in 1..M /\ i \in 1..M
    BY ONLY <1>4
  <1>6. (sn = <<>>) <=> (L = 1)
    <2>1. (sn = <<>>) <=> (M = 0)
      BY <1>1, <1>4, EmptySeq
    <2> QED
      BY ONLY <1>5, <2>1
  <1>7. ASSUME NEW i \in 1..M PROVE IgFrame(ot, sn[i]) /\ IgUses(ot, sn[i]) = IgUses(os, st[i])
    <2>1. IgFrame(os, st[i]) /\ sn[i] = st[i]
      BY <1>1, <1>2, <1>5 DEF IgFrames
    <2>2. PICK g : g = st[i]
      OBVIOUS
    <2>3. IgFrame(os, g)
      BY <2>1, <2>2
    <2>4. IgFrame(ot, g) /\ IgUses(ot, g) = IgUses(os, g)
      BY ONLY <1>2, <2>3, IgPopFrame
    <2> QED
      BY <2>1, <2>2, <2>4
  <1>8. ASSUME NEW i \in 2..M PROVE IgAsks(sn[i - 1]) /\ IgMakes(sn[i - 1], sn[i])
    <2>1. IgAsks(st[i - 1]) /\ IgMakes(st[i - 1], st[i])
      BY <1>1, <1>2, <1>5 DEF IgFrames
    <2> QED
      BY <1>5, <2>1
  <1>9. M >= 1 => {o} \cup IgUses(os, f) \subseteq IgPending(on, ot, sn)
    <2> SUFFICES ASSUME M >= 1 PROVE {o} \cup IgUses(os, f) \subseteq IgPending(on, ot, sn)
      OBVIOUS
    <2>1. L \in 2..L /\ L - 1 = M /\ M \in 1..M /\ L # 1
      BY ONLY <1>4, M >= 1
    <2>2. IgAsks(st[M]) /\ IgMakes(st[M], f) /\ sn[M] = st[M] /\ sn # <<>>
      BY <1>1, <1>2, <1>5, <1>6, <2>1 DEF IgFrames
    <2>3. {o} \cup IgUses(os, f) \subseteq IgComes(on, ot, sn[M])
      BY <1>2, <2>2, IgPopFound
    <2> QED
      BY <1>1, <2>2, <2>3 DEF IgPending
  <1>10. ASSUME NEW i \in 1..M, sn[i].field > 0, sn[i].name \in Keys(on)
         PROVE  \/ Get(on, sn[i].name) \in IgPending(on, ot, sn)
                \/ \E j \in i..M : Get(on, sn[i].name) \in IgUses(ot, sn[j])
    <2>1. PICK x, n : x = Get(on, sn[i].name) /\ n = sn[i].name
      OBVIOUS
    <2>2. M >= 1
      BY ONLY <1>5, <1>10
    <2>3. CASE x = o
      BY <1>9, <2>1, <2>2, <2>3
    <2>4. CASE x # o
      <3>1. n \in Keys(om) /\ x = Get(om, n)
        <4>1. n \in Keys(on) /\ Get(on, n) # o /\ x = Get(on, n)
          BY <1>10, <2>1, <2>4
        <4>2. n \in Keys(om) /\ Get(on, n) = Get(om, n)
          BY ONLY <1>2, <4>1, IgGrewKey
        <4> QED
          BY <4>1, <4>2
      <3>2. \E j \in i..L : x \in IgUses(os, st[j])
        <4>1. i \in 1..L /\ st[i].field > 0 /\ st[i].name = n
          BY <1>5, <1>10, <2>1
        <4>2. IgTaken(om, os, st)
          BY <1>2 DEF IgFrames
        <4> QED
          BY <1>1, <1>2, <3>1, <4>1, <4>2 DEF IgTaken
      <3>3. PICK j \in i..L : x \in IgUses(os, st[j])
        BY <3>2
      <3>4. CASE j = L
        BY <1>2, <1>9, <2>1, <2>2, <3>3, <3>4
      <3>5. CASE j # L
        <4>1. j \in i..M /\ j \in 1..M
          BY ONLY <1>5, <1>10, <3>3, <3>5
        <4> QED
          BY <1>7, <2>1, <3>3, <4>1
      <3> QED
        BY <3>4, <3>5
    <2> QED
      BY <2>3, <2>4
  <1>11. IgTaken(on, ot, sn)
    BY <1>1, <1>10 DEF IgTaken
  <1>12. IgFrames(on, ot, sn)
    BY <1>1, <1>4, <1>7, <1>8, <1>11 DEF IgFrames
  <1> QED
    BY <1>1, <1>4, <1>6, <1>12

\* Close of one object, as far as the objects know of it.
LEMMA IgCloseOne ==
    ASSUME NEW x \in IgObjectSet, x.closes = 0, NEW y, y = [x EXCEPT !.closes = @ + 1]
    PROVE  y \in IgObjectSet /\ y.name = x.name /\ y.type = x.type /\ y.deps = x.deps /\ y.closes = 1
  BY DEF IgObjectSet
LEMMA IgSeqExcept ==
    ASSUME NEW R, NEW s \in Seq(R), NEW o \in 1..Len(s), NEW y \in R, NEW t, t = [s EXCEPT ![o] = y]
    PROVE  t \in Seq(R) /\ Len(t) = Len(s) /\ t[o] = y /\ \A x \in 1..Len(s) : x # o => t[x] = s[x]
  OBVIOUS
IgCloses(os, o, ot) == IgObjects(os) /\ o \in 1..Len(os) /\ os[o].closes = 0 /\ ot = [os EXCEPT ![o].closes = @ + 1]
\* The same objects: only closes may have grown.
IgSame(os, ot) ==
    /\ IgObjects(ot) /\ Len(ot) = Len(os)
    /\ \A x \in 1..Len(os) : /\ ot[x].name = os[x].name /\ ot[x].type = os[x].type /\ ot[x].deps = os[x].deps
                             /\ os[x].closes = 1 => ot[x].closes = 1
                             /\ UsesIn(ot)[x] = UsesIn(os)[x]
LEMMA IgSameIs ==
    ASSUME NEW os, NEW ot, IgObjects(os), Len(ot) = Len(os), ot \in Seq(IgObjectSet),
           \A x \in 1..Len(os) : /\ ot[x].name = os[x].name /\ ot[x].type = os[x].type /\ ot[x].deps = os[x].deps
                                 /\ os[x].closes = 1 => ot[x].closes = 1
    PROVE  IgSame(os, ot)
  <1>1. IgObjects(ot)
    BY DEF IgObjects, IgObjectSet
  <1>2. IgDeps(os) /\ IgDeps(ot) /\ Len(os) \in Nat
    BY <1>1, IgObjectsAre
  <1>3. Len(os) <= Len(ot)
    BY <1>2
  <1>4. ASSUME NEW x \in 1..Len(os) PROVE UsesIn(ot)[x] = UsesIn(os)[x]
    BY <1>2, <1>3, IgUsesSame
  <1> QED
    BY <1>1, <1>4 DEF IgSame
LEMMA IgClosesIs ==
    ASSUME NEW os, NEW o, NEW ot, IgCloses(os, o, ot)
    PROVE  IgSame(os, ot) /\ ot[o].closes = 1 /\ \A x \in 1..Len(os) : x # o => ot[x].closes = os[x].closes
  <1>1. os \in Seq(IgObjectSet) /\ o \in 1..Len(os) /\ os[o].closes = 0 /\ IgObjects(os)
    BY DEF IgCloses, IgObjects, IgObjectSet
  <1>2. PICK x, y : x = os[o] /\ y = [x EXCEPT !.closes = @ + 1]
    OBVIOUS
  <1>3. x \in IgObjectSet /\ x.closes = 0
    BY ONLY <1>1, <1>2
  <1>4. y \in IgObjectSet /\ y.name = x.name /\ y.type = x.type /\ y.deps = x.deps /\ y.closes = 1
    BY ONLY <1>2, <1>3, IgCloseOne
  <1>5. ot = [os EXCEPT ![o] = y]
    BY <1>2 DEF IgCloses
  <1>6. ot \in Seq(IgObjectSet) /\ Len(ot) = Len(os) /\ ot[o] = y /\ \A z \in 1..Len(os) : z # o => ot[z] = os[z]
    BY ONLY <1>1, <1>4, <1>5, IgSeqExcept
  <1>7. ASSUME NEW z \in 1..Len(os)
        PROVE  /\ ot[z].name = os[z].name /\ ot[z].type = os[z].type /\ ot[z].deps = os[z].deps
               /\ os[z].closes = 1 => ot[z].closes = 1
    <2>1. CASE z = o
      BY <1>1, <1>2, <1>4, <1>6, <2>1
    <2>2. CASE z # o
      BY <1>6, <2>2
    <2> QED
      BY <2>1, <2>2
  <1>8. IgSame(os, ot)
    BY <1>1, <1>6, <1>7, IgSameIs
  <1> QED
    BY <1>4, <1>6, <1>8

\* What does not depend on closes.
LEMMA IgSameStored ==
    ASSUME NEW om, NEW os, NEW ot, NEW lt, IgObjects(os), IgSame(os, ot), lt \subseteq 1..Len(os),
           IgLeads(om, os), IgHeld(om, os, lt), IgPlaced(om, os, lt)
    PROVE  IgLeads(om, ot) /\ IgHeld(om, ot, lt) /\ IgPlaced(om, ot, lt)
  <1>1. \A x \in 1..Len(os) : ot[x].name = os[x].name /\ ot[x].type = os[x].type /\ UsesIn(ot)[x] = UsesIn(os)[x]
    BY DEF IgSame
  <1>2. Len(ot) = Len(os)
    BY DEF IgSame
  <1>3. IgLeads(om, ot)
    BY <1>1, <1>2 DEF IgLeads
  <1>4. ASSUME NEW u \in 1..Len(os) PROVE IgHolds(om, ot, u) <=> IgHolds(om, os, u)
    BY <1>1 DEF IgHolds
  <1>5. ASSUME NEW u \in 1..Len(os), IgLost(os, lt, u) PROVE IgLost(ot, lt, u)
    BY <1>1, <1>5 DEF IgLost
  <1>6. ASSUME NEW k \in Keys(om) PROVE IgHolds(om, ot, Get(om, k)) \/ IgLost(ot, lt, Get(om, k))
    <2>1. Get(om, k) \in 1..Len(os) /\ (IgHolds(om, os, Get(om, k)) \/ IgLost(os, lt, Get(om, k)))
      BY DEF IgLeads, IgHeld
    <2> QED
      BY <1>4, <1>5, <2>1
  <1>7. IgPlaced(om, ot, lt)
    BY <1>1, <1>2, <1>4 DEF IgPlaced
  <1> QED
    BY <1>3, <1>6, <1>7 DEF IgHeld

\* One step of the walk of Close.
IgVisited(om, os, c, ks, ot, kt) ==
    /\ OmOk(om) /\ IgObjects(os) /\ IgLeads(om, os) /\ IgClosing(om, os, c, ks) /\ c \in 1..Len(om.key) /\ IgSame(os, ot)
    /\ \A x \in 1..Len(os) : ot[x].closes # os[x].closes => om.key[c] \in Keys(om) /\ x = Get(om, om.key[c])
    /\ om.key[c] \in Keys(om) /\ os[Get(om, om.key[c])].type \in CloseAble => ot[Get(om, om.key[c])].closes = 1
    /\ (\A i \in 1..Len(ks) : \E j \in 1..Len(kt) : kt[j] = ks[i]) /\ (\E j \in 1..Len(kt) : kt[j] = om.key[c])
LEMMA IgVisitedOn ==
    ASSUME NEW om, NEW os, NEW c, NEW ks, NEW ot, NEW kt, IgVisited(om, os, c, ks, ot, kt)
    PROVE  IgClosing(om, ot, om.prev[c], kt) /\ om.prev[c] \in 0..Len(om.key)
  <1>1. PICK p, L, B : p = om.prev[c] /\ L = Len(om.key) /\ B = Behind(om)
    OBVIOUS
  <1>2. OmLinks(om) /\ OmTypes(om) /\ OmNewest(om) /\ c \in 1..L
    BY <1>1, OmOkLinks DEF IgVisited, OmOk
  <1>3. L \in Nat /\ c \in 1..L /\ p \in 0..L /\ p < c /\ c \in 0..L
    BY <1>1, <1>2 DEF OmLinks
  <1>4. (p = 0 => B[c] = {}) /\ (p # 0 => B[c] = {p} \cup B[p])
    BY <1>1, <1>2, <1>3, OmBehindAt DEF Root
  <1>5. p # 0 => B[p] \subseteq 1..(p - 1)
    <2>1. p # 0 => p \in 1..L
      BY ONLY <1>3
    <2> QED
      BY <1>1, <1>2, <2>1, OmBehindBelow
  <1>6. ASSUME NEW k \in Keys(om)
        PROVE  /\ om.mapper[k] \in 1..L /\ om.key[om.mapper[k]] = k
               /\ om.mapper[k] > c \/ om.mapper[k] = c \/ om.mapper[k] \in B[c]
    BY <1>1, <1>2 DEF OmTypes, OmNewest, Keys, IgVisited, IgClosing
  <1>7. ASSUME NEW k \in Keys(om) PROVE om.mapper[k] > p \/ om.mapper[k] = p \/ om.mapper[k] \in B[p]
    <2>1. om.mapper[k] \in 1..L /\ (om.mapper[k] > c \/ om.mapper[k] = c \/ om.mapper[k] \in B[c])
      BY <1>6
    <2>2. om.mapper[k] \in B[c] => om.mapper[k] = p \/ om.mapper[k] \in B[p]
      BY <1>4
    <2>3. om.mapper[k] >= c => om.mapper[k] > p
      BY ONLY <1>3, <2>1
    <2> QED
      BY ONLY <1>3, <2>1, <2>2, <2>3
  <1>8. ASSUME NEW k \in Keys(om), om.mapper[k] > p PROVE om.mapper[k] > c \/ k = om.key[c]
    <2>1. om.mapper[k] \in 1..L /\ (om.mapper[k] > c \/ om.mapper[k] = c \/ om.mapper[k] \in B[c])
      BY <1>6
    <2>2. om.mapper[k] \notin B[c]
      BY <1>3, <1>4, <1>5, <1>8, <2>1
    <2> QED
      BY <1>6, <2>1, <2>2
  <1>9. \A x \in 1..Len(os) : /\ ot[x].type = os[x].type /\ UsesIn(ot)[x] = UsesIn(os)[x]
                              /\ os[x].closes = 1 => ot[x].closes = 1
    BY DEF IgVisited, IgSame
  <1>10. ASSUME NEW k \in Keys(om), om.mapper[k] > p
         PROVE  /\ ot[Get(om, k)].type \in CloseAble => ot[Get(om, k)].closes = 1
                /\ \E i \in 1..Len(kt) : kt[i] = k
    <2>1. Get(om, k) \in 1..Len(os)
      BY DEF IgVisited, IgLeads
    <2>2. CASE om.mapper[k] > c
      <3>1. os[Get(om, k)].type \in CloseAble => os[Get(om, k)].closes = 1
        BY <2>2 DEF IgVisited, IgClosing
      <3>2. \E i \in 1..Len(ks) : ks[i] = k
        BY <2>2 DEF IgVisited, IgClosing
      <3>3. \E i \in 1..Len(kt) : kt[i] = k
        BY <3>2 DEF IgVisited
      <3> QED
        BY <1>9, <2>1, <3>1, <3>3
    <2>3. CASE k = om.key[c]
      BY <1>9, <2>1, <2>3 DEF IgVisited
    <2> QED
      BY <1>8, <1>10, <2>2, <2>3
  <1>11. ASSUME NEW x \in Keys(om), NEW d \in UsesIn(ot)[Get(om, x)] \cup {Get(om, x)}, ot[d].closes = 1
         PROVE  \E k \in Keys(om) : Get(om, k) = d /\ om.mapper[k] > p
    <2>1. Get(om, x) \in 1..Len(os) /\ IgObjects(os)
      BY DEF IgVisited, IgLeads
    <2>2. UsesIn(ot)[Get(om, x)] = UsesIn(os)[Get(om, x)]
      BY <1>9, <2>1
    <2>3. d \in 1..Len(os)
      BY <2>1, <2>2, IgUsesOlder
    <2>4. CASE os[d].closes = 1
      <3>1. PICK k \in Keys(om) : Get(om, k) = d /\ om.mapper[k] > c
        BY <2>2, <2>4 DEF IgVisited, IgClosing
      <3>2. om.mapper[k] \in 1..L
        BY <1>6
      <3>3. om.mapper[k] > p
        BY ONLY <1>3, <3>1, <3>2
      <3> QED
        BY <3>1, <3>3
    <2>5. CASE os[d].closes # 1
      <3>1. om.key[c] \in Keys(om) /\ d = Get(om, om.key[c])
        BY <1>11, <2>3, <2>5 DEF IgVisited
      <3>2. c <= om.mapper[om.key[c]] /\ om.mapper[om.key[c]] \in 1..L
        BY <1>1, <1>2, <1>6, <3>1 DEF OmNewest
      <3>3. om.mapper[om.key[c]] > p
        BY ONLY <1>3, <3>2
      <3> QED
        BY <3>1, <3>3
    <2> QED
      BY <2>4, <2>5
  <1>12. IgClosing(om, ot, p, kt)
    BY <1>1, <1>7, <1>10, <1>11 DEF IgClosing
  <1> QED
    BY <1>1, <1>3, <1>12
\* The walk begins at the newest node.
LEMMA IgClosingBegins ==
    ASSUME NEW om, NEW os, NEW ks, OmOk(om), WalkComplete(om), IgAllClean(om, os)
    PROVE  IgClosing(om, os, om.prev[Root], ks) /\ om.prev[Root] \in 0..Len(om.key)
  <1>1. PICK p, L, B : p = om.prev[0] /\ L = Len(om.key) /\ B = Behind(om)
    OBVIOUS
  <1>2. OmLinks(om)
    BY OmOkLinks
  <1>3. L \in Nat /\ 0 \in 0..L /\ p \in 0..L
    BY <1>1, <1>2 DEF OmLinks
  <1>4. (p = 0 => B[0] = {}) /\ (p # 0 => B[0] = {p} \cup B[p])
    BY <1>1, <1>2, <1>3, OmBehindAt DEF Root
  <1>5. p # 0 => B[p] \subseteq 1..(p - 1)
    <2>1. p # 0 => p \in 1..L
      BY ONLY <1>3
    <2> QED
      BY <1>1, <1>2, <2>1, OmBehindBelow
  <1>6. ASSUME NEW k \in Keys(om) PROVE (om.mapper[k] = p \/ om.mapper[k] \in B[p]) /\ ~(om.mapper[k] > p)
    <2>1. om.mapper[k] \in B[0]
      BY <1>1 DEF WalkComplete, Root
    <2> QED
      BY <1>3, <1>4, <1>5, <2>1
  <1>7. ASSUME NEW x \in Keys(om), NEW d \in UsesIn(os)[Get(om, x)] \cup {Get(om, x)} PROVE os[d].closes # 1
    BY DEF IgAllClean, IgClean
  <1>8. IgClosing(om, os, p, ks)
    BY <1>1, <1>6, <1>7 DEF IgClosing
  <1> QED
    BY <1>1, <1>3, <1>8 DEF Root

\* Frames as register makes and changes them.
LEMMA IgNewFrame ==
    ASSUME NEW n \in Names \cup {NoName}, NEW t \in Types, NEW s \in BOOLEAN, NEW noFill \in BOOLEAN,
           NEW value \in {"nil", "zero", "set"}, NEW os, NEW f, f = NewFrame(n, t, s, noFill, value)
    PROVE  IgFrame(os, f) /\ f.field = 0 /\ f.name = n /\ f.type = t /\ f.deps = {}
  <1>1. f.name = n /\ f.type = t /\ f.field = 0 /\ f.deps = {}
    BY DEF NewFrame
  <1>2. f \in [name : Names \cup Types \cup {NoName}, type : Types, singleton : BOOLEAN,
              value : {"nil", "zero", "set", "kept"}, field : Nat, deps : SUBSET (1..Len(os))]
    BY DEF NewFrame
  <1>3. f.singleton => f.type \in Structs
    BY DEF NewFrame
  <1>4. f.field <= Len(FieldsOf(f.type)) + 1
    <2>1. FieldsOf(t) \in Seq(Field)
      BY GraphAssumption DEF FieldsOf
    <2>2. Len(FieldsOf(t)) \in Nat
      BY <2>1
    <2> QED
      BY <1>1, <2>2
  <1>5. n \notin Types
    BY IgTypesApart
  <1> QED
    BY <1>1, <1>2, <1>3, <1>4, <1>5 DEF IgFrame
IgNil(n, t, s) == NewFrame(n, t, s, FALSE, "nil")
LEMMA IgNilFrame ==
    ASSUME NEW n \in Names \cup {NoName}, NEW t \in Types, NEW s \in BOOLEAN, NEW os,
           NEW f, f = IgNil(n, t, s)
    PROVE  IgFrame(os, f) /\ f.field = 0 /\ f.name = n /\ f.type = t /\ f.deps = {}
  <1>1. f.name = n /\ f.type = t /\ f.field = 0 /\ f.deps = {}
    BY DEF NewFrame, IgNil
  <1>2. f \in [name : Names \cup Types \cup {NoName}, type : Types, singleton : BOOLEAN,
              value : {"nil", "zero", "set", "kept"}, field : Nat, deps : SUBSET (1..Len(os))]
    BY DEF NewFrame, IgNil
  <1>3. f.singleton => f.type \in Structs
    BY DEF NewFrame, IgNil
  <1>4. f.field <= Len(FieldsOf(f.type)) + 1
    <2>1. FieldsOf(t) \in Seq(Field)
      BY GraphAssumption DEF FieldsOf
    <2>2. Len(FieldsOf(t)) \in Nat
      BY <2>1
    <2> QED
      BY <1>1, <2>2
  <1>5. n \notin Types
    BY IgTypesApart
  <1> QED
    BY <1>1, <1>2, <1>3, <1>4, <1>5 DEF IgFrame
IgBegun(f, n) == [f EXCEPT !.name = n, !.field = 1]
LEMMA IgBegunFrame ==
    ASSUME NEW f \in IgFrameSet, NEW n \in Names \cup Types, NEW g, g = IgBegun(f, n)
    PROVE  /\ g \in IgFrameSet /\ g.name = n /\ g.field = 1 /\ g.type = f.type /\ g.deps = f.deps
           /\ g.singleton = f.singleton /\ g.value = f.value
  BY DEF IgFrameSet, IgBegun
IgFilled(f, D) == NextField([f EXCEPT !.deps = D])
LEMMA IgNextFrame ==
    ASSUME NEW f \in IgFrameSet, NEW D \in SUBSET Nat, NEW g, g = IgFilled(f, D)
    PROVE  /\ g \in IgFrameSet /\ g.name = f.name /\ g.field = f.field + 1 /\ g.type = f.type /\ g.deps = D
           /\ g.singleton = f.singleton /\ g.value = f.value
  <1>1. PICK h : h = [f EXCEPT !.deps = D]
    OBVIOUS
  <1>2. /\ h \in IgFrameSet /\ h.name = f.name /\ h.field = f.field /\ h.type = f.type /\ h.deps = D
        /\ h.singleton = f.singleton /\ h.value = f.value
    BY ONLY <1>1, f \in IgFrameSet, D \in SUBSET Nat DEF IgFrameSet
  <1>3. g = [h EXCEPT !.field = h.field + 1]
    BY <1>1 DEF NextField, IgFilled
  <1>4. /\ g \in IgFrameSet /\ g.name = h.name /\ g.field = h.field + 1 /\ g.type = h.type /\ g.deps = h.deps
        /\ g.singleton = h.singleton /\ g.value = h.value
    BY ONLY <1>2, <1>3 DEF IgFrameSet
  <1> QED
    BY <1>2, <1>4
LEMMA IgFieldFrame ==
    ASSUME NEW f \in IgFrameSet, NEW g, g = NextField(f)
    PROVE  /\ g \in IgFrameSet /\ g.name = f.name /\ g.field = f.field + 1 /\ g.type = f.type /\ g.deps = f.deps
           /\ g.singleton = f.singleton /\ g.value = f.value
  <1>1. g = [f EXCEPT !.field = f.field + 1]
    BY DEF NextField
  <1> QED
    BY ONLY <1>1, f \in IgFrameSet DEF IgFrameSet

\* A frame that is like another one, up to its name, its field and its deps.
LEMMA IgFrameOf ==
    ASSUME NEW os, NEW f, NEW g \in IgFrameSet, IgFrame(os, f), g.type = f.type, g.singleton = f.singleton,
           g.field <= Len(FieldsOf(g.type)) + 1, g.name \in Types => g.name = g.type, g.name # NoName,
           \A d \in g.deps : d \in 1..Len(os) /\ IgClean(os, d)
    PROVE  IgFrame(os, g)
  <1>1. g.deps \in SUBSET (1..Len(os))
    OBVIOUS
  <1>2. g \in [name : Names \cup Types \cup {NoName}, type : Types, singleton : BOOLEAN,
              value : {"nil", "zero", "set", "kept"}, field : Nat, deps : SUBSET (1..Len(os))]
    BY ONLY <1>1, g \in IgFrameSet DEF IgFrameSet
  <1>3. g.singleton => g.type \in Structs
    BY DEF IgFrame
  <1> QED
    BY <1>2, <1>3 DEF IgFrame

\* No frame, and one frame.
LEMMA IgNoFrames == ASSUME NEW om, NEW os PROVE IgFrames(om, os, <<>>)
  BY DEF IgFrames, IgTaken
LEMMA IgOneFrame ==
    ASSUME NEW om, NEW os, Len(os) \in Nat, NEW f, IgFrame(os, f), f.field = 0, NEW st, st = <<f>>
    PROVE  IgFrames(om, os, st)
  <1>1. f \in IgFrameSet
    BY IgFrameIn
  <1>2. st \in Seq(IgFrameSet) /\ Len(st) = 1 /\ st[1] = f
    BY ONLY <1>1, st = <<f>>
  <1>3. (\A i \in 1..Len(st) : i = 1) /\ ~\E i \in 2..Len(st) : TRUE
    BY ONLY <1>2
  <1> QED
    BY <1>2, <1>3 DEF IgFrames, IgTaken

LEMMA IgInit == Init => IgInv
  <1> SUFFICES ASSUME Init PROVE IgInv
    OBVIOUS
  <1>1. /\ named = NewOrderedMap /\ objs = <<>> /\ stack = <<>> /\ keys = <<>> /\ pc = "idle" /\ curr = 0 /\ calls = 0
        /\ evicted = {} /\ late = {}
    BY DEF Init, Root
  <1>2. PICK om : om = NewOrderedMap
    OBVIOUS
  <1>3. /\ om.store = [k \in {} |-> {}] /\ om.mapper = [k \in {} |-> Root] /\ om.key = <<>>
        /\ om.prev = [n \in {Root} |-> Root] /\ om.next = [n \in {Root} |-> Root]
    BY <1>2 DEF NewOrderedMap
  <1>4. OmShape(om)
    BY <1>2 DEF OmShape, NewOrderedMap
  <1>5. Len(om.key) = 0 /\ om.key \in Seq(IgNames) /\ 0..0 = {0} /\ 1..0 = {} /\ DOMAIN om.store = {} /\ DOMAIN om.mapper = {}
    BY <1>3
  <1>6. OmTypes(om)
    <2>1. om.store \in [DOMAIN om.store -> Nat] /\ om.mapper \in [DOMAIN om.mapper -> 1..Len(om.key)]
      BY <1>3, <1>5
    <2>2. om.prev \in [0..Len(om.key) -> 0..Len(om.key)] /\ om.next \in [0..Len(om.key) -> 0..Len(om.key)]
      BY <1>3, <1>5 DEF Root
    <2> QED
      BY <1>5, <2>1, <2>2 DEF OmTypes
  <1>7. OmNewest(om)
    BY <1>5 DEF OmNewest
  <1>8. LinksOrdered(om)
    BY <1>5 DEF LinksOrdered, Nodes, Root
  <1>9. OmOk(om) /\ WalkComplete(om) /\ Keys(om) = {}
    BY <1>4, <1>5, <1>6, <1>7, <1>8 DEF OmOk, WalkComplete, Keys
  <1>10. IgObjects(objs)
    BY <1>1 DEF IgObjects
  <1>11. IgGraph(om, objs, evicted, late)
    BY <1>1, <1>9, <1>10 DEF IgGraph, IgLeads, IgHeld, IgPlaced, IgKept, IgEvicts
  <1>12. IgFrames(om, objs, stack)
    BY <1>1, IgNoFrames
  <1>13. keys \in Seq(IgNames) /\ calls \in 0..MaxCalls /\ curr \in 0..Len(om.key)
    BY <1>1, <1>5, GraphAssumption
  <1>14. IgPhase
    BY <1>1, <1>2, <1>9, <1>13 DEF IgPhase, IgAllClean
  <1> QED
    BY <1>1, <1>2, <1>11, <1>12, <1>14 DEF IgInv

\* The frames change and nothing else does.
LEMMA IgStep ==
    ASSUME IgInv, UNCHANGED <<graphVars, callVars>>, IgFrames(named, objs, stack'), pc # "close",
           pc' \in {"idle", "register"}, (stack' = <<>>) <=> (pc' # "register")
    PROVE  IgInv'
  <1>1. named' = named /\ objs' = objs /\ evicted' = evicted /\ late' = late /\ calls' = calls /\ curr' = curr /\ keys' = keys
    BY DEF graphVars, callVars
  <1>2. IgGraph(named', objs', evicted', late') /\ IgFrames(named', objs', stack')
    BY <1>1 DEF IgInv
  <1>3. IgPhase'
    BY <1>1 DEF IgInv, IgPhase
  <1> QED
    BY <1>2, <1>3 DEF IgInv
LEMMA IgFail == ASSUME IgInv, pc = "register", Fail PROVE IgInv'
  <1>1. IgFrames(named, objs, <<>>)
    BY IgNoFrames
  <1> QED
    BY <1>1, IgStep DEF Fail

\* The frame on top of the stack.
LEMMA IgTop ==
    ASSUME IgInv, pc = "register"
    PROVE  /\ stack # <<>> /\ Len(stack) \in Nat /\ Len(stack) >= 1 /\ Len(stack) \in 1..Len(stack) /\ Len(objs) \in Nat
           /\ IgFrame(objs, Top) /\ Top \in IgFrameSet /\ Top = stack[Len(stack)] /\ IgFrames(named, objs, stack)
           /\ Len(stack) >= 2 => IgAsks(stack[Len(stack) - 1]) /\ IgMakes(stack[Len(stack) - 1], Top)
  <1>1. IgFrames(named, objs, stack) /\ stack # <<>> /\ IgObjects(objs)
    BY DEF IgInv, IgPhase, IgGraph
  <1>2. stack \in Seq(IgFrameSet)
    BY <1>1 DEF IgFrames
  <1>3. Len(stack) \in Nat /\ Len(stack) >= 1
    BY <1>1, <1>2, IgBelow
  <1>4. Len(stack) \in 1..Len(stack) /\ (Len(stack) >= 2 => Len(stack) \in 2..Len(stack))
    BY <1>3
  <1>5. Len(objs) \in Nat
    BY <1>1, IgObjectsAre
  <1>6. IgFrame(objs, Top)
    BY <1>1, <1>4 DEF IgFrames, Top
  <1>7. Top \in IgFrameSet
    BY <1>5, <1>6, IgFrameIn
  <1>8. Len(stack) >= 2 => IgAsks(stack[Len(stack) - 1]) /\ IgMakes(stack[Len(stack) - 1], Top)
    BY <1>1, <1>4 DEF IgFrames, Top
  <1> QED
    BY <1>1, <1>3, <1>4, <1>5, <1>6, <1>7, <1>8 DEF Top

\* Another frame on top, with nothing else changed.
LEMMA IgReplace ==
    ASSUME IgInv, pc = "register", NEW g, IgTopOk(named, objs, stack, g), Replace(g), UNCHANGED <<graphVars, callVars, pc>>
    PROVE  IgInv'
  <1>1. stack' = Append(SubSeq(stack, 1, Len(stack) - 1), g)
    BY DEF Replace, Below
  <1>2. IgFrames(named, objs, stack')
    BY <1>1, IgReplaced
  <1>3. stack' # <<>>
    BY <1>1
  <1> QED
    BY <1>2, <1>3, IgStep

\* The pending dependency of the frame on top.
LEMMA IgTopPending ==
    ASSUME IgInv, pc = "register"
    PROVE  /\ IgPending(named, objs, stack) =
                IF AtField /\ Top.value # "set" THEN UNION {{Get(named, k)} \cup Uses[Get(named, k)] : k \in Found} ELSE {}
           /\ IgAsks(Top) <=> (AtField /\ Top.value # "set")
           /\ IgField(Top) = F
  <1>1. stack # <<>> /\ Top = stack[Len(stack)]
    BY IgTop
  <1>2. IgAsks(Top) <=> (AtField /\ Top.value # "set")
    BY DEF IgAsks, AtField
  <1>3. IgField(Top) = F
    BY DEF IgField, F
  <1>4. IgFound(named, IgField(Top)) = Found
    BY <1>3 DEF IgFound, Found
  <1>5. IgComes(named, objs, Top) = UNION {{Get(named, k)} \cup Uses[Get(named, k)] : k \in Found}
    BY <1>4 DEF IgComes, Uses
  <1> QED
    BY <1>1, <1>2, <1>3, <1>5 DEF IgPending

LEMMA IgRegister ==
    ASSUME IgInv, NEW n \in Names \cup {NoName}, NEW t \in Structs \cup Plains, NEW s \in BOOLEAN, NEW noFill \in BOOLEAN,
           NEW value \in {"nil", "zero", "set"}, Register(n, t, s, noFill, value)
    PROVE  IgInv'
  <1>1. /\ named' = named /\ objs' = objs /\ evicted' = evicted /\ late' = late /\ curr' = curr /\ keys' = keys
        /\ pc = "idle" /\ pc' = "register" /\ calls' = calls + 1 /\ calls < MaxCalls
    BY DEF Register, graphVars
  <1>2. PICK f : f = NewFrame(n, t, s, noFill, value)
    OBVIOUS
  <1>3. t \in Types
    BY DEF Types
  <1>4. IgFrame(objs, f) /\ f.field = 0
    BY <1>2, <1>3, IgNewFrame
  <1>5. stack' = <<f>> /\ stack' # <<>>
    BY <1>2 DEF Register
  <1>6. Len(objs) \in Nat
    BY IgObjectsAre DEF IgInv, IgGraph
  <1>7. IgFrames(named, objs, stack')
    BY <1>4, <1>5, <1>6, IgOneFrame
  <1>8. calls' \in 0..MaxCalls
    BY <1>1, GraphAssumption DEF IgInv, IgPhase
  <1>9. IgPhase'
    BY <1>1, <1>5, <1>8 DEF IgInv, IgPhase
  <1> QED
    BY <1>1, <1>7, <1>9 DEF IgInv

LEMMA IgBegin == ASSUME IgInv, Begin PROVE IgInv'
  <1>1. pc = "register" /\ Top.field = 0 /\ FullName \notin Keys(named) \cup {NoName}
    BY DEF Begin
  <1>2. PICK f, n, g : f = Top /\ n = FullName /\ g = IgBegun(f, n)
    OBVIOUS
  <1>3. IgFrame(objs, f) /\ f \in IgFrameSet /\ f = stack[Len(stack)] /\ stack # <<>> /\ IgFrames(named, objs, stack) /\ Len(objs) \in Nat
    BY <1>1, <1>2, IgTop
  <1>4. /\ f.name \in Names \cup Types \cup {NoName} /\ f.type \in Types /\ (f.name \in Types => f.name = f.type)
        /\ f.deps \subseteq 1..Len(objs) /\ \A d \in f.deps : IgClean(objs, d)
    BY <1>3 DEF IgFrame
  <1>5. n = (IF f.name = NoName /\ f.type \in Structs THEN f.type ELSE f.name) /\ n \notin Keys(named) /\ n # NoName
    BY <1>1, <1>2 DEF FullName
  <1>6. n \in Names \cup Types /\ (n \in Types => n = f.type)
    BY <1>4, <1>5
  <1>7. /\ g \in IgFrameSet /\ g.name = n /\ g.field = 1 /\ g.type = f.type /\ g.deps = f.deps
        /\ g.singleton = f.singleton /\ g.value = f.value
    BY <1>2, <1>3, <1>6, IgBegunFrame
  <1>8. g.field <= Len(FieldsOf(g.type)) + 1
    <2>1. FieldsOf(f.type) \in Seq(Field)
      BY GraphAssumption DEF FieldsOf
    <2>2. Len(FieldsOf(f.type)) \in Nat
      BY <2>1
    <2> QED
      BY <1>7, <2>2
  <1>9. IgFrame(objs, g)
    BY <1>3, <1>4, <1>5, <1>6, <1>7, <1>8, IgFrameOf
  <1>10. Len(stack) >= 2 => IgMakes(stack[Len(stack) - 1], g)
    <2>1. Len(stack) >= 2 => IgMakes(stack[Len(stack) - 1], f)
      BY <1>1, <1>2, IgTop
    <2> QED
      BY <1>5, <1>7, <2>1 DEF IgMakes
  <1>11. IgPending(named, objs, stack) = {}
    <2>1. ~AtField
      BY <1>1 DEF AtField
    <2> QED
      BY <1>1, <2>1, IgTopPending
  <1>12. IgUses(objs, g) = IgUses(objs, f)
    BY <1>7 DEF IgUses
  <1>13. IgTopOk(named, objs, stack, g)
    BY <1>3, <1>5, <1>7, <1>9, <1>10, <1>11, <1>12 DEF IgTopOk
  <1> QED
    BY <1>1, <1>2, <1>13, IgReplace DEF Begin, IgBegun

LEMMA IgAtField ==
    ASSUME IgInv, AtField
    PROVE  /\ pc = "register" /\ Top.field \in Nat /\ Top.field + 1 <= Len(FieldsOf(Top.type)) + 1 /\ Top.field > 0
           /\ Top.name # NoName /\ F \in Field
  <1>1. pc = "register" /\ Top.field \in 1..Len(FieldsOf(Top.type))
    BY DEF AtField
  <1>2. IgFrame(objs, Top)
    BY <1>1, IgTop
  <1>3. FieldsOf(Top.type) \in Seq(Field)
    BY GraphAssumption DEF FieldsOf
  <1>4. Len(FieldsOf(Top.type)) \in Nat /\ F \in Field
    BY <1>1, <1>3 DEF F
  <1>5. Top.field \in Nat /\ Top.field + 1 <= Len(FieldsOf(Top.type)) + 1 /\ Top.field > 0
    BY <1>1, <1>4
  <1> QED
    BY <1>1, <1>2, <1>4, <1>5 DEF IgFrame

LEMMA IgFieldSkip == ASSUME IgInv, FieldSkip PROVE IgInv'
  <1>1. AtField /\ pc = "register" /\ Top.field + 1 <= Len(FieldsOf(Top.type)) + 1 /\ Top.field > 0 /\ Top.name # NoName
    BY IgAtField DEF FieldSkip
  <1>2. PICK f, g : f = Top /\ g = NextField(f)
    OBVIOUS
  <1>3. IgFrame(objs, f) /\ f \in IgFrameSet /\ f = stack[Len(stack)] /\ stack # <<>> /\ IgFrames(named, objs, stack) /\ Len(objs) \in Nat
    BY <1>1, <1>2, IgTop
  <1>4. /\ (f.name \in Types => f.name = f.type)
        /\ f.deps \subseteq 1..Len(objs) /\ \A d \in f.deps : IgClean(objs, d)
    BY <1>3 DEF IgFrame
  <1>5. /\ g \in IgFrameSet /\ g.name = f.name /\ g.field = f.field + 1 /\ g.type = f.type /\ g.deps = f.deps
        /\ g.singleton = f.singleton /\ g.value = f.value
    BY <1>2, <1>3, IgFieldFrame
  <1>6. IgFrame(objs, g)
    <2>1. g.field <= Len(FieldsOf(g.type)) + 1 /\ g.name # NoName /\ (g.name \in Types => g.name = g.type)
      BY <1>1, <1>2, <1>4, <1>5
    <2>2. \A d \in g.deps : d \in 1..Len(objs) /\ IgClean(objs, d)
      BY <1>4, <1>5
    <2> QED
      BY <1>3, <1>5, <2>1, <2>2, IgFrameOf
  <1>7. Len(stack) >= 2 => IgMakes(stack[Len(stack) - 1], g)
    <2>1. Len(stack) >= 2 => IgMakes(stack[Len(stack) - 1], f)
      BY <1>1, <1>2, IgTop
    <2> QED
      BY <1>5, <2>1 DEF IgMakes
  <1>8. IgPending(named, objs, stack) = {}
    <2>1. Top.value = "set" \/ Found = {}
      BY DEF FieldSkip
    <2> QED
      BY <1>1, <2>1, IgTopPending
  <1>9. IgUses(objs, g) = IgUses(objs, f)
    BY <1>5 DEF IgUses
  <1>10. IgTopOk(named, objs, stack, g)
    BY <1>1, <1>2, <1>3, <1>5, <1>6, <1>7, <1>8, <1>9 DEF IgTopOk
  <1> QED
    BY <1>1, <1>2, <1>10, IgReplace DEF FieldSkip

LEMMA IgFieldFill == ASSUME IgInv, FieldFill PROVE IgInv'
  <1>1. AtField /\ pc = "register" /\ Top.field + 1 <= Len(FieldsOf(Top.type)) + 1 /\ Top.field > 0 /\ Top.name # NoName /\ Top.value # "set"
    BY IgAtField DEF FieldFill
  <1>2. PICK k \in Found : Replace(NextField([Top EXCEPT !.deps = @ \cup {Get(named, k)}]))
    BY DEF FieldFill
  <1>3. PICK f, x, D : f = Top /\ x = Get(named, k) /\ D = f.deps \cup {x}
    OBVIOUS
  <1>4. PICK g : g = IgFilled(f, D)
    OBVIOUS
  <1>5. Replace(g)
    BY <1>2, <1>3, <1>4 DEF IgFilled
  <1>6. IgFrame(objs, f) /\ f \in IgFrameSet /\ f = stack[Len(stack)] /\ stack # <<>> /\ IgFrames(named, objs, stack) /\ Len(objs) \in Nat
    BY <1>1, <1>3, IgTop
  <1>7. /\ (f.name \in Types => f.name = f.type)
        /\ f.deps \subseteq 1..Len(objs) /\ \A d \in f.deps : IgClean(objs, d)
    BY <1>6 DEF IgFrame
  <1>8. k \in Keys(named)
    BY <1>2 DEF Found
  <1>9. x \in 1..Len(objs) /\ IgClean(objs, x)
    BY <1>1, <1>3, <1>8 DEF IgInv, IgGraph, IgLeads, IgPhase, IgAllClean
  <1>10. D \in SUBSET Nat
    BY <1>3, <1>6, <1>7, <1>9
  <1>11. /\ g \in IgFrameSet /\ g.name = f.name /\ g.field = f.field + 1 /\ g.type = f.type /\ g.deps = D
         /\ g.singleton = f.singleton /\ g.value = f.value
    BY <1>4, <1>6, <1>10, IgNextFrame
  <1>12. IgFrame(objs, g)
    <2>1. g.field <= Len(FieldsOf(g.type)) + 1 /\ g.name # NoName /\ (g.name \in Types => g.name = g.type)
      BY <1>1, <1>3, <1>7, <1>11
    <2>2. \A d \in g.deps : d \in 1..Len(objs) /\ IgClean(objs, d)
      BY <1>3, <1>7, <1>9, <1>11
    <2> QED
      BY <1>6, <1>11, <2>1, <2>2, IgFrameOf
  <1>13. Len(stack) >= 2 => IgMakes(stack[Len(stack) - 1], g)
    <2>1. Len(stack) >= 2 => IgMakes(stack[Len(stack) - 1], f)
      BY <1>1, <1>3, IgTop
    <2> QED
      BY <1>11, <2>1 DEF IgMakes
  <1>14. IgPending(named, objs, stack) \subseteq {x} \cup UsesIn(objs)[x]
    <2>1. IgPending(named, objs, stack) = UNION {{Get(named, j)} \cup Uses[Get(named, j)] : j \in Found}
      BY <1>1, IgTopPending
    <2>2. \A j \in Found : j = k
      BY <1>2 DEF Found
    <2> QED
      BY <1>3, <2>1, <2>2 DEF Uses
  <1>15. IgUses(objs, f) \subseteq IgUses(objs, g) /\ {x} \cup UsesIn(objs)[x] \subseteq IgUses(objs, g)
    BY <1>3, <1>11 DEF IgUses
  <1>16. IgTopOk(named, objs, stack, g)
    BY <1>1, <1>3, <1>6, <1>11, <1>12, <1>13, <1>14, <1>15 DEF IgTopOk
  <1> QED
    BY <1>1, <1>5, <1>16, IgReplace DEF FieldFill

LEMMA IgFieldCreate == ASSUME IgInv, FieldCreate PROVE IgInv'
  <1>1. AtField /\ pc = "register" /\ F \in Field /\ Top.value # "set" /\ Found = {}
    BY IgAtField DEF FieldCreate
  <1>2. PICK t \in CreateType : stack' = Append(stack, NewFrame(F.tag, t, F.singleton, FALSE, "nil"))
    BY DEF FieldCreate
  <1>3. PICK g : g = IgNil(F.tag, t, F.singleton)
    OBVIOUS
  <1>4. F.tag \in Names \cup {NoName} /\ F.type \in Types /\ F.singleton \in BOOLEAN
    BY <1>1 DEF Field
  <1>5. /\ t \in Types
        /\ F.tag = NoName => t = F.type /\ t \in Structs
    <2>1. CASE F.type \in Structs
      BY <1>2, <1>4, <2>1 DEF CreateType
    <2>2. CASE F.type \notin Structs /\ F.tag = NoName
      <3>1. CreateType = {}
        BY <2>2 DEF CreateType
      <3> QED
        BY <1>2, <3>1
    <2>3. CASE F.type \notin Structs /\ F.tag # NoName
      <3>1. PICK i \in 1..Len(Impls[F.tag]) : t = Impls[F.tag][i]
        BY <1>2, <2>3 DEF CreateType
      <3>2. Impls[F.tag] \in Seq(Structs)
        BY <1>4, <2>3, GraphAssumption
      <3>3. t \in Structs
        BY <3>1, <3>2
      <3> QED
        BY <2>3, <3>3, IgTypesApart
    <2> QED
      BY <2>1, <2>2, <2>3
  <1>6. IgFrame(objs, g) /\ g.field = 0 /\ g.name = F.tag /\ g.type = t
    BY <1>3, <1>4, <1>5, IgNilFrame
  <1>7. stack # <<>> /\ Len(objs) \in Nat /\ Top = stack[Len(stack)] /\ IgFrames(named, objs, stack)
    BY <1>1, IgTop
  <1>8. IgAsks(Top) /\ IgField(Top) = F /\ IgPending(named, objs, stack) = {}
    BY <1>1, IgTopPending
  <1>9. IgMakes(Top, g)
    BY <1>5, <1>6, <1>8 DEF IgMakes
  <1>10. IgPushOk(named, objs, stack, g)
    BY <1>6, <1>7, <1>8, <1>9 DEF IgPushOk
  <1>11. stack' = Append(stack, g)
    BY <1>2, <1>3 DEF IgNil
  <1>12. IgFrames(named, objs, stack')
    BY <1>10, <1>11, IgPushed
  <1>13. stack' # <<>>
    BY <1>11
  <1> QED
    BY <1>1, <1>12, <1>13, IgStep DEF FieldCreate

LEMMA IgResolved ==
    ASSUME IgInv, Resolved
    PROVE  pc = "register" /\ Top.field > 0 /\ IgPending(named, objs, stack) = {}
  <1>1. pc = "register" /\ Top.field > 0
    BY DEF Resolved
  <1>2. ~AtField
    <2>1. FieldsOf(Top.type) \in Seq(Field)
      <3>1. IgFrame(objs, Top)
        BY <1>1, IgTop
      <3> QED
        BY GraphAssumption DEF FieldsOf
    <2>2. Len(FieldsOf(Top.type)) \in Nat
      BY <2>1
    <2> QED
      BY <2>2 DEF Resolved, AtField
  <1> QED
    BY <1>1, <1>2, IgTopPending

LEMMA IgFinish == ASSUME IgInv, Finish PROVE IgInv'
  <1>1. pc = "register" /\ Top.field > 0 /\ IgPending(named, objs, stack) = {}
    BY IgResolved DEF Finish
  <1>2. PICK f, o : f = Top /\ o = Len(objs) + 1
    OBVIOUS
  <1>3. /\ objs' = Append(objs, NewObject(f)) /\ named' = Started(o)
        /\ evicted' = evicted \cup (Stored(named) \ Stored(named')) /\ late' = late \cup {x \in {o} : f.name \in Keys(named)}
        /\ stack' = SubSeq(stack, 1, Len(stack) - 1) /\ pc' = (IF stack' = <<>> THEN "idle" ELSE pc)
        /\ calls' = calls /\ curr' = curr /\ keys' = keys
    BY <1>2 DEF Finish, Below, callVars
  <1>4. IgFrame(objs, f) /\ f = stack[Len(stack)] /\ stack # <<>> /\ IgFrames(named, objs, stack) /\ Len(objs) \in Nat
        /\ Len(stack) \in 1..Len(stack) /\ Len(stack) \in Nat
    BY <1>1, <1>2, IgTop
  <1>5. IgGraph(named, objs, evicted, late) /\ IgPhase
    BY DEF IgInv
  <1>6. IgAnother(objs, objs', f, o)
    BY <1>1, <1>2, <1>3, <1>4, <1>5 DEF IgAnother, IgGraph
  <1>7. o \in Nat /\ f.name \in IgNames /\ f.type \in IgNames
    <2>1. f.name \in IgNames /\ f.type \in Types
      BY <1>6, IgAnotherIs
    <2> QED
      BY <1>2, <1>4, <2>1 DEF IgNames
  <1>8. IgStarted(named, named', f, o)
    BY <1>2, <1>3 DEF IgStarted, Started
  <1>9. IgStoredTo(named, named', f, o)
    BY <1>5, <1>7, <1>8, IgStartedIs DEF IgGraph
  <1>10. f.name \in Keys(named) => Get(named, f.name) \in IgUses(objs, f)
    <2>1. IgTaken(named, objs, stack)
      BY <1>4 DEF IgFrames
    <2>2. f.name \in Keys(named) => \E j \in Len(stack)..Len(stack) : Get(named, f.name) \in IgUses(objs, stack[j])
      BY <1>1, <1>2, <1>4, <2>1 DEF IgTaken
    <2>3. \A j \in Len(stack)..Len(stack) : j = Len(stack)
      BY <1>4
    <2> QED
      BY <1>4, <2>2, <2>3
  <1>11. IgGrew(named, objs, late, named', objs', late', f, o)
    BY <1>3, <1>5, <1>6, <1>9, <1>10 DEF IgGrew, IgGraph
  <1>12. IgLeads(named', objs') /\ IgHeld(named', objs', late') /\ IgPlaced(named', objs', late')
    <2>1. IgHeld(named, objs, late) /\ IgPlaced(named, objs, late)
      BY <1>5 DEF IgGraph
    <2>2. IgLeads(named', objs')
      BY <1>11, IgGrewLeads
    <2>3. IgHeld(named', objs', late')
      BY <1>11, <2>1, IgGrewHeld
    <2>4. IgPlaced(named', objs', late')
      BY <1>11, <2>1, IgGrewPlaced
    <2> QED
      BY <2>2, <2>3, <2>4
  <1>13. IgAllClean(named', objs')
    <2>1. IgAllClean(named, objs)
      BY <1>1, <1>5 DEF IgPhase
    <2> QED
      BY <1>11, <2>1, IgGrewAllClean
  <1>14. OmOk(named') /\ WalkComplete(named') /\ IgObjects(objs') /\ Len(named.key) <= Len(named'.key)
    <2>1. IgObjects(objs')
      BY <1>6, IgAnotherIs
    <2> QED
      BY <1>5, <1>9, <2>1 DEF IgStoredTo, IgGraph
  <1>15. /\ \A x \in 1..Len(objs) : objs'[x] = objs[x] /\ UsesIn(objs')[x] = UsesIn(objs)[x] /\ x \in 1..Len(objs')
         /\ \A x \in 1..Len(objs') : x # o => x \in 1..Len(objs)
         /\ o \in 1..Len(objs')
    BY <1>11, IgGrewOlder
  <1>16. evicted' \subseteq 1..Len(objs') /\ late' \subseteq 1..Len(objs')
    <2>1. \A x \in Stored(named) : x \in 1..Len(objs)
      BY <1>5 DEF IgGraph, IgLeads, Stored
    <2> QED
      BY <1>3, <1>5, <1>15, <2>1 DEF IgGraph
  <1>17. IgKept(named', objs', evicted')
    <2> SUFFICES ASSUME NEW x \in 1..Len(objs'), objs'[x].type \in CloseAble, objs'[x].closes = 0
                 PROVE  x \in Stored(named') \cup evicted'
      BY DEF IgKept
    <2>1. CASE x = o
      <3>1. f.name \in Keys(named') /\ Get(named', f.name) = o
        BY <1>9 DEF IgStoredTo
      <3> QED
        BY <2>1, <3>1 DEF Stored
    <2>2. CASE x # o
      <3>1. x \in 1..Len(objs) /\ objs'[x] = objs[x]
        BY <1>15, <2>2
      <3>2. x \in Stored(named) \cup evicted
        BY <1>5, <3>1 DEF IgGraph, IgKept
      <3> QED
        BY <1>3, <3>2
    <2> QED
      BY <2>1, <2>2
  <1>18. IgEvicts(objs', evicted', late')
    <2> SUFFICES ASSUME NEW x \in evicted'
                 PROVE  objs'[x].name = objs'[x].type \/ \E u \in late' : x \in UsesIn(objs')[u]
      BY DEF IgEvicts
    <2>1. CASE x \in evicted
      <3>1. x \in 1..Len(objs) /\ late \subseteq 1..Len(objs) /\ late \subseteq late'
        BY <1>3, <1>5, <2>1 DEF IgGraph
      <3>2. objs[x].name = objs[x].type \/ \E u \in late : x \in UsesIn(objs)[u]
        BY <1>5, <2>1 DEF IgGraph, IgEvicts
      <3> QED
        BY <1>15, <3>1, <3>2
    <2>2. CASE x \in Stored(named) /\ x \notin Stored(named')
      <3>1. IgHeld(named, objs, late)
        BY <1>5 DEF IgGraph
      <3> QED
        BY <1>11, <2>2, <3>1, IgGrewEvicts
    <2> QED
      BY <1>3, <2>1, <2>2
  <1>19. IgPopOk(named, objs, late, named', objs', late', f, o, stack)
    BY <1>1, <1>4, <1>11 DEF IgPopOk
  <1>20. IgFrames(named', objs', stack')
    BY <1>3, <1>19, IgPopped
  <1>21. curr' \in 0..Len(named'.key)
    <2>1. curr \in 0..Len(named.key) /\ OmTypes(named) /\ OmTypes(named')
      BY <1>5, <1>14 DEF IgPhase, IgGraph, OmOk
    <2>2. Len(named.key) \in Nat /\ Len(named'.key) \in Nat
      BY <2>1 DEF OmTypes
    <2> QED
      BY <1>3, <1>14, <2>1, <2>2
  <1>22. IgGraph(named', objs', evicted', late')
    BY <1>12, <1>14, <1>16, <1>17, <1>18 DEF IgGraph
  <1>23. IgPhase'
    BY <1>1, <1>3, <1>5, <1>13, <1>21 DEF IgPhase
  <1> QED
    BY <1>20, <1>22, <1>23 DEF IgInv

LEMMA IgCollect ==
    ASSUME NEW S, NEW ks \in Seq(S), NEW k \in S, NEW kt, kt = Append(ks, k)
    PROVE  /\ kt \in Seq(S) /\ (\A i \in 1..Len(ks) : \E j \in 1..Len(kt) : kt[j] = ks[i])
           /\ \E j \in 1..Len(kt) : kt[j] = k
  <1>1. kt \in Seq(S) /\ Len(kt) = Len(ks) + 1 /\ Len(ks) \in Nat /\ kt[Len(ks) + 1] = k /\ \A i \in 1..Len(ks) : kt[i] = ks[i]
    OBVIOUS
  <1>2. Len(ks) + 1 \in 1..Len(kt) /\ \A i \in 1..Len(ks) : i \in 1..Len(kt)
    BY ONLY <1>1
  <1> QED
    BY ONLY <1>1, <1>2
LEMMA IgCollectMore ==
    ASSUME NEW S, NEW ks \in Seq(S), NEW tk \in Seq(S), NEW kt, kt = ks \o tk
    PROVE  kt \in Seq(S) /\ \A i \in 1..Len(ks) : \E j \in 1..Len(kt) : kt[j] = ks[i]
  <1>1. kt \in Seq(S) /\ Len(kt) = Len(ks) + Len(tk) /\ Len(ks) \in Nat /\ Len(tk) \in Nat /\ \A i \in 1..Len(ks) : kt[i] = ks[i]
    OBVIOUS
  <1>2. \A i \in 1..Len(ks) : i \in 1..Len(kt)
    BY ONLY <1>1
  <1> QED
    BY ONLY <1>1, <1>2
LEMMA IgSameSelf == ASSUME NEW os, IgObjects(os) PROVE IgSame(os, os)
  BY DEF IgSame

LEMMA IgCloseBegin == ASSUME IgInv, CloseBegin PROVE IgInv'
  <1>1. /\ named' = named /\ objs' = objs /\ evicted' = evicted /\ late' = late /\ stack' = stack /\ calls' = calls
        /\ pc = "idle" /\ pc' = "close" /\ curr' = named.prev[Root] /\ keys' = <<>>
    BY DEF CloseBegin, graphVars
  <1>2. IgGraph(named, objs, evicted, late) /\ IgPhase /\ IgFrames(named, objs, stack)
    BY DEF IgInv
  <1>3. OmOk(named) /\ WalkComplete(named) /\ IgAllClean(named, objs)
    BY <1>1, <1>2 DEF IgGraph, IgPhase
  <1>4. IgClosing(named, objs, curr', keys') /\ curr' \in 0..Len(named.key)
    BY <1>1, <1>3, IgClosingBegins
  <1>5. keys' \in Seq(IgNames)
    BY <1>1
  <1>6. IgPhase'
    BY <1>1, <1>2, <1>4, <1>5 DEF IgPhase
  <1> QED
    BY <1>1, <1>2, <1>6 DEF IgInv

\* The step of the walk, as the objects and the keys see it.
LEMMA IgCloseVisits ==
    ASSUME IgInv, CloseVisit
    PROVE  IgVisited(named, objs, curr, keys, objs', keys') /\ keys' \in Seq(IgNames)
  <1>1. pc = "close" /\ curr # 0
    BY DEF CloseVisit, Root
  <1>2. IgGraph(named, objs, evicted, late) /\ IgPhase
    BY DEF IgInv
  <1>3. OmOk(named) /\ IgObjects(objs) /\ IgLeads(named, objs) /\ IgClosing(named, objs, curr, keys) /\ keys \in Seq(IgNames)
    BY <1>1, <1>2 DEF IgGraph, IgPhase
  <1>4. OmTypes(named) /\ curr \in 0..Len(named.key)
    BY <1>2, <1>3 DEF OmOk, IgPhase
  <1>5. named.key \in Seq(IgNames) /\ Len(named.key) \in Nat
    BY <1>4 DEF OmTypes
  <1>6. curr \in 1..Len(named.key)
    BY <1>1, <1>4, <1>5
  <1>7. PICK k, ki : k = named.key[curr] /\ ki = Append(keys, k)
    OBVIOUS
  <1>8. k \in IgNames
    BY <1>5, <1>6, <1>7
  <1>9. /\ ki \in Seq(IgNames) /\ (\A i \in 1..Len(keys) : \E j \in 1..Len(ki) : ki[j] = keys[i])
        /\ \E j \in 1..Len(ki) : ki[j] = k
    BY <1>3, <1>7, <1>8, IgCollect
  <1>10. CASE k \notin Keys(named) \/ objs[Get(named, k)].closes > 0
    <2>1. keys' = ki /\ objs' = objs
      BY <1>7, <1>10 DEF CloseVisit, Visited
    <2>2. IgSame(objs, objs)
      BY <1>3, IgSameSelf
    <2>3. k \in Keys(named) => objs[Get(named, k)].closes = 1
      <3>1. k \in Keys(named) => Get(named, k) \in 1..Len(objs)
        BY <1>3 DEF IgLeads
      <3>2. k \in Keys(named) => objs[Get(named, k)].closes \in {0, 1}
        BY <1>3, <3>1, IgObjectsAre
      <3> QED
        BY <1>10, <3>2
    <2> QED
      BY <1>3, <1>6, <1>7, <1>9, <2>1, <2>2, <2>3 DEF IgVisited
  <1>11. CASE ~(k \notin Keys(named) \/ objs[Get(named, k)].closes > 0)
    <2>1. PICK o : o = Get(named, k)
      OBVIOUS
    <2>2. k \in Keys(named) /\ o \in 1..Len(objs) /\ objs[o].closes = 0 /\ objs[o].type \in Types
      <3>1. k \in Keys(named) /\ o \in 1..Len(objs)
        BY <1>3, <1>11, <2>1 DEF IgLeads
      <3>2. objs[o].closes \in {0, 1} /\ objs[o].type \in Types
        BY <1>3, <3>1, IgObjectsAre
      <3> QED
        BY <1>11, <2>1, <3>1, <3>2
    <2>3. /\ keys' = ki \o TypeKey(o)
          /\ objs' = IF objs[o].type \in CloseAble THEN [objs EXCEPT ![o].closes = @ + 1] ELSE objs
      BY <1>7, <1>11, <2>1 DEF CloseVisit, Visited
    <2>4. TypeKey(o) \in Seq(IgNames)
      <3>1. objs[o].type \in IgNames
        BY <2>2 DEF IgNames
      <3> QED
        BY <3>1 DEF TypeKey
    <2>5. keys' \in Seq(IgNames) /\ \A i \in 1..Len(ki) : \E j \in 1..Len(keys') : keys'[j] = ki[i]
      BY <1>9, <2>3, <2>4, IgCollectMore
    <2>6. /\ \A i \in 1..Len(keys) : \E j \in 1..Len(keys') : keys'[j] = keys[i]
          /\ \E j \in 1..Len(keys') : keys'[j] = k
      BY <1>9, <2>5
    <2>7. /\ IgSame(objs, objs') /\ (objs[o].type \in CloseAble => objs'[o].closes = 1)
          /\ \A x \in 1..Len(objs) : x # o => objs'[x].closes = objs[x].closes
      <3>1. CASE objs[o].type \in CloseAble
        <4>1. IgCloses(objs, o, objs')
          BY <1>3, <2>2, <2>3, <3>1 DEF IgCloses
        <4> QED
          BY <4>1, IgClosesIs
      <3>2. CASE objs[o].type \notin CloseAble
        <4>1. objs' = objs
          BY <2>3, <3>2
        <4> QED
          BY <1>3, <3>2, <4>1, IgSameSelf
      <3> QED
        BY <3>1, <3>2
    <2> QED
      BY <1>3, <1>6, <1>7, <2>1, <2>2, <2>5, <2>6, <2>7 DEF IgVisited
  <1> QED
    BY <1>10, <1>11

LEMMA IgCloseVisit == ASSUME IgInv, CloseVisit PROVE IgInv'
  <1>1. /\ named' = named /\ evicted' = evicted /\ late' = late /\ stack' = stack /\ calls' = calls
        /\ pc = "close" /\ pc' = "close" /\ curr' = named.prev[curr]
    BY DEF CloseVisit
  <1>2. IgGraph(named, objs, evicted, late) /\ IgPhase /\ IgFrames(named, objs, stack)
    BY DEF IgInv
  <1>3. IgVisited(named, objs, curr, keys, objs', keys') /\ keys' \in Seq(IgNames)
    BY IgCloseVisits
  <1>4. IgClosing(named, objs', curr', keys') /\ curr' \in 0..Len(named.key)
    BY <1>1, <1>3, IgVisitedOn
  <1>5. IgSame(objs, objs') /\ IgObjects(objs)
    BY <1>3 DEF IgVisited
  <1>6. stack = <<>>
    BY <1>1, <1>2 DEF IgPhase
  <1>7. IgFrames(named', objs', stack')
    BY <1>1, <1>6, IgNoFrames
  <1>8. IgLeads(named, objs') /\ IgHeld(named, objs', late) /\ IgPlaced(named, objs', late)
    BY <1>2, <1>5, IgSameStored DEF IgGraph
  <1>9. /\ IgObjects(objs') /\ Len(objs') = Len(objs)
        /\ \A x \in 1..Len(objs) : /\ objs'[x].name = objs[x].name /\ objs'[x].type = objs[x].type
                                   /\ UsesIn(objs')[x] = UsesIn(objs)[x] /\ (objs[x].closes = 1 => objs'[x].closes = 1)
    BY <1>5 DEF IgSame
  <1>10. \A x \in 1..Len(objs) : objs[x].closes \in {0, 1}
    BY <1>5, IgObjectsAre
  <1>11. IgKept(named, objs', evicted)
    BY <1>2, <1>9, <1>10 DEF IgGraph, IgKept
  <1>12. IgEvicts(objs', evicted, late)
    BY <1>2, <1>9 DEF IgGraph, IgEvicts
  <1>13. IgGraph(named', objs', evicted', late')
    BY <1>1, <1>2, <1>8, <1>9, <1>11, <1>12 DEF IgGraph
  <1>14. IgPhase'
    BY <1>1, <1>2, <1>3, <1>4, <1>6 DEF IgPhase
  <1> QED
    BY <1>7, <1>13, <1>14 DEF IgInv

\* When the walk is over, every key is collected and no object that has one is open.
LEMMA IgWalkOver ==
    ASSUME IgInv, CloseEnd
    PROVE  /\ Keys(named') = {} /\ OmOk(named') /\ named'.key = named.key
           /\ \A o \in Stored(named) : ~(objs[o].type \in CloseAble /\ objs[o].closes = 0)
  <1>1. pc = "close" /\ curr = 0 /\ named' = Deleted(named, keys)
    BY DEF CloseEnd, Root
  <1>2. OmOk(named) /\ IgClosing(named, objs, 0, keys) /\ keys \in Seq(IgNames)
    BY <1>1 DEF IgInv, IgGraph, IgPhase
  <1>3. Len(keys) \in Nat
    BY <1>2
  <1>4. /\ OmOk(named') /\ named'.key = named.key
        /\ Keys(named') = Keys(named) \ {keys[i] : i \in 1..Len(keys)}
    <2>1. OmCleared(named, Deleted(named, keys), keys)
      BY ONLY <1>2, <1>3, OmDeletedOk
    <2> QED
      BY ONLY <1>1, <2>1 DEF OmCleared
  <1>5. ASSUME NEW k \in Keys(named)
        PROVE  /\ objs[Get(named, k)].type \in CloseAble => objs[Get(named, k)].closes = 1
               /\ \E i \in 1..Len(keys) : keys[i] = k
    <2>1. OmTypes(named)
      BY <1>2 DEF OmOk
    <2>2. named.mapper[k] \in 1..Len(named.key) /\ Len(named.key) \in Nat
      BY <2>1 DEF OmTypes, Keys
    <2>3. named.mapper[k] > 0
      BY <2>2
    <2> QED
      BY <1>2, <2>3 DEF IgClosing
  <1>6. Keys(named') = {}
    BY <1>4, <1>5
  <1> QED
    BY <1>4, <1>5, <1>6 DEF Stored

LEMMA IgCloseEnd == ASSUME IgInv, CloseEnd PROVE IgInv'
  <1>1. /\ objs' = objs /\ evicted' = evicted /\ late' = late /\ stack' = stack /\ calls' = calls /\ curr' = curr
        /\ pc = "close" /\ pc' = "idle" /\ keys' = <<>>
    BY DEF CloseEnd
  <1>2. IgGraph(named, objs, evicted, late) /\ IgPhase
    BY DEF IgInv
  <1>3. /\ Keys(named') = {} /\ OmOk(named') /\ named'.key = named.key
        /\ \A o \in Stored(named) : ~(objs[o].type \in CloseAble /\ objs[o].closes = 0)
    BY IgWalkOver
  <1>4. stack = <<>>
    BY <1>1, <1>2 DEF IgPhase
  <1>5. IgFrames(named', objs', stack')
    BY <1>1, <1>4, IgNoFrames
  <1>6. WalkComplete(named') /\ IgLeads(named', objs) /\ IgHeld(named', objs, late) /\ IgAllClean(named', objs)
    BY <1>3 DEF WalkComplete, IgLeads, IgHeld, IgAllClean
  <1>7. IgPlaced(named', objs, late)
    BY <1>3 DEF IgPlaced, IgHolds
  <1>8. IgKept(named', objs, evicted)
    BY <1>2, <1>3 DEF IgKept, IgGraph
  <1>9. IgGraph(named', objs', evicted', late')
    BY <1>1, <1>2, <1>3, <1>6, <1>7, <1>8 DEF IgGraph
  <1>10. keys' \in Seq(IgNames)
    BY <1>1
  <1>11. IgPhase'
    BY <1>1, <1>2, <1>3, <1>4, <1>6, <1>10 DEF IgPhase
  <1> QED
    BY <1>5, <1>9, <1>11 DEF IgInv

LEMMA IgInductive == IgInv /\ [Next]_vars => IgInv'
  <1> SUFFICES ASSUME IgInv, [Next]_vars PROVE IgInv'
    OBVIOUS
  <1>1. ASSUME NEW n \in Names \cup {NoName}, NEW t \in Structs \cup Plains, NEW s \in BOOLEAN, NEW noFill \in BOOLEAN,
               NEW value \in {"nil", "zero", "set"}, Register(n, t, s, noFill, value)
        PROVE  IgInv'
    BY <1>1, IgRegister
  <1>2. CASE Begin
    BY <1>2, IgBegin
  <1>3. CASE BeginFails
    BY <1>3, IgFail DEF BeginFails
  <1>4. CASE FieldSkip
    BY <1>4, IgFieldSkip
  <1>5. CASE FieldCreate
    BY <1>5, IgFieldCreate
  <1>6. CASE FieldFill
    BY <1>6, IgFieldFill
  <1>7. CASE FieldFails
    BY <1>7, IgFail DEF FieldFails, AtField
  <1>8. CASE StartFails
    BY <1>8, IgFail DEF StartFails, Resolved
  <1>9. CASE Finish
    BY <1>9, IgFinish
  <1>10. CASE CloseBegin
    BY <1>10, IgCloseBegin
  <1>11. CASE CloseVisit
    BY <1>11, IgCloseVisit
  <1>12. CASE CloseEnd
    BY <1>12, IgCloseEnd
  <1>13. CASE UNCHANGED vars
    <2>1. /\ named' = named /\ objs' = objs /\ evicted' = evicted /\ late' = late /\ stack' = stack /\ calls' = calls
          /\ pc' = pc /\ curr' = curr /\ keys' = keys
      BY <1>13 DEF vars
    <2> QED
      BY <2>1 DEF IgInv, IgPhase
  <1> QED
    BY <1>1, <1>2, <1>3, <1>4, <1>5, <1>6, <1>7, <1>8, <1>9, <1>10, <1>11, <1>12, <1>13 DEF Next
LEMMA IgAlways == Spec => []IgInv
  BY IgInit, IgInductive, PTL DEF Spec

\* Set and Delete of the ordered map keep its links ordered, and every stored key
\* stays on the path of RevIterFunc, for every sequence of calls of the graph
\* (orderedmap.go:48-87), repeated deletions of the same key included.
THEOREM WalkReachesAll == Spec => []WalkMeetsAll
  <1>1. IgInv => WalkMeetsAll
    BY DEF IgInv, IgGraph, OmOk, WalkMeetsAll
  <1> QED
    BY <1>1, IgAlways, PTL

LEMMA IgTypeOK == IgInv => TypeOK
  <1> SUFFICES ASSUME IgInv PROVE TypeOK
    OBVIOUS
  <1>1. IgGraph(named, objs, evicted, late) /\ IgFrames(named, objs, stack) /\ IgPhase
    BY DEF IgInv
  <1>2. IgObjects(objs) /\ IgLeads(named, objs) /\ OmTypes(named) /\ evicted \subseteq 1..Len(objs) /\ late \subseteq 1..Len(objs)
    BY <1>1 DEF IgGraph, OmOk
  <1>3. Keys(named) \subseteq Names \cup Types
    BY <1>2 DEF OmTypes, Keys, IgNames
  <1>4. Stored(named) \subseteq 1..Len(objs)
    BY <1>2 DEF IgLeads, Stored
  <1>5. named.prev \in [Nodes(named) -> Nodes(named)] /\ named.next \in [Nodes(named) -> Nodes(named)]
    BY <1>2 DEF OmTypes, Nodes
  <1>6. ASSUME NEW o \in 1..Len(objs) PROVE objs[o] \in Object
    <2>1. objs \in Seq(IgObjectSet) /\ objs[o].deps \subseteq 1..(o - 1) /\ Len(objs) \in Nat
      BY <1>2 DEF IgObjects, IgObjectSet
    <2>2. PICK x : x = objs[o]
      OBVIOUS
    <2>3. x \in IgObjectSet
      BY ONLY <2>1, <2>2, o \in 1..Len(objs)
    <2>4. x.deps \subseteq 1..Len(objs)
      BY <2>1, <2>2
    <2>5. x \in Object
      BY <2>3, <2>4 DEF IgObjectSet, Object, IgNames
    <2> QED
      BY <2>2, <2>5
  <1>7. ASSUME NEW i \in 1..Len(stack) PROVE stack[i] \in Frame /\ stack[i].field <= Len(FieldsOf(stack[i].type)) + 1
    <2>1. IgFrame(objs, stack[i])
      BY <1>1 DEF IgFrames
    <2> QED
      BY <2>1 DEF IgFrame, Frame
  <1>8. pc \in {"idle", "register", "close"} /\ ((stack # <<>>) = (pc = "register")) /\ curr \in Nodes(named) /\ calls \in 0..MaxCalls
    BY <1>1 DEF IgPhase, Nodes
  <1> QED
    BY <1>2, <1>3, <1>4, <1>5, <1>6, <1>7, <1>8 DEF TypeOK

\* Every object the graph has created is closed at most once, and while it is
\* open it is stored, or a later registration took its last key (inject.go:123-137,
\* 307, 446-490), for every set of types, fields and names.
THEOREM GraphAccountsForAll == Spec => []ClosedExactly
  <1>1. IgInv => ClosedOnce
    <2> SUFFICES ASSUME IgInv, NEW o \in 1..Len(objs) PROVE objs[o].closes <= 1
      BY DEF ClosedOnce
    <2>1. objs[o].closes \in {0, 1}
      BY IgObjectsAre DEF IgInv, IgGraph
    <2> QED
      BY <2>1
  <1>2. IgInv => NoLeak
    BY DEF IgInv, IgGraph, IgKept, NoLeak, Open
  <1>3. IgInv => EvictedByType
    BY DEF IgInv, IgGraph, IgEvicts, EvictedByType, Uses
  <1>4. IgInv => ClosedExactly
    BY <1>1, <1>2, <1>3, IgTypeOK DEF ClosedExactly
  <1> QED
    BY <1>4, IgAlways, PTL

\* Close closes an object before what it uses (example_test.go:36, inject.go:446-490):
\* the name of a user has a newer node than any key of what it uses, and the walk
\* meets newer nodes first.
THEOREM UsersCloseFirst == Spec => []UsersFirst
  <1>1. IgInv => UsersFirst
    <2> SUFFICES ASSUME IgInv, NEW u \in 1..Len(objs), u \notin evicted, u \notin late, Open(u),
                        \A v \in late : objs[v].name # objs[u].name, NEW d \in Uses[u]
                 PROVE  objs[d].closes = 0
      BY DEF UsersFirst
    <2>1. IgGraph(named, objs, evicted, late) /\ IgPhase
      BY DEF IgInv
    <2>2. objs[u].type \in CloseAble /\ objs[u].closes = 0 /\ d \in UsesIn(objs)[u]
      BY DEF Open, Uses
    <2>3. PICK k \in Keys(named) : Get(named, k) = u
      BY <2>1, <2>2 DEF IgGraph, IgKept, Stored
    <2>4. ~IgLost(objs, late, u)
      BY DEF IgLost
    <2>5. IgHolds(named, objs, u)
      BY <2>1, <2>3, <2>4 DEF IgGraph, IgHeld
    <2>6. IgObjects(objs)
      BY <2>1 DEF IgGraph
    <2>7. d \in 1..Len(objs) /\ d < u
      BY <2>2, <2>6, IgUsesOlder
    <2>8. objs[d].closes \in {0, 1}
      BY <2>6, <2>7, IgObjectsAre
    <2>9. CASE pc # "close"
      BY <2>1, <2>2, <2>3, <2>9 DEF IgPhase, IgAllClean, IgClean
    <2>10. CASE pc = "close"
      <3> SUFFICES ASSUME objs[d].closes = 1 PROVE FALSE
        BY <2>8
      <3>1. IgClosing(named, objs, curr, keys)
        BY <2>1, <2>10 DEF IgPhase
      <3>2. PICK j \in Keys(named) : Get(named, j) = d /\ named.mapper[j] > curr
        BY <2>2, <2>3, <3>1 DEF IgClosing
      <3>3. PICK n : n = objs[u].name
        OBVIOUS
      <3>4. n \in Keys(named) /\ Get(named, n) = u
        BY <2>5, <3>3 DEF IgHolds
      <3>5. named.mapper[j] < named.mapper[n]
        BY <2>1, <2>5, <2>7, <3>2, <3>3 DEF IgGraph, IgPlaced
      <3>6. OmTypes(named) /\ curr \in 0..Len(named.key)
        BY <2>1 DEF IgGraph, OmOk, IgPhase
      <3>7. named.mapper[j] \in 1..Len(named.key) /\ named.mapper[n] \in 1..Len(named.key) /\ Len(named.key) \in Nat
        BY <3>2, <3>4, <3>6 DEF OmTypes, Keys
      <3>8. named.mapper[n] > curr
        BY <3>2, <3>5, <3>6, <3>7
      <3> QED
        BY <2>2, <3>1, <3>4, <3>8 DEF IgClosing
    <2> QED
      BY <2>9, <2>10
  <1> QED
    BY <1>1, IgAlways, PTL

\* A call of Close leaves no key and no open object behind, except evicted ones
\* (inject.go:446-490).
THEOREM CloseLeavesNothing == Spec => CloseEmpties
  <1>1. IgInv /\ [Next]_vars =>
            [pc = "close" /\ pc' = "idle" => Keys(named') = {} /\ \A o \in 1..Len(objs) \ evicted : ~Open(o)]_vars
    <2> SUFFICES ASSUME IgInv, Next, pc = "close", pc' = "idle"
                 PROVE  Keys(named') = {} /\ \A o \in 1..Len(objs) \ evicted : ~Open(o)
      OBVIOUS
    <2>1. CloseEnd
      BY DEF Next, Register, Begin, BeginFails, FieldSkip, FieldCreate, FieldFill, FieldFails, StartFails, Finish, Resolved,
             AtField, CloseBegin, CloseVisit
    <2>2. Keys(named') = {} /\ \A o \in Stored(named) : ~Open(o)
      BY <2>1, IgWalkOver DEF Open
    <2>3. \A o \in 1..Len(objs) : Open(o) => o \in Stored(named) \cup evicted
      BY DEF IgInv, IgGraph, IgKept, Open
    <2> QED
      BY <2>2, <2>3
  <1> QED
    BY <1>1, IgAlways, PTL DEF Spec, CloseEmpties
=============================================================================
