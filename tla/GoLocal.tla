------------------------------ MODULE GoLocal ------------------------------
(* runtime/gl: a map for each goroutine, made by Init and removed by Close,   *)
(* in which a request keeps its data and its costs.                           *)
EXTENDS Integers, Functions

CONSTANTS GlRoutines,  \* goroutines; each serves one request after another
          GlKeys,      \* keys; those in GlCosts contain "cost"
          GlCosts,
          GlSteps      \* bound: operations that are modelled

VARIABLES
    glMap,    \* _gl.m: for a goroutine with a gl, its map from keys to values
    glReq,    \* the number of Init calls of each goroutine (history)
    glNet,    \* what Incr and Decr have added to a key since it last was set otherwise (history)
    glSteps   \* operations so far (bound)

glVars == <<glMap, glReq, glNet, glSteps>>

\* Values: int64, pointers and other things; each remembers who put it there, and when.
GlVal(g, kind, n) == [kind |-> kind, n |-> n, by |-> g, req |-> glReq[g]]
GlExist(g) == g \in DOMAIN glMap
GlBound == glSteps < GlSteps /\ glSteps' = glSteps + 1
GlEmpty == [k \in {} |-> 0]
GlWith(f, k, v) == [j \in DOMAIN f \cup {k} |-> IF j = k THEN v ELSE f[j]]
GlNets(g, f) == [glNet EXCEPT ![g] = f]

GlInit == /\ glMap = GlEmpty /\ glReq = [g \in GlRoutines |-> 0] /\ glSteps = 0
          /\ glNet = [g \in GlRoutines |-> [k \in GlKeys |-> 0]]

\* Faulty variant: a double Init keeps the old map.
GlInitKeeps(g) == /\ GlBound /\ glReq' = [glReq EXCEPT ![g] = @ + 1]
                  /\ glMap' = IF GlExist(g) THEN glMap ELSE GlWith(glMap, g, GlEmpty)
                  /\ glNet' = GlNets(g, [k \in GlKeys |-> 0])

\* Init: a gl that is still there is replaced.
GlInitCall(g) == /\ GlBound /\ glReq' = [glReq EXCEPT ![g] = @ + 1]
                 /\ glMap' = GlWith(glMap, g, GlEmpty)
                 /\ glNet' = GlNets(g, [k \in GlKeys |-> 0])

GlClose(g) == /\ GlExist(g) /\ GlBound
              /\ glMap' = [h \in DOMAIN glMap \ {g} |-> glMap[h]]
              /\ UNCHANGED <<glReq, glNet>>

\* Set and Del do nothing without a gl.
GlPut(g, k, v, net) == /\ glMap' = [glMap EXCEPT ![g] = GlWith(@, k, v)]
                     /\ glNet' = [glNet EXCEPT ![g][k] = net] /\ UNCHANGED glReq
GlSet(g, k, kind) == /\ GlBound
                     /\ IF GlExist(g) THEN GlPut(g, k, GlVal(g, kind, 1), 1)
                                    ELSE UNCHANGED <<glMap, glReq, glNet>>
GlDel(g, k) == /\ GlBound /\ GlExist(g)
               /\ glMap' = [glMap EXCEPT ![g] = Restrict(@, DOMAIN @ \ {k})]
               /\ glNet' = [glNet EXCEPT ![g][k] = 0] /\ UNCHANGED glReq

\* The value under a key if it is an int64; a key that is missing or is not counts as 0.
GlOld(g, k) == IF k \in DOMAIN glMap[g] /\ glMap[g][k].kind = "int" THEN glMap[g][k].n ELSE 0
GlIncremented(g, k, n) == GlVal(g, "int", GlOld(g, k) + n)
GlCounted(g, k) == IF k \in DOMAIN glMap[g] /\ glMap[g][k].kind = "int" THEN glNet[g][k] ELSE 0

\* Incr, IncrCost and its variants, Decr (n < 0); they return -1 without a gl.
GlIncr(g, k, n) == /\ GlBound
                   /\ IF GlExist(g) THEN GlPut(g, k, GlIncremented(g, k, n), GlCounted(g, k) + n)
                                  ELSE UNCHANGED <<glMap, glReq, glNet>>

\* GetGlData shows pointers and nil as "@#", everything else as it is.
GetGlData(g) == [k \in DOMAIN glMap[g] |->
                   IF glMap[g][k].kind = "ptr" THEN [glMap[g][k] EXCEPT !.kind = "str"] ELSE glMap[g][k]]

\* CopyGlData puts another goroutine's data into this one; int64 costs are added.
GlCopied(g, data, k) ==
    IF k \in GlCosts /\ data[k].kind = "int" THEN GlIncremented(g, k, data[k].n)
                                             ELSE GlVal(g, data[k].kind, data[k].n)
GlCopiedNet(g, data, k) ==
    IF k \in GlCosts /\ data[k].kind = "int" THEN GlCounted(g, k) + data[k].n ELSE data[k].n
GlCopy(g, h) ==
    /\ GlBound /\ g # h /\ GlExist(h)
    /\ LET data == GetGlData(h)
       IN IF GlExist(g)
          THEN /\ glMap' = [glMap EXCEPT ![g] = [k \in DOMAIN @ \cup DOMAIN data |->
                              IF k \in DOMAIN data THEN GlCopied(g, data, k) ELSE @[k]]]
               /\ glNet' = [glNet EXCEPT ![g] = [k \in GlKeys |->
                              IF k \in DOMAIN data THEN GlCopiedNet(g, data, k) ELSE @[k]]]
          ELSE UNCHANGED <<glMap, glNet>>
    /\ UNCHANGED glReq

GlNext == \E g \in GlRoutines :
    \/ GlInitCall(g) \/ GlClose(g)
    \/ \E k \in GlKeys : \/ GlDel(g, k)
                         \/ \E kind \in {"int", "ptr"} : GlSet(g, k, kind)
                         \/ \E n \in {-1, 2} : GlIncr(g, k, n)
    \/ \E h \in GlRoutines : GlCopy(g, h)

GlSpec == GlInit /\ [][GlNext]_glVars

(* A request sees only what it has put, or copied, itself: nothing is left   *)
(* over from an earlier request of the goroutine, not even when that one     *)
(* never called Close (global.go:31-33), and nothing leaks between goroutines*)
GlOwn == \A g \in DOMAIN glMap : \A k \in DOMAIN glMap[g] :
            glMap[g][k].by = g /\ glMap[g][k].req = glReq[g]

(* A counter is the sum of what was added to it since it was last set to     *)
(* something that is not a number, copies of costs included (lines 199-278). *)
GlSums == \A g \in DOMAIN glMap : \A k \in DOMAIN glMap[g] :
            glMap[g][k].kind = "int" => glMap[g][k].n = glNet[g][k]

\* A request sees its own data only (global.go:19-63, 199-278), and in its
\* counters the sum of what was added or copied into them.
GlPrivate == GlOwn /\ GlSums
=============================================================================
