--------------------------- MODULE RuntimeProofs ---------------------------
(* Proofs about the pools and the task group of runtime/gr, runtime/gl,       *)
(* runtime/pc and runtime/stat, for every number of tasks, pools, sizes,      *)
(* stoppers, goroutines, keys, counters, objects, commands and files.         *)
EXTENDS GrPool, TaskGroup, GoLocal, PerfCounter, StatMgr,
        FiniteSetTheorems, SequenceTheorems, NaturalsInduction, WellFoundedInduction, TLAPS

-----------------------------------------------------------------------------
(* The pools: the counters are exact, and the pools implement BoundedExecutor. *)
GrStates == {"new", "blocked", "sent", "run", "back", "done", "timeout", "panic"}

GrTypeOK ==
    /\ grSize \in [GrPools -> Nat]
    /\ grStart \in {"no", "refused", "ok"}
    /\ grTask \in [GrTasks -> [st : GrStates, pool : GrPools]]
    /\ grChan \in [GrPools -> Nat]
    /\ grWg \in [GrPools -> Nat]
    /\ grClose \in [GrPools -> {"no", "called", "closed", "done"}]
    /\ grSeen \in [GrPools -> SUBSET GrTasks]

\* The tasks a Close waits for were handed to its pool and have been started.
GrSeenInv == \A p \in GrPools : grSeen[p] \subseteq GrOf(p, {"run", "back", "done"})

GrIInv == GrTypeOK /\ GrExact /\ GrSeenInv

-----------------------------------------------------------------------------
(* Facts about sets of tasks.                                                *)

\* Sets of tasks are finite, so that their sizes are numbers.
LEMMA GrOfFinite ==
    ASSUME NEW p, NEW sts
    PROVE  /\ IsFiniteSet(GrOf(p, sts)) /\ Cardinality(GrOf(p, sts)) \in Nat
           /\ IsFiniteSet(GrOf(p, sts)') /\ Cardinality(GrOf(p, sts)') \in Nat
  <1>1. GrOf(p, sts) \subseteq GrTasks /\ GrOf(p, sts)' \subseteq GrTasks
    BY DEF GrOf
  <1>2. QED
    BY <1>1, GrAssumption, FS_Subset, FS_CardinalityType

\* One task more, or one less, changes the size by one.
LEMMA GrAddOne ==
    ASSUME NEW S, NEW T, IsFiniteSet(S), NEW t, t \notin S, T = S \cup {t}
    PROVE  Cardinality(T) = Cardinality(S) + 1
  BY FS_AddElement

\* A task leaves a set of tasks.
LEMMA GrDropOne ==
    ASSUME NEW S, NEW T, IsFiniteSet(S), NEW t \in S, T = S \ {t}
    PROVE  Cardinality(T) = Cardinality(S) - 1 /\ Cardinality(S) > 0
  <1>1. Cardinality(T) = Cardinality(S) - 1
    BY FS_RemoveElement
  <1>2. S # {} /\ Cardinality(S) \in Nat
    BY FS_CardinalityType
  <1>3. QED
    BY <1>1, <1>2, FS_EmptySet

\* A task that moves to another state of its pool, as GrAt moves it.
LEMMA GrAtTask ==
    ASSUME GrTypeOK, NEW t \in GrTasks, NEW st \in GrStates, GrAt(t, st)
    PROVE  /\ grTask' \in [GrTasks -> [st : GrStates, pool : GrPools]]
           /\ grTask[t].pool \in GrPools
           /\ grTask'[t].st = st /\ grTask'[t].pool = grTask[t].pool
           /\ \A u \in GrTasks : u # t => grTask'[u] = grTask[u]
  BY DEF GrTypeOK, GrAt

-----------------------------------------------------------------------------
(* Each step keeps the invariant.                                            *)

\* A send to the channel of a pool, which may panic, go through or block.
LEMMA GrSendKeeps ==
    ASSUME GrIInv, NEW t \in GrTasks, NEW p \in GrPools, GrSend(t, p),
           grTask[t].st \in {"new", "blocked"}
    PROVE  GrIInv'
  <1> USE DEF GrIInv
  <1> DEFINE st == grTask'[t].st
  <1>1. /\ grTask' = [grTask EXCEPT ![t] = [st |-> st, pool |-> p]]
        /\ st \in {"panic", "sent", "blocked"}
        /\ st = "sent" => grChan[p] < grSize[p] /\ grChan' = [grChan EXCEPT ![p] = @ + 1]
        /\ st # "sent" => grChan' = grChan
        /\ UNCHANGED <<grSize, grStart, grWg, grClose, grSeen>>
    BY DEF GrSend, GrTypeOK
  <1>2. GrTypeOK'
    BY <1>1 DEF GrTypeOK, GrStates
  <1>3. /\ grTask'[t].pool = p /\ grTask' \in [GrTasks -> [st : GrStates, pool : GrPools]]
        /\ \A u \in GrTasks : u # t => grTask'[u] = grTask[u]
    BY <1>1, <1>2 DEF GrTypeOK
  <1> HIDE DEF st
  <1>4. ASSUME NEW q \in GrPools
        PROVE  /\ GrOf(q, {"run", "back"})' = GrOf(q, {"run", "back"})
               /\ GrOf(q, {"run", "back", "done"})' = GrOf(q, {"run", "back", "done"})
    BY <1>1, <1>3 DEF GrOf, st
  <1>5. ASSUME NEW q \in GrPools
        PROVE  /\ grChan'[q] = Cardinality(GrOf(q, {"sent", "run"})')
               /\ grChan'[q] <= grSize[q]
    <2>1. CASE q = p /\ st = "sent"
      <3>1. t \notin GrOf(q, {"sent", "run"})
        BY DEF GrOf
      <3>2. GrOf(q, {"sent", "run"})' = GrOf(q, {"sent", "run"}) \cup {t}
        BY <2>1, <1>3 DEF GrOf, st
      <3>3. Cardinality(GrOf(q, {"sent", "run"})') = Cardinality(GrOf(q, {"sent", "run"})) + 1
        BY <3>1, <3>2, GrOfFinite, GrAddOne
      <3>4. QED
        BY <2>1, <1>1, <3>3 DEF GrExact, GrTypeOK
    <2>2. CASE ~(q = p /\ st = "sent")
      <3>1. GrOf(q, {"sent", "run"})' = GrOf(q, {"sent", "run"})
        BY <2>2, <1>1, <1>3 DEF GrOf, st
      <3>2. grChan'[q] = grChan[q]
        BY <2>2, <1>1 DEF GrTypeOK
      <3>3. QED
        BY <3>1, <3>2 DEF GrExact
    <2>3. QED
      BY <2>1, <2>2
  <1>6. GrExact'
    BY <1>1, <1>4, <1>5 DEF GrExact
  <1>7. GrSeenInv'
    BY <1>1, <1>4 DEF GrSeenInv
  <1>8. QED
    BY <1>2, <1>6, <1>7

\* wg.Add for a task that has its token.
LEMMA GrSpawnKeeps ==
    ASSUME GrIInv, NEW t \in GrTasks, GrSpawn(t)
    PROVE  GrIInv'
  <1> USE DEF GrIInv
  <1>0. PICK own \in GrPools : own = grTask[t].pool
    BY DEF GrTypeOK
  <1>1. /\ GrAt(t, "run") /\ grTask[t].st = "sent"
        /\ grWg' = [grWg EXCEPT ![own] = @ + 1]
        /\ UNCHANGED <<grSize, grStart, grChan, grClose, grSeen>>
    BY <1>0 DEF GrSpawn
  <1>2. /\ grTask' \in [GrTasks -> [st : GrStates, pool : GrPools]]
        /\ grTask'[t].st = "run" /\ grTask'[t].pool = own
        /\ \A u \in GrTasks : u # t => grTask'[u] = grTask[u]
    BY <1>0, <1>1, GrAtTask DEF GrStates
  <1>3. GrTypeOK'
    BY <1>1, <1>2 DEF GrTypeOK
  <1>4. ASSUME NEW q \in GrPools
        PROVE  /\ GrOf(q, {"sent", "run"})' = GrOf(q, {"sent", "run"})
               /\ GrOf(q, {"run", "back", "done"}) \subseteq GrOf(q, {"run", "back", "done"})'
               /\ q # own => GrOf(q, {"run", "back"})' = GrOf(q, {"run", "back"})
    BY <1>0, <1>1, <1>2 DEF GrOf
  <1>5. grWg'[own] = Cardinality(GrOf(own, {"run", "back"})')
    <2>1. t \notin GrOf(own, {"run", "back"})
      BY <1>0, <1>1 DEF GrOf
    <2>2. GrOf(own, {"run", "back"})' = GrOf(own, {"run", "back"}) \cup {t}
      BY <1>0, <1>1, <1>2 DEF GrOf
    <2>3. Cardinality(GrOf(own, {"run", "back"})') = Cardinality(GrOf(own, {"run", "back"})) + 1
      BY <2>1, <2>2, GrOfFinite, GrAddOne
    <2>4. QED
      BY <1>1, <1>2, <2>3 DEF GrExact, GrTypeOK
  <1>6. ASSUME NEW q \in GrPools
        PROVE  grWg'[q] = Cardinality(GrOf(q, {"run", "back"})')
    <2>1. CASE q = own
      BY <2>1, <1>5
    <2>2. CASE q # own
      <3>1. grWg'[q] = grWg[q]
        BY <2>2, <1>1 DEF GrTypeOK
      <3>2. QED
        BY <3>1, <2>2, <1>4 DEF GrExact
    <2>3. QED
      BY <2>1, <2>2
  <1>7. GrExact'
    BY <1>1, <1>4, <1>6 DEF GrExact
  <1>8. GrSeenInv'
    BY <1>1, <1>4 DEF GrSeenInv
  <1>9. QED
    BY <1>3, <1>7, <1>8

\* A goroutine whose function has returned finds a token and takes it, on a
\* closed channel too.
LEMMA GrReceiveKeeps1 ==
    ASSUME GrIInv, NEW t \in GrTasks, GrReceive(t)
    PROVE  GrIInv'
  <1> USE DEF GrIInv
  <1>0. PICK own \in GrPools : own = grTask[t].pool
    BY DEF GrTypeOK
  <1>1. /\ GrAt(t, "back") /\ grTask[t].st = "run"
        /\ grChan' = [grChan EXCEPT ![own] = IF @ > 0 THEN @ - 1 ELSE 0]
        /\ UNCHANGED <<grSize, grStart, grWg, grClose, grSeen>>
    BY <1>0 DEF GrReceive
  <1>2. /\ grTask' \in [GrTasks -> [st : GrStates, pool : GrPools]]
        /\ grTask'[t].st = "back" /\ grTask'[t].pool = own
        /\ \A u \in GrTasks : u # t => grTask'[u] = grTask[u]
    BY <1>0, <1>1, GrAtTask DEF GrStates
  <1>3. GrTypeOK'
    BY <1>1, <1>2 DEF GrTypeOK
  <1>4. ASSUME NEW q \in GrPools
        PROVE  /\ GrOf(q, {"run", "back"})' = GrOf(q, {"run", "back"})
               /\ GrOf(q, {"run", "back", "done"})' = GrOf(q, {"run", "back", "done"})
               /\ q # own => GrOf(q, {"sent", "run"})' = GrOf(q, {"sent", "run"})
    BY <1>0, <1>1, <1>2 DEF GrOf
  <1>5. grChan'[own] = Cardinality(GrOf(own, {"sent", "run"})') /\ grChan'[own] <= grSize[own]
    <2>1. t \in GrOf(own, {"sent", "run"})
      BY <1>0, <1>1 DEF GrOf
    <2>2. GrOf(own, {"sent", "run"})' = GrOf(own, {"sent", "run"}) \ {t}
      BY <1>0, <1>1, <1>2 DEF GrOf
    <2>3. /\ Cardinality(GrOf(own, {"sent", "run"})') = Cardinality(GrOf(own, {"sent", "run"})) - 1
          /\ Cardinality(GrOf(own, {"sent", "run"})) > 0
      BY <2>1, <2>2, GrOfFinite, GrDropOne
    <2>4. QED
      BY <1>1, <1>2, <2>3 DEF GrExact, GrTypeOK
  <1>6. ASSUME NEW q \in GrPools
        PROVE  /\ grChan'[q] = Cardinality(GrOf(q, {"sent", "run"})')
               /\ grChan'[q] <= grSize[q]
    <2>1. CASE q = own
      BY <2>1, <1>5
    <2>2. CASE q # own
      <3>1. grChan'[q] = grChan[q]
        BY <2>2, <1>1 DEF GrTypeOK
      <3>2. QED
        BY <3>1, <2>2, <1>4 DEF GrExact
    <2>3. QED
      BY <2>1, <2>2
  <1>7. GrExact'
    BY <1>1, <1>4, <1>6 DEF GrExact
  <1>8. GrSeenInv'
    BY <1>1, <1>4 DEF GrSeenInv
  <1>9. QED
    BY <1>3, <1>7, <1>8

\* wg.Done: the counter was above 0.
LEMMA GrDoneKeeps ==
    ASSUME GrIInv, NEW t \in GrTasks, GrDone(t)
    PROVE  GrIInv'
  <1> USE DEF GrIInv
  <1>0. PICK own \in GrPools : own = grTask[t].pool
    BY DEF GrTypeOK
  <1>1. /\ GrAt(t, "done") /\ grTask[t].st = "back"
        /\ grWg' = [grWg EXCEPT ![own] = @ - 1]
        /\ UNCHANGED <<grSize, grStart, grChan, grClose, grSeen>>
    BY <1>0 DEF GrDone
  <1>2. /\ grTask' \in [GrTasks -> [st : GrStates, pool : GrPools]]
        /\ grTask'[t].st = "done" /\ grTask'[t].pool = own
        /\ \A u \in GrTasks : u # t => grTask'[u] = grTask[u]
    BY <1>0, <1>1, GrAtTask DEF GrStates
  <1>3. ASSUME NEW q \in GrPools
        PROVE  /\ GrOf(q, {"sent", "run"})' = GrOf(q, {"sent", "run"})
               /\ GrOf(q, {"run", "back", "done"})' = GrOf(q, {"run", "back", "done"})
               /\ q # own => GrOf(q, {"run", "back"})' = GrOf(q, {"run", "back"})
    BY <1>0, <1>1, <1>2 DEF GrOf
  <1>4. grWg[own] > 0 /\ grWg'[own] = Cardinality(GrOf(own, {"run", "back"})')
    <2>1. t \in GrOf(own, {"run", "back"})
      BY <1>0, <1>1 DEF GrOf
    <2>2. GrOf(own, {"run", "back"})' = GrOf(own, {"run", "back"}) \ {t}
      BY <1>0, <1>1, <1>2 DEF GrOf
    <2>3. /\ Cardinality(GrOf(own, {"run", "back"})') = Cardinality(GrOf(own, {"run", "back"})) - 1
          /\ Cardinality(GrOf(own, {"run", "back"})) > 0
      BY <2>1, <2>2, GrOfFinite, GrDropOne
    <2>4. QED
      BY <1>1, <1>2, <2>3 DEF GrExact, GrTypeOK
  <1>5. GrTypeOK'
    BY <1>1, <1>2, <1>4 DEF GrTypeOK
  <1>6. ASSUME NEW q \in GrPools
        PROVE  grWg'[q] = Cardinality(GrOf(q, {"run", "back"})')
    <2>1. CASE q = own
      BY <2>1, <1>4
    <2>2. CASE q # own
      <3>1. grWg'[q] = grWg[q]
        BY <2>2, <1>1 DEF GrTypeOK
      <3>2. QED
        BY <3>1, <2>2, <1>3 DEF GrExact
    <2>3. QED
      BY <2>1, <2>2
  <1>7. GrExact'
    BY <1>1, <1>3, <1>6 DEF GrExact
  <1>8. GrSeenInv'
    BY <1>1, <1>3 DEF GrSeenInv
  <1>9. QED
    BY <1>5, <1>7, <1>8

\* A wait that times out has neither a token nor a goroutine.
LEMMA GrTimeoutKeeps ==
    ASSUME GrIInv, NEW t \in GrTasks, GrTimeout(t)
    PROVE  GrIInv'
  <1> USE DEF GrIInv
  <1>1. /\ GrAt(t, "timeout") /\ grTask[t].st = "blocked"
        /\ UNCHANGED <<grSize, grStart, grChan, grWg, grClose, grSeen>>
    BY DEF GrTimeout
  <1>2. /\ grTask' \in [GrTasks -> [st : GrStates, pool : GrPools]]
        /\ grTask'[t].st = "timeout"
        /\ \A u \in GrTasks : u # t => grTask'[u] = grTask[u]
    BY <1>1, GrAtTask DEF GrStates
  <1>3. GrTypeOK'
    BY <1>1, <1>2 DEF GrTypeOK
  <1>4. ASSUME NEW q \in GrPools
        PROVE  /\ GrOf(q, {"sent", "run"})' = GrOf(q, {"sent", "run"})
               /\ GrOf(q, {"run", "back"})' = GrOf(q, {"run", "back"})
               /\ GrOf(q, {"run", "back", "done"})' = GrOf(q, {"run", "back", "done"})
    BY <1>1, <1>2 DEF GrOf
  <1>5. GrExact'
    BY <1>1, <1>4 DEF GrExact
  <1>6. GrSeenInv'
    BY <1>1, <1>4 DEF GrSeenInv
  <1>7. QED
    BY <1>3, <1>5, <1>6

\* Start and the steps of Close move no task and no counter.
LEMMA GrCloseKeeps ==
    ASSUME GrIInv, UNCHANGED <<grSize, grTask, grChan, grWg>>,
           \/ GrStart
           \/ \E ps \in SUBSET GrPools : GrCloseCall(ps)
           \/ \E p \in GrPools : GrCloseChan(p) \/ GrWait(p)
           \/ UNCHANGED grVars
    PROVE  GrIInv'
  <1> USE DEF GrIInv
  <1>1. \A q, sts : GrOf(q, sts)' = GrOf(q, sts) /\ GrOf(q, sts) \subseteq GrTasks
    BY DEF GrOf
  <1>2. GrExact'
    BY <1>1 DEF GrExact
  <1>3. GrTypeOK' /\ GrSeenInv'
    <2>1. CASE GrStart
      BY <2>1, <1>1 DEF GrStart, GrTypeOK, GrSeenInv
    <2>2. CASE \E ps \in SUBSET GrPools : GrCloseCall(ps)
      BY <2>2, <1>1 DEF GrCloseCall, GrTypeOK, GrSeenInv
    <2>3. CASE \E p \in GrPools : GrCloseChan(p) \/ GrWait(p)
      BY <2>3, <1>1 DEF GrCloseChan, GrWait, GrTypeOK, GrSeenInv
    <2>4. CASE UNCHANGED grVars
      BY <2>4, <1>1 DEF grVars, GrTypeOK, GrSeenInv
    <2>5. QED
      BY <2>1, <2>2, <2>3, <2>4
  <1>4. QED
    BY <1>2, <1>3

\* What a step is: the pool of a task is one of the pools, and so is every pool
\* that is closed.
LEMMA GrStepCases ==
    ASSUME GrTypeOK, [GrNext]_grVars
    PROVE  \/ \E t \in GrTasks, p \in GrPools : /\ GrSend(t, p)
                                                /\ grTask[t].st \in {"new", "blocked"}
           \/ \E t \in GrTasks : GrTimeout(t) \/ GrSpawn(t) \/ GrReceive(t) \/ GrDone(t)
           \/ /\ UNCHANGED <<grSize, grTask, grChan, grWg>>
              /\ \/ GrStart
                 \/ \E ps \in SUBSET GrPools : GrCloseCall(ps)
                 \/ \E p \in GrPools : GrCloseChan(p) \/ GrWait(p)
                 \/ UNCHANGED grVars
  <1>1. CASE \E t \in GrTasks : GrExecute(t) \/ GrUnblock(t)
    BY <1>1 DEF GrExecute, GrUnblock, GrTypeOK
  <1>2. CASE GrStart \/ UNCHANGED grVars
    BY <1>2 DEF GrStart, grVars
  <1>3. CASE (\E p \in GrTimed : GrCloseCall({p})) \/ GrCloseCall(GrConfigured)
    <2>1. \E ps \in SUBSET GrPools : GrCloseCall(ps)
      BY <1>3 DEF GrPools
    <2>2. UNCHANGED <<grSize, grTask, grChan, grWg>>
      BY <1>3 DEF GrCloseCall
    <2>3. QED
      BY <2>1, <2>2
  <1>4. CASE \E p \in GrPools : GrCloseChan(p) \/ GrWait(p)
    BY <1>4 DEF GrCloseChan, GrWait
  <1>5. QED
    BY <1>1, <1>2, <1>3, <1>4 DEF GrNext

\* No task has been given to a pool yet.
LEMMA GrInitHolds == GrInit => GrIInv
  <1> SUFFICES ASSUME GrInit PROVE GrIInv
    OBVIOUS
  <1>1. GrTypeOK
    BY GrAssumption DEF GrInit, GrTypeOK, GrPools, GrConfigured, GrStates
  <1>2. \A q \in GrPools : GrOf(q, {"sent", "run"}) = {} /\ GrOf(q, {"run", "back"}) = {}
    BY DEF GrInit, GrOf
  <1>3. GrExact
    <2>1. Cardinality({}) = 0
      BY FS_EmptySet
    <2>2. \A q \in GrPools : grChan[q] = 0 /\ grWg[q] = 0 /\ 0 <= grSize[q]
      BY <1>1 DEF GrInit, GrTypeOK
    <2>3. QED
      BY <1>2, <2>1, <2>2 DEF GrExact
  <1>4. GrSeenInv
    BY DEF GrInit, GrSeenInv
  <1>5. QED
    BY <1>1, <1>3, <1>4 DEF GrIInv

(* The inductive invariant: the counters of every pool are exact, and a Close *)
(* waits for started tasks of its own pool only (goroutine_helper.go:24-92).  *)
THEOREM GrInvariance == GrSpec => []GrIInv
  <1>1. GrIInv /\ [GrNext]_grVars => GrIInv'
    <2> SUFFICES ASSUME GrIInv, [GrNext]_grVars PROVE GrIInv'
      OBVIOUS
    <2> QED
      BY GrStepCases, GrSendKeeps, GrSpawnKeeps, GrReceiveKeeps1, GrDoneKeeps, GrTimeoutKeeps,
         GrCloseKeeps DEF GrIInv
  <1>2. QED
    BY GrInitHolds, <1>1, PTL DEF GrSpec

(* Tokens and the wait group are exact and no pool runs more than Size tasks, *)
(* for any number of pools, tasks and sizes, Close included (lines 25-33).    *)
THEOREM GrCountersExact == GrSpec => []GrExact
  BY GrInvariance, PTL DEF GrIInv

-----------------------------------------------------------------------------
(* The pools implement BoundedExecutor: every step is one of its steps.      *)

\* The values the mapping gives, and the tasks in flight: the ones with a token.
LEMMA GrMapped ==
    ASSUME GrTypeOK
    PROVE  /\ \A t \in GrTasks :
                 /\ grTask[t].st \in {"sent", "run"} => GrPhase[t] = "flight"
                 /\ grTask[t].st \in {"back", "done"} => GrPhase[t] = "over"
                 /\ grTask[t].st \in {"new", "blocked", "timeout", "panic"} => GrPhase[t] = "idle"
                 /\ GrHome[t] = grTask[t].pool
           /\ \A p \in GrPools : GrExec!InFlight(p) = GrOf(p, {"sent", "run"})
           /\ \A p \in GrPools : /\ grClose[p] = "no" => GrJoin[p] = "no"
                                 /\ grClose[p] = "done" => GrJoin[p] = "ended"
                                 /\ grClose[p] \in {"called", "closed"} => GrJoin[p] = "asked"
  <1>1. \A t \in GrTasks :
           /\ grTask[t].st \in {"sent", "run"} => GrPhase[t] = "flight"
           /\ grTask[t].st \in {"back", "done"} => GrPhase[t] = "over"
           /\ grTask[t].st \in {"new", "blocked", "timeout", "panic"} => GrPhase[t] = "idle"
           /\ GrHome[t] = grTask[t].pool
    BY DEF GrPhase, GrHome
  <1>2. \A t \in GrTasks : grTask[t].st \in GrStates
    BY DEF GrTypeOK
  <1>3. ASSUME NEW p \in GrPools PROVE GrExec!InFlight(p) = GrOf(p, {"sent", "run"})
    <2>1. GrExec!InFlight(p) = {t \in GrTasks : GrPhase[t] = "flight" /\ GrHome[t] = p}
      BY DEF GrExec!InFlight
    <2>2. QED
      BY <2>1, <1>1, <1>2 DEF GrOf, GrStates
  <1>4. \A p \in GrPools : /\ grClose[p] = "no" => GrJoin[p] = "no"
                           /\ grClose[p] = "done" => GrJoin[p] = "ended"
                           /\ grClose[p] \in {"called", "closed"} => GrJoin[p] = "asked"
    BY DEF GrJoin
  <1>5. QED
    BY <1>1, <1>3, <1>4

\* The executor counts with the same Cardinality.
LEMMA GrSameCardinality == \A S : GrExec!Cardinality(S) = Cardinality(S)
  BY DEF GrExec!Cardinality, Cardinality

\* A task that is sent takes one of the places; one that blocks or panics takes none.
LEMMA GrSendRefines ==
    ASSUME GrIInv, GrIInv', NEW t \in GrTasks, NEW p \in GrPools, GrSend(t, p),
           grTask[t].st \in {"new", "blocked"}
    PROVE  GrExec!Next
  <1> USE DEF GrIInv
  <1>1. /\ grTask' = [grTask EXCEPT ![t] = [st |-> grTask'[t].st, pool |-> p]]
        /\ grTask'[t].st \in {"panic", "sent", "blocked"}
        /\ grTask'[t].st = "sent" => grChan[p] < grSize[p]
        /\ UNCHANGED <<grSize, grClose, grSeen>>
    BY DEF GrSend, GrTypeOK
  <1>2. /\ grTask'[t].pool = p
        /\ \A u \in GrTasks : u # t => grTask'[u] = grTask[u]
    BY <1>1 DEF GrTypeOK
  <1>3. UNCHANGED <<grSize, grSeen, GrJoin>>
    BY <1>1 DEF GrJoin
  <1>4. GrHome' = [GrHome EXCEPT ![t] = p]
    BY <1>1, <1>2, Zenon DEF GrHome
  <1>5. GrPhase[t] = "idle" /\ GrHome'[t] = p
    BY <1>4, GrMapped DEF GrHome
  <1>6. GrExec!Choose(t)
    BY <1>4, <1>5 DEF GrExec!Choose
  <1>7. CASE grTask'[t].st = "sent"
    <2>1. GrPhase' = [GrPhase EXCEPT ![t] = "flight"]
      BY <1>7, <1>2, Zenon DEF GrPhase
    <2>2. GrExec!Cardinality(GrExec!InFlight(p)) < grSize[p]
      BY <1>7, <1>1, GrMapped, GrSameCardinality DEF GrExact
    <2>3. GrExec!Admit(t)
      BY <2>1, <2>2, <1>3, <1>5, <1>6 DEF GrExec!Admit
    <2>4. QED
      BY <2>3 DEF GrExec!Next
  <1>8. CASE grTask'[t].st # "sent"
    <2>1. GrPhase' = GrPhase
      <3>1. GrPhase'[t] = "idle"
        BY <1>8, <1>1 DEF GrPhase
      <3>2. \A u \in GrTasks : u # t => GrPhase'[u] = GrPhase[u]
        BY <1>2 DEF GrPhase
      <3>3. \A u \in GrTasks : GrPhase'[u] = GrPhase[u]
        BY <3>1, <3>2, <1>5
      <3>4. QED
        BY <3>3, Zenon DEF GrPhase
    <2>2. GrExec!Refuse(t)
      BY <2>1, <1>3, <1>6 DEF GrExec!Refuse
    <2>3. QED
      BY <2>2 DEF GrExec!Next
  <1>9. QED
    BY <1>7, <1>8

\* A goroutine that takes its token back ends its task; no other step of a task
\* shows.
LEMMA GrTaskRefines ==
    ASSUME GrIInv, NEW t \in GrTasks,
           GrTimeout(t) \/ GrSpawn(t) \/ GrReceive(t) \/ GrDone(t)
    PROVE  GrExec!Next \/ UNCHANGED GrExec!vars
  <1> USE DEF GrIInv
  <1>1. PICK st \in GrStates : /\ GrAt(t, st)
                               /\ \/ grTask[t].st = "blocked" /\ st = "timeout"
                                  \/ grTask[t].st = "sent" /\ st = "run"
                                  \/ grTask[t].st = "run" /\ st = "back"
                                  \/ grTask[t].st = "back" /\ st = "done"
    BY DEF GrTimeout, GrSpawn, GrReceive, GrDone, GrStates
  <1>2. /\ grTask'[t].st = st /\ grTask'[t].pool = grTask[t].pool
        /\ \A u \in GrTasks : u # t => grTask'[u] = grTask[u]
    BY <1>1, GrAtTask
  <1>3. UNCHANGED <<grSize, grSeen, GrJoin>>
    BY DEF GrTimeout, GrSpawn, GrReceive, GrDone, GrJoin
  <1>4. GrHome' = GrHome
    <2>1. \A u \in GrTasks : grTask'[u].pool = grTask[u].pool
      BY <1>2
    <2>2. QED
      BY <2>1, Zenon DEF GrHome
  <1>5. CASE st = "back"
    <2>1. GrPhase[t] = "flight"
      BY <1>1, <1>5, GrMapped
    <2>2. GrPhase' = [GrPhase EXCEPT ![t] = "over"]
      BY <1>5, <1>2, Zenon DEF GrPhase
    <2>3. GrExec!Finish(t)
      BY <2>1, <2>2, <1>3, <1>4 DEF GrExec!Finish
    <2>4. QED
      BY <2>3 DEF GrExec!Next
  <1>6. CASE st # "back"
    <2>1. GrPhase'[t] = GrPhase[t]
      BY <1>1, <1>2, <1>6 DEF GrPhase
    <2>2. \A u \in GrTasks : u # t => GrPhase'[u] = GrPhase[u]
      BY <1>2 DEF GrPhase
    <2>3. \A u \in GrTasks : GrPhase'[u] = GrPhase[u]
      BY <2>1, <2>2
    <2>4. GrPhase' = GrPhase
      BY <2>3, Zenon DEF GrPhase
    <2>5. QED
      BY <2>4, <1>3, <1>4 DEF GrExec!vars
  <1>7. QED
    BY <1>5, <1>6

\* Close asks for a join, waits as long as the wait group is not empty, and so
\* returns after every task it saw.
LEMMA GrCloseRefines ==
    ASSUME GrIInv, GrIInv', UNCHANGED <<grSize, grTask, grChan, grWg>>,
           \/ GrStart
           \/ \E ps \in SUBSET GrPools : GrCloseCall(ps)
           \/ \E p \in GrPools : GrCloseChan(p) \/ GrWait(p)
           \/ UNCHANGED grVars
    PROVE  GrExec!Next \/ UNCHANGED GrExec!vars
  <1> USE DEF GrIInv
  <1>1. UNCHANGED <<grSize, GrPhase, GrHome>>
    BY DEF GrPhase, GrHome
  <1>2. CASE GrStart \/ UNCHANGED grVars
    <2>1. UNCHANGED <<grSeen, GrJoin>>
      BY <1>2 DEF GrStart, grVars, GrJoin
    <2>2. QED
      BY <2>1, <1>1 DEF GrExec!vars
  <1>3. ASSUME NEW ps \in SUBSET GrPools, GrCloseCall(ps) PROVE GrExec!Next
    <2>1. \A p \in ps : GrJoin[p] = "no"
      BY <1>3, GrMapped DEF GrCloseCall
    <2>2. GrJoin' = [p \in GrPools |-> IF p \in ps THEN "asked" ELSE GrJoin[p]]
      <3>1. \A p \in ps : GrJoin'[p] = "asked"
        BY <1>3 DEF GrCloseCall, GrJoin
      <3>2. \A p \in GrPools \ ps : GrJoin'[p] = GrJoin[p]
        BY <1>3 DEF GrCloseCall, GrJoin
      <3>3. \A p \in GrPools : GrJoin'[p] = IF p \in ps THEN "asked" ELSE GrJoin[p]
        BY <3>1, <3>2
      <3>4. GrJoin' = [p \in GrPools |-> GrJoin'[p]]
        BY Zenon DEF GrJoin
      <3>5. QED
        BY <3>3, <3>4
    <2> DEFINE d == [p \in ps |-> GrOf(p, {"run", "back", "done"})]
    <2>3. d \in [ps -> SUBSET GrTasks]
      BY DEF GrOf
    <2>4. grSeen' = [p \in GrPools |-> IF p \in ps THEN d[p] ELSE grSeen[p]]
      BY <1>3 DEF GrCloseCall
    <2>5. ASSUME NEW p \in ps
          PROVE  d[p] \subseteq GrExec!InFlight(p) \cup {t \in GrTasks : GrPhase[t] = "over"}
      <3>1. GrExec!InFlight(p) = GrOf(p, {"sent", "run"})
        BY GrMapped
      <3>2. \A t \in GrTasks : grTask[t].st \in {"back", "done"} => GrPhase[t] = "over"
        BY GrMapped
      <3>3. QED
        BY <3>1, <3>2 DEF GrOf
    <2> HIDE DEF d
    <2>6. GrExec!AskJoin(ps)
      BY <2>1, <2>2, <2>3, <2>4, <2>5, <1>1 DEF GrExec!AskJoin
    <2>7. QED
      BY <2>6 DEF GrExec!Next
  <1>4. ASSUME NEW p \in GrPools, GrCloseChan(p) PROVE UNCHANGED GrExec!vars
    <2>1. GrJoin'[p] = GrJoin[p]
      BY <1>4, GrMapped DEF GrCloseChan, GrJoin, GrTypeOK
    <2>2. \A q \in GrPools : q # p => GrJoin'[q] = GrJoin[q]
      BY <1>4 DEF GrCloseChan, GrJoin, GrTypeOK
    <2>3. \A q \in GrPools : GrJoin'[q] = GrJoin[q]
      BY <2>1, <2>2
    <2>4. GrJoin' = GrJoin
      BY <2>3, Zenon DEF GrJoin
    <2>5. QED
      BY <2>4, <1>1, <1>4 DEF GrCloseChan, GrExec!vars
  <1>5. ASSUME NEW p \in GrPools, GrWait(p) PROVE GrExec!Next
    <2>1. GrOf(p, {"run", "back"}) = {}
      <3>1. Cardinality(GrOf(p, {"run", "back"})) = 0
        BY <1>5 DEF GrWait, GrExact
      <3>2. QED
        BY <3>1, GrOfFinite, FS_EmptySet
    <2>2. \A t \in grSeen[p] : GrPhase[t] = "over"
      <3>1. \A t \in grSeen[p] : t \in GrTasks /\ grTask[t].st = "done"
        BY <2>1 DEF GrSeenInv, GrOf
      <3>2. QED
        BY <3>1, GrMapped
    <2>3. GrJoin[p] = "asked"
      BY <1>5, GrMapped DEF GrWait
    <2>4. GrJoin' = [GrJoin EXCEPT ![p] = "ended"]
      <3>1. grClose'[p] = "done" /\ \A q \in GrPools : q # p => grClose'[q] = grClose[q]
        BY <1>5 DEF GrWait, GrTypeOK
      <3>2. QED
        BY <3>1, Zenon DEF GrJoin
    <2>5. GrExec!EndJoin(p)
      BY <2>2, <2>3, <2>4, <1>1, <1>5 DEF GrExec!EndJoin, GrWait
    <2>6. QED
      BY <2>5 DEF GrExec!Next
  <1>6. QED
    BY <1>2, <1>3, <1>4, <1>5

(* Every behaviour of the pools is one of the bounded executor: at most Size  *)
(* tasks in flight, none without a place, and a Close that returns only after *)
(* the tasks it found started (goroutine_helper.go:24-92, 100-150).           *)
THEOREM GrRefines == GrSpec => GrImplements
  <1>1. GrInit => GrExec!Init
    <2> SUFFICES ASSUME GrInit PROVE GrExec!Init
      OBVIOUS
    <2>1. GrTypeOK
      BY GrInitHolds DEF GrIInv
    <2>2. GrPhase = [t \in GrTasks |-> "idle"]
      <3>1. \A t \in GrTasks : GrPhase[t] = "idle"
        BY <2>1, GrMapped DEF GrInit
      <3>2. GrPhase = [t \in GrTasks |-> GrPhase[t]]
        BY Zenon DEF GrPhase
      <3>3. QED
        BY <3>1, <3>2
    <2>3. GrHome \in [GrTasks -> GrPools]
      BY <2>1 DEF GrHome, GrTypeOK
    <2>4. GrJoin = [p \in GrPools |-> "no"]
      <3>1. \A p \in GrPools : GrJoin[p] = "no"
        BY <2>1, GrMapped DEF GrInit
      <3>2. GrJoin = [p \in GrPools |-> GrJoin[p]]
        BY Zenon DEF GrJoin
      <3>3. QED
        BY <3>1, <3>2
    <2>5. grSize \in [GrPools -> Nat] /\ grSeen = [p \in GrPools |-> {}]
      BY <2>1 DEF GrInit, GrTypeOK
    <2>6. QED
      BY <2>2, <2>3, <2>4, <2>5 DEF GrExec!Init
  <1>2. GrIInv /\ GrIInv' /\ [GrNext]_grVars => [GrExec!Next]_(GrExec!vars)
    <2> SUFFICES ASSUME GrIInv, GrIInv', [GrNext]_grVars
                 PROVE  GrExec!Next \/ UNCHANGED GrExec!vars
      OBVIOUS
    <2> QED
      BY GrStepCases, GrSendRefines, GrTaskRefines, GrCloseRefines DEF GrIInv
  <1>3. QED
    BY <1>1, <1>2, GrInvariance, PTL DEF GrSpec, GrImplements, GrExec!Spec

-----------------------------------------------------------------------------
(* The task group. A task is closed exactly when it was added and either has *)
(* left the list or was taken off what the holder of the lock still closes.  *)
TgDone(t) == t \in tgAdded /\ (t \notin ToSet(tgList) \/ (tgHolder # "none" /\ t \notin tgPending))

TgTypes == /\ tgList \in Seq(TgTasks) /\ tgAdded \in SUBSET TgTasks
           /\ tgClosed \in [TgTasks -> Nat]

TgInv == /\ TgTypes
         /\ ToSet(tgList) \subseteq tgAdded /\ tgPending \subseteq ToSet(tgList)
         /\ tgHolder = "none" => tgPending = {}
         /\ \A t \in TgTasks : tgClosed[t] = IF TgDone(t) THEN 1 ELSE 0

\* The elements of a list to which AddTask has appended one.
LEMMA ToSetAppend ==
    ASSUME NEW S, NEW s \in Seq(S), NEW e \in S
    PROVE  ToSet(Append(s, e)) = ToSet(s) \cup {e}
<1>1. /\ DOMAIN s = 1..Len(s) /\ DOMAIN Append(s, e) = 1..(Len(s) + 1) /\ Len(s) \in Nat
      /\ Append(s, e)[Len(s) + 1] = e /\ \A i \in 1..Len(s) : Append(s, e)[i] = s[i]
  OBVIOUS
<1>2. ASSUME NEW x \in ToSet(Append(s, e)) PROVE x \in ToSet(s) \cup {e}
  <2>1. PICK i \in 1..(Len(s) + 1) : x = Append(s, e)[i]
    BY <1>1, <1>2 DEF ToSet
  <2>2. CASE i = Len(s) + 1
    BY <1>1, <2>1, <2>2
  <2>3. CASE i \in 1..Len(s)
    BY <1>1, <2>1, <2>3 DEF ToSet
  <2> QED
    BY <1>1, <2>1, <2>2, <2>3
<1>3. ASSUME NEW x \in ToSet(s) \cup {e} PROVE x \in ToSet(Append(s, e))
  <2>1. CASE x = e
    BY <1>1, <2>1 DEF ToSet
  <2>2. CASE x \in ToSet(s)
    <3>1. PICK i \in 1..Len(s) : x = s[i]
      BY <1>1, <2>2 DEF ToSet
    <3>2. i \in DOMAIN Append(s, e) /\ Append(s, e)[i] = x
      BY <1>1, <3>1
    <3> QED
      BY <3>2 DEF ToSet
  <2> QED
    BY <1>3, <2>1, <2>2
<1> QED
  BY <1>2, <1>3

\* WaitStopAll leaves an empty list.
LEMMA ToSetEmpty == ToSet(<<>>) = {}
  BY DEF ToSet

\* A new task group is empty and has closed nothing.
LEMMA TgInitHolds == TgInit => TgInv
<1> SUFFICES ASSUME TgInit PROVE TgInv
  OBVIOUS
<1>1. TgTypes
  BY DEF TgInit, TgTypes
<1> QED
  BY <1>1, ToSetEmpty DEF TgInit, TgInv, TgDone

\* AddTask, WaitStopAll and the goroutines it starts keep the invariant.
LEMMA TgStep == TgInv /\ [TgNext]_tgVars => TgInv'
<1> SUFFICES ASSUME TgInv, [TgNext]_tgVars PROVE TgInv'
  OBVIOUS
<1>1. ASSUME NEW t \in TgTasks, TgAddTask(t) PROVE TgInv'
  <2>1. TgTypes'
    BY <1>1 DEF TgInv, TgTypes, TgAddTask
  <2>2. ToSet(tgList') = ToSet(tgList) \cup {t}
    BY <1>1, ToSetAppend DEF TgInv, TgTypes, TgAddTask
  <2> QED
    BY <1>1, <2>1, <2>2 DEF TgInv, TgTypes, TgAddTask, TgDone
<1>2. ASSUME NEW t \in TgTasks, TgCloseTask(t) PROVE TgInv'
  <2>1. TgTypes'
    BY <1>2 DEF TgInv, TgTypes, TgCloseTask
  <2>2. ~TgDone(t) /\ TgDone(t)' /\ tgClosed[t] = 0 /\ tgHolder # "none"
    BY <1>2 DEF TgInv, TgCloseTask, TgDone
  <2>3. ASSUME NEW u \in TgTasks PROVE tgClosed'[u] = IF TgDone(u)' THEN 1 ELSE 0
    <3>1. CASE u = t
      BY <1>2, <2>2, <3>1 DEF TgInv, TgTypes, TgCloseTask
    <3>2. CASE u # t
      BY <1>2, <3>2 DEF TgInv, TgTypes, TgCloseTask, TgDone
    <3> QED
      BY <3>1, <3>2
  <2> QED
    BY <1>2, <2>1, <2>2, <2>3 DEF TgInv, TgCloseTask
<1>3. ASSUME NEW g \in TgStoppers, TgStop(g) PROVE TgInv'
  BY <1>3, TgAssumption DEF TgInv, TgTypes, TgStop, TgDone
<1>4. CASE TgReturn
  BY <1>4, ToSetEmpty DEF TgInv, TgTypes, TgReturn, TgDone
<1>5. CASE UNCHANGED tgVars
  BY <1>5 DEF TgInv, TgTypes, TgDone, tgVars
<1> QED
  BY <1>1, <1>2, <1>3, <1>4, <1>5 DEF TgNext

(* However adding tasks and stopping the group interleave, no task is        *)
(* forgotten and none is closed twice (stopable_task_group.go:49-67).        *)
THEOREM TaskGroupKeeps == TgSpec => []TgKept
<1>1. TgInv => TgKept
  BY DEF TgInv, TgTypes, TgKept, TgDone
<1> QED
  BY <1>1, TgInitHolds, TgStep, PTL DEF TgSpec

-----------------------------------------------------------------------------
(* Goroutine-local storage. The map of a goroutine is good for a request when *)
(* everything in it was put there by that goroutine in that request, and each *)
(* number is what the history has added up.                                   *)
GlValues == [kind : {"int", "ptr", "str"}, n : Int, by : GlRoutines, req : Nat]

GlGood(m, net, r, g) ==
    /\ DOMAIN m \subseteq GlKeys /\ m \in [DOMAIN m -> GlValues]
    /\ \A k \in DOMAIN m : /\ m[k].by = g /\ m[k].req = r
                           /\ m[k].kind = "int" => m[k].n = net[k]

GlTypes == /\ glReq \in [GlRoutines -> Nat] /\ glNet \in [GlRoutines -> [GlKeys -> Int]]
           /\ DOMAIN glMap \subseteq GlRoutines /\ glMap = [g \in DOMAIN glMap |-> glMap[g]]

GlInv == GlTypes /\ \A g \in DOMAIN glMap : GlGood(glMap[g], glNet[g], glReq[g], g)

\* Before the first Init there is no map.
LEMMA GlInitHolds == GlInit => GlInv
<1> SUFFICES ASSUME GlInit PROVE GlInv
  OBVIOUS
<1>1. DOMAIN glMap = {} /\ glMap = [g \in {} |-> 0]
  BY DEF GlInit, GlEmpty
<1>2. glMap = [g \in DOMAIN glMap |-> glMap[g]]
  BY <1>1
<1> QED
  BY <1>1, <1>2 DEF GlInit, GlInv, GlTypes

\* Init, Set, Incr and the others replace one goroutine's map by a good one.
LEMMA GlReplace ==
    ASSUME GlInv, NEW g \in GlRoutines, NEW m, NEW net \in [GlKeys -> Int], NEW r \in Nat,
           GlGood(m, net, r, g),
           glMap' = GlWith(glMap, g, m),
           glNet' = [glNet EXCEPT ![g] = net],
           glReq' = [glReq EXCEPT ![g] = r]
    PROVE  GlInv'
<1>1. GlTypes
  BY DEF GlInv
<1>2. /\ DOMAIN glMap' = DOMAIN glMap \cup {g} /\ glMap'[g] = m
      /\ \A h \in DOMAIN glMap : h # g => glMap'[h] = glMap[h]
  BY DEF GlWith
<1>3. glMap' = [h \in DOMAIN glMap' |-> glMap'[h]]
  BY DEF GlWith
<1>4. glReq' \in [GlRoutines -> Nat] /\ glNet' \in [GlRoutines -> [GlKeys -> Int]]
  BY <1>1 DEF GlTypes
<1>5. GlTypes'
  BY <1>1, <1>2, <1>3, <1>4 DEF GlTypes
<1>6. ASSUME NEW h \in DOMAIN glMap' PROVE GlGood(glMap'[h], glNet'[h], glReq'[h], h)
  <2>1. CASE h = g
    <3>1. glNet'[g] = net /\ glReq'[g] = r
      BY <1>1 DEF GlTypes
    <3> QED
      BY <1>2, <2>1, <3>1
  <2>2. CASE h # g
    <3>1. h \in DOMAIN glMap /\ glMap'[h] = glMap[h]
      BY <1>2, <1>6, <2>2
    <3>2. glNet'[h] = glNet[h] /\ glReq'[h] = glReq[h]
      BY <1>1, <2>2, <3>1 DEF GlTypes
    <3>3. GlGood(glMap[h], glNet[h], glReq[h], h)
      BY <3>1 DEF GlInv
    <3> QED
      BY <3>1, <3>2, <3>3
  <2> QED
    BY <2>1, <2>2
<1> QED
  BY <1>5, <1>6 DEF GlInv

\* An assignment to the map of a goroutine that has one replaces it.
LEMMA GlExcept ==
    ASSUME GlInv, NEW g \in DOMAIN glMap, NEW m
    PROVE  [glMap EXCEPT ![g] = m] = GlWith(glMap, g, m)
<1>1. glMap = [h \in DOMAIN glMap |-> glMap[h]] /\ DOMAIN glMap \cup {g} = DOMAIN glMap
  BY DEF GlInv, GlTypes
<1> QED
  BY <1>1 DEF GlWith

\* Set and Incr: one value, with what the history says of it.
LEMMA GlPutStep ==
    ASSUME GlInv, NEW g \in GlRoutines, GlExist(g), NEW k \in GlKeys, NEW kind \in {"int", "ptr"},
           NEW n \in Int, GlPut(g, k, GlVal(g, kind, n), n)
    PROVE  GlInv'
<1> PICK m : m = GlWith(glMap[g], k, GlVal(g, kind, n))
  OBVIOUS
<1> PICK net : net = [glNet[g] EXCEPT ![k] = n]
  OBVIOUS
<1>1. GlTypes /\ g \in DOMAIN glMap /\ GlGood(glMap[g], glNet[g], glReq[g], g)
  BY DEF GlInv, GlExist
<1>2. net \in [GlKeys -> Int] /\ net[k] = n /\ \A j \in GlKeys : j # k => net[j] = glNet[g][j]
  BY <1>1 DEF GlTypes
<1>3. GlVal(g, kind, n) \in GlValues /\ GlVal(g, kind, n).by = g
      /\ GlVal(g, kind, n).req = glReq[g] /\ GlVal(g, kind, n).n = n
  BY <1>1 DEF GlTypes, GlVal, GlValues
<1>4. DOMAIN m = DOMAIN glMap[g] \cup {k} /\ m[k] = GlVal(g, kind, n)
      /\ \A j \in DOMAIN glMap[g] : j # k => m[j] = glMap[g][j]
  BY DEF GlWith
<1>5. m = [j \in DOMAIN m |-> m[j]]
  BY DEF GlWith
<1>6. GlGood(m, net, glReq[g], g)
  <2>1. ASSUME NEW j \in DOMAIN m
        PROVE  m[j] \in GlValues /\ m[j].by = g /\ m[j].req = glReq[g] /\ (m[j].kind = "int" => m[j].n = net[j])
    <3>1. CASE j = k
      BY <1>2, <1>3, <1>4, <3>1
    <3>2. CASE j # k
      BY <1>1, <1>2, <1>4, <2>1, <3>2 DEF GlGood
    <3> QED
      BY <3>1, <3>2
  <2>2. DOMAIN m \subseteq GlKeys
    BY <1>1, <1>4 DEF GlGood
  <2>3. m \in [DOMAIN m -> GlValues]
    BY <1>5, <2>1
  <2> QED
    BY <2>1, <2>2, <2>3 DEF GlGood
<1>7. glMap' = GlWith(glMap, g, m)
  BY <1>1, GlExcept DEF GlPut
<1>8. glNet' = [glNet EXCEPT ![g] = net]
  BY DEF GlPut
<1>9. glReq' = [glReq EXCEPT ![g] = glReq[g]] /\ glReq[g] \in Nat
  BY <1>1 DEF GlPut, GlTypes
<1> QED
  BY <1>2, <1>6, <1>7, <1>8, <1>9, GlReplace

\* What Incr finds under a key is what the history has added up for it.
LEMMA GlOldCounted ==
    ASSUME GlInv, NEW g \in DOMAIN glMap, NEW k \in GlKeys
    PROVE  GlOld(g, k) = GlCounted(g, k) /\ GlOld(g, k) \in Int
<1>1. GlGood(glMap[g], glNet[g], glReq[g], g)
  BY DEF GlInv
<1>2. CASE k \in DOMAIN glMap[g] /\ glMap[g][k].kind = "int"
  <2>1. glMap[g][k] \in GlValues /\ glMap[g][k].n = glNet[g][k]
    BY <1>1, <1>2 DEF GlGood
  <2>2. glMap[g][k].n \in Int
    BY <2>1 DEF GlValues
  <2> QED
    BY <1>2, <2>1, <2>2 DEF GlOld, GlCounted
<1>3. CASE ~(k \in DOMAIN glMap[g] /\ glMap[g][k].kind = "int")
  BY <1>3 DEF GlOld, GlCounted
<1> QED
  BY <1>2, <1>3

\* Init, also one that finds an old map.
LEMMA GlInitStep == ASSUME GlInv, NEW g \in GlRoutines, GlInitCall(g) PROVE GlInv'
<1> PICK net : net = [k \in GlKeys |-> 0]
  OBVIOUS
<1>1. GlTypes
  BY DEF GlInv
<1>2. GlGood(GlEmpty, net, glReq[g] + 1, g)
  BY DEF GlGood, GlEmpty
<1>3. net \in [GlKeys -> Int] /\ glReq[g] + 1 \in Nat
  BY <1>1 DEF GlTypes
<1>4. /\ glReq' = [glReq EXCEPT ![g] = glReq[g] + 1] /\ glMap' = GlWith(glMap, g, GlEmpty)
      /\ glNet' = [glNet EXCEPT ![g] = net]
  BY DEF GlInitCall, GlNets
<1> QED
  BY <1>2, <1>3, <1>4, GlReplace

\* Close removes the map of one goroutine.
LEMMA GlCloseStep == ASSUME GlInv, NEW g \in GlRoutines, GlClose(g) PROVE GlInv'
<1>1. DOMAIN glMap' = DOMAIN glMap \ {g} /\ \A h \in DOMAIN glMap' : glMap'[h] = glMap[h]
  BY DEF GlClose
<1>2. glMap' = [h \in DOMAIN glMap' |-> glMap'[h]]
  BY DEF GlClose
<1>3. glReq' = glReq /\ glNet' = glNet
  BY DEF GlClose
<1> QED
  BY <1>1, <1>2, <1>3 DEF GlInv, GlTypes

\* Del takes one key out.
LEMMA GlDelStep == ASSUME GlInv, NEW g \in GlRoutines, NEW k \in GlKeys, GlDel(g, k) PROVE GlInv'
<1> PICK m : m = Restrict(glMap[g], DOMAIN glMap[g] \ {k})
  OBVIOUS
<1> PICK net : net = [glNet[g] EXCEPT ![k] = 0]
  OBVIOUS
<1>1. GlTypes /\ g \in DOMAIN glMap /\ GlGood(glMap[g], glNet[g], glReq[g], g)
  BY DEF GlInv, GlExist, GlDel
<1>2. net \in [GlKeys -> Int] /\ \A j \in GlKeys : j # k => net[j] = glNet[g][j]
  BY <1>1 DEF GlTypes
<1>3. DOMAIN m = DOMAIN glMap[g] \ {k} /\ \A j \in DOMAIN m : m[j] = glMap[g][j]
  BY DEF Restrict
<1>4. m = [j \in DOMAIN m |-> m[j]]
  BY DEF Restrict
<1>5. m \in [DOMAIN m -> GlValues]
  BY <1>1, <1>3, <1>4 DEF GlGood
<1>6. GlGood(m, net, glReq[g], g)
  BY <1>1, <1>2, <1>3, <1>5 DEF GlGood
<1>7. glMap' = GlWith(glMap, g, m)
  BY <1>1, GlExcept DEF GlDel
<1>8. glNet' = [glNet EXCEPT ![g] = net]
  BY DEF GlDel
<1>9. glReq' = [glReq EXCEPT ![g] = glReq[g]] /\ glReq[g] \in Nat
  BY <1>1 DEF GlDel, GlTypes
<1> QED
  BY <1>2, <1>6, <1>7, <1>8, <1>9, GlReplace

\* Incr, Decr and the costs.
LEMMA GlIncrStep ==
    ASSUME GlInv, NEW g \in GlRoutines, NEW k \in GlKeys, NEW n \in Int, GlIncr(g, k, n)
    PROVE  GlInv'
<1>1. CASE GlExist(g)
  <2>1. GlOld(g, k) = GlCounted(g, k) /\ GlOld(g, k) + n \in Int
    BY <1>1, GlOldCounted DEF GlExist
  <2>2. GlPut(g, k, GlVal(g, "int", GlOld(g, k) + n), GlOld(g, k) + n)
    BY <1>1, <2>1 DEF GlIncr, GlIncremented
  <2>3. PICK x \in Int : x = GlOld(g, k) + n
    BY <2>1
  <2> QED
    BY <1>1, <2>2, <2>3, GlPutStep
<1>2. CASE ~GlExist(g)
  BY <1>2 DEF GlIncr, GlInv, GlTypes
<1> QED
  BY <1>1, <1>2

\* GetGlData turns pointers into strings and leaves numbers alone.
LEMMA GlDataTyped ==
    ASSUME GlInv, NEW h \in DOMAIN glMap, NEW k \in DOMAIN GetGlData(h)
    PROVE  k \in GlKeys /\ GetGlData(h)[k].kind \in {"int", "str"} /\ GetGlData(h)[k].n \in Int
<1>1. GlGood(glMap[h], glNet[h], glReq[h], h) /\ k \in DOMAIN glMap[h]
  BY DEF GlInv, GetGlData
<1>2. glMap[h][k] \in GlValues /\ k \in GlKeys
  BY <1>1 DEF GlGood
<1>3. GetGlData(h)[k] = IF glMap[h][k].kind = "ptr" THEN [glMap[h][k] EXCEPT !.kind = "str"] ELSE glMap[h][k]
  BY <1>1 DEF GetGlData
<1> QED
  BY <1>2, <1>3 DEF GlValues

\* CopyGlData: another goroutine's data, costs added.
LEMMA GlCopyStep ==
    ASSUME GlInv, NEW g \in GlRoutines, NEW h \in GlRoutines, GlCopy(g, h)
    PROVE  GlInv'
<1>1. CASE ~GlExist(g)
  BY <1>1 DEF GlCopy, GlInv, GlTypes
<1>2. CASE GlExist(g)
  <2>0. h \in DOMAIN glMap
    BY DEF GlCopy, GlExist
  <2> PICK data : data = GetGlData(h)
    OBVIOUS
  <2> PICK m : m = [k \in DOMAIN glMap[g] \cup DOMAIN data |->
                      IF k \in DOMAIN data THEN GlCopied(g, data, k) ELSE glMap[g][k]]
    OBVIOUS
  <2> PICK net : net = [k \in GlKeys |->
                      IF k \in DOMAIN data THEN GlCopiedNet(g, data, k) ELSE glNet[g][k]]
    OBVIOUS
  <2>1. GlTypes /\ g \in DOMAIN glMap /\ GlGood(glMap[g], glNet[g], glReq[g], g)
    BY <1>2 DEF GlInv, GlExist
  <2>2. \A k \in DOMAIN data : k \in GlKeys /\ data[k].kind \in {"int", "str"} /\ data[k].n \in Int
    BY <2>0, GlDataTyped
  <2>3. ASSUME NEW k \in DOMAIN data
        PROVE  /\ GlCopiedNet(g, data, k) \in Int
               /\ GlCopied(g, data, k) = GlVal(g, data[k].kind, GlCopiedNet(g, data, k))
    <3>1. GlOld(g, k) = GlCounted(g, k) /\ GlOld(g, k) \in Int /\ data[k].n \in Int
      BY <2>1, <2>2, <2>3, GlOldCounted
    <3>2. CASE k \in GlCosts /\ data[k].kind = "int"
      BY <3>1, <3>2 DEF GlCopied, GlCopiedNet, GlIncremented
    <3>3. CASE ~(k \in GlCosts /\ data[k].kind = "int")
      BY <3>1, <3>3 DEF GlCopied, GlCopiedNet
    <3> QED
      BY <3>2, <3>3
  <2>4. \A k \in DOMAIN data : /\ GlCopied(g, data, k) \in GlValues
                               /\ GlCopied(g, data, k).by = g /\ GlCopied(g, data, k).req = glReq[g]
                               /\ GlCopied(g, data, k).n = GlCopiedNet(g, data, k)
    BY <2>1, <2>2, <2>3 DEF GlVal, GlValues, GlTypes
  <2>5. /\ DOMAIN m = DOMAIN glMap[g] \cup DOMAIN data /\ DOMAIN m \subseteq GlKeys
        /\ m = [k \in DOMAIN m |-> m[k]]
    BY <2>1, <2>2 DEF GlGood
  <2>6. net \in [GlKeys -> Int]
    BY <2>1, <2>3 DEF GlTypes
  <2>7. ASSUME NEW k \in DOMAIN m
        PROVE  m[k] \in GlValues /\ m[k].by = g /\ m[k].req = glReq[g] /\ (m[k].kind = "int" => m[k].n = net[k])
    <3>1. CASE k \in DOMAIN data
      <4>1. m[k] = GlCopied(g, data, k) /\ net[k] = GlCopiedNet(g, data, k)
        BY <2>5, <2>7, <3>1
      <4> QED
        BY <2>4, <3>1, <4>1
    <3>2. CASE k \notin DOMAIN data
      <4>1. k \in DOMAIN glMap[g] /\ m[k] = glMap[g][k] /\ net[k] = glNet[g][k]
        BY <2>5, <2>7, <3>2
      <4> QED
        BY <2>1, <4>1 DEF GlGood
    <3> QED
      BY <3>1, <3>2
  <2>8. m \in [DOMAIN m -> GlValues]
    BY <2>5, <2>7
  <2>9. GlGood(m, net, glReq[g], g)
    BY <2>5, <2>7, <2>8 DEF GlGood
  <2>10. glMap' = GlWith(glMap, g, m)
    <3>1. glMap' = [glMap EXCEPT ![g] = m]
      BY <1>2 DEF GlCopy
    <3> QED
      BY <2>1, <3>1, GlExcept
  <2>11. glNet' = [glNet EXCEPT ![g] = net]
    BY <1>2 DEF GlCopy
  <2>12. glReq' = [glReq EXCEPT ![g] = glReq[g]] /\ glReq[g] \in Nat
    BY <2>1 DEF GlCopy, GlTypes
  <2> QED
    BY <2>6, <2>9, <2>10, <2>11, <2>12, GlReplace
<1> QED
  BY <1>1, <1>2

\* Every operation of gl keeps the invariant.
LEMMA GlStep == GlInv /\ [GlNext]_glVars => GlInv'
<1> SUFFICES ASSUME GlInv, [GlNext]_glVars PROVE GlInv'
  OBVIOUS
<1>1. ASSUME NEW g \in GlRoutines, NEW k \in GlKeys, NEW kind \in {"int", "ptr"}, GlSet(g, k, kind)
      PROVE  GlInv'
  <2>1. CASE GlExist(g)
    BY <1>1, <2>1, GlPutStep DEF GlSet
  <2>2. CASE ~GlExist(g)
    BY <1>1, <2>2 DEF GlSet, GlInv, GlTypes
  <2> QED
    BY <2>1, <2>2
<1>2. ASSUME NEW g \in GlRoutines, NEW k \in GlKeys, NEW n \in {-1, 2}, GlIncr(g, k, n)
      PROVE  GlInv'
  <2>1. n \in Int
    OBVIOUS
  <2> QED
    BY <1>2, <2>1, GlIncrStep
<1>3. CASE UNCHANGED glVars
  BY <1>3 DEF GlInv, GlTypes, glVars
<1> QED
  BY <1>1, <1>2, <1>3, GlInitStep, GlCloseStep, GlDelStep, GlCopyStep DEF GlNext

(* Whatever the goroutines do, a request finds only its own data in its map, *)
(* and numbers that are the sums of what it has added (global.go:19-63,      *)
(* 199-278).                                                                 *)
THEOREM LocalIsPrivate == GlSpec => []GlPrivate
<1>1. GlInv => GlPrivate
  BY DEF GlInv, GlGood, GlPrivate, GlOwn, GlSums
<1> QED
  BY <1>1, GlInitHolds, GlStep, PTL DEF GlSpec

-----------------------------------------------------------------------------
(* Sums over finite sets: what SumFunction computes, in any order.         *)

\* A set of numbers has a least one.
LEMMA RtLeast == ASSUME NEW S \in SUBSET Nat, S # {} PROVE \E m \in S : \A k \in S : m <= k
  <1>1. PICK m \in S : \A k \in S : ~(<<k, m>> \in OpToRel(<, Nat))
    BY NatLessThanWellFounded, WFMin
  <1>2. ASSUME NEW k \in S PROVE m <= k
    <2>1. ~(k < m)
      BY <1>1 DEF OpToRel
    <2> QED
      BY <2>1
  <1> QED
    BY <1>2

\* The element that a fold takes first, and what a fold that sums satisfies on a
\* family of sets.
FirstOf(s) == CHOOSE x \in s : TRUE
SumsOn(f, D, g) == \A s \in D : g[s] = IF s = {} THEN 0 ELSE f[FirstOf(s)] + g[s \ {FirstOf(s)}]
Iterates(f, S, g) == g = [s \in SUBSET S |-> IF s = {} THEN 0 ELSE f[FirstOf(s)] + g[s \ {FirstOf(s)}]]

LEMMA SumIsFold ==
    ASSUME NEW f, NEW S
    PROVE  SumFunctionOnSet(f, S) = (CHOOSE g : Iterates(f, S, g))[S]
  BY Zenon DEF SumFunctionOnSet, FoldFunctionOnSet, MapThenFoldSet, Iterates, FirstOf

\* One element less, and a size less by one.
LEMMA RtLess ==
    ASSUME NEW s, IsFiniteSet(s), NEW x \in s
    PROVE  /\ IsFiniteSet(s \ {x}) /\ Cardinality(s) \in Nat /\ Cardinality(s \ {x}) \in Nat
           /\ Cardinality(s \ {x}) = Cardinality(s) - 1
  BY FS_RemoveElement, FS_CardinalityType

LEMMA FirstIsIn == ASSUME NEW s, s # {} PROVE FirstOf(s) \in s
  BY DEF FirstOf

\* The sets of at most n elements.
UpTo(S, n) == {s \in SUBSET S : Cardinality(s) <= n}

LEMMA SumGrows ==
    ASSUME NEW S, IsFiniteSet(S), NEW f, \A x \in S : f[x] \in Int, NEW n \in Nat,
           NEW g \in [UpTo(S, n) -> Int], SumsOn(f, UpTo(S, n), g)
    PROVE  \E h \in [UpTo(S, n + 1) -> Int] : SumsOn(f, UpTo(S, n + 1), h)
  <1> DEFINE h == [s \in UpTo(S, n + 1) |-> IF s = {} THEN 0 ELSE f[FirstOf(s)] + g[s \ {FirstOf(s)}]]
  <1>1. ASSUME NEW s \in UpTo(S, n + 1), s # {}
        PROVE  FirstOf(s) \in S /\ s \ {FirstOf(s)} \in UpTo(S, n)
    <2>1. s \subseteq S /\ Cardinality(s) <= n + 1 /\ FirstOf(s) \in s
      BY <1>1, FirstIsIn DEF UpTo
    <2>2. IsFiniteSet(s)
      BY <2>1, FS_Subset
    <2>3. Cardinality(s \ {FirstOf(s)}) <= n
      BY <2>1, <2>2, RtLess
    <2> QED
      BY <2>1, <2>3 DEF UpTo
  <1>2. h \in [UpTo(S, n + 1) -> Int]
    BY <1>1
  <1>3. ASSUME NEW s \in UpTo(S, n) PROVE s \in UpTo(S, n + 1) /\ h[s] = g[s]
    <2>1. IsFiniteSet(s) /\ s \in SUBSET S /\ Cardinality(s) <= n
      BY FS_Subset DEF UpTo
    <2>2. Cardinality(s) \in Nat
      BY <2>1, FS_CardinalityType
    <2>3. s \in UpTo(S, n + 1)
      BY <2>1, <2>2 DEF UpTo
    <2> QED
      BY <2>3 DEF SumsOn
  <1>4. SumsOn(f, UpTo(S, n + 1), h)
    <2> SUFFICES ASSUME NEW s \in UpTo(S, n + 1)
                 PROVE  h[s] = IF s = {} THEN 0 ELSE f[FirstOf(s)] + h[s \ {FirstOf(s)}]
      BY DEF SumsOn
    <2>1. s # {} => h[s \ {FirstOf(s)}] = g[s \ {FirstOf(s)}]
      BY <1>1, <1>3
    <2> QED
      BY <2>1
  <1> QED
    BY <1>2, <1>4

LEMMA SumExists ==
    ASSUME NEW S, IsFiniteSet(S), NEW f, \A x \in S : f[x] \in Int
    PROVE  \E g \in [SUBSET S -> Int] : Iterates(f, S, g)
  <1> DEFINE Ex(n) == \E g \in [UpTo(S, n) -> Int] : SumsOn(f, UpTo(S, n), g)
  <1>1. Ex(0)
    <2> DEFINE g == [s \in UpTo(S, 0) |-> 0]
    <2>1. ASSUME NEW s \in UpTo(S, 0) PROVE s = {}
      <3>1. IsFiniteSet(s) /\ Cardinality(s) <= 0
        BY FS_Subset DEF UpTo
      <3> QED
        BY <3>1, FS_CardinalityType, FS_EmptySet
    <2>2. g \in [UpTo(S, 0) -> Int] /\ SumsOn(f, UpTo(S, 0), g)
      BY <2>1 DEF SumsOn
    <2> QED
      BY <2>2
  <1>2. ASSUME NEW n \in Nat, Ex(n) PROVE Ex(n + 1)
    BY <1>2, SumGrows
  <1> HIDE DEF Ex
  <1>3. ASSUME NEW m \in Nat PROVE Ex(m)
    <2>1. PICK B : B = {n \in Nat : ~Ex(n)}
      OBVIOUS
    <2>2. SUFFICES ASSUME B # {} PROVE FALSE
      BY <2>1
    <2>3. PICK n \in B : \A k \in B : n <= k
      BY <2>1, <2>2, RtLeast
    <2>4. n \in Nat /\ n # 0
      BY <1>1, <2>1
    <2>5. n - 1 \in Nat /\ n - 1 \notin B /\ (n - 1) + 1 = n
      BY <2>1, <2>3, <2>4
    <2>6. Ex((n - 1) + 1)
      BY <1>2, <2>1, <2>5
    <2> QED
      BY <2>1, <2>5, <2>6
  <1>4. PICK N : N = Cardinality(S)
    OBVIOUS
  <1>5. N \in Nat /\ UpTo(S, N) = SUBSET S
    <2>1. ASSUME NEW s \in SUBSET S PROVE Cardinality(s) <= N
      BY <1>4, FS_Subset
    <2> QED
      BY <1>4, <2>1, FS_CardinalityType DEF UpTo
  <1>6. PICK g \in [SUBSET S -> Int] : SumsOn(f, SUBSET S, g)
    BY <1>3, <1>5 DEF Ex
  <1>7. Iterates(f, S, g)
    BY <1>6 DEF SumsOn, Iterates
  <1> QED
    BY <1>7

\* The function whose value a sum is.
LEMMA SumIs ==
    ASSUME NEW S, IsFiniteSet(S), NEW f, \A x \in S : f[x] \in Int
    PROVE  \E g : Iterates(f, S, g) /\ SumFunctionOnSet(f, S) = g[S]
  <1>1. \E g : Iterates(f, S, g)
    BY SumExists
  <1>2. Iterates(f, S, CHOOSE g : Iterates(f, S, g))
    BY <1>1, Zenon
  <1> QED
    BY <1>2, SumIsFold

\* Sums over the same elements of functions that agree on them.
LEMMA SumAgrees ==
    ASSUME NEW S, NEW T, IsFiniteSet(S), IsFiniteSet(T), NEW f, NEW e, NEW g, NEW h,
           Iterates(f, S, g), Iterates(e, T, h), T \subseteq S, \A x \in T : f[x] = e[x]
    PROVE  \A s \in SUBSET T : g[s] = h[s]
  <1>1. PICK B : B = {n \in Nat : \E s \in SUBSET T : n = Cardinality(s) /\ g[s] # h[s]}
    OBVIOUS
  <1>2. \A s \in SUBSET T : IsFiniteSet(s) /\ Cardinality(s) \in Nat
    BY FS_Subset, FS_CardinalityType
  <1>3. SUFFICES ASSUME B # {} PROVE FALSE
    BY <1>1, <1>2
  <1>4. PICK n \in B : \A k \in B : n <= k
    BY <1>1, <1>3, RtLeast
  <1>5. PICK s \in SUBSET T : n = Cardinality(s) /\ g[s] # h[s]
    BY <1>1, <1>4
  <1>6. s \in SUBSET S /\ s # {}
    BY <1>5 DEF Iterates
  <1>7. PICK c : c = FirstOf(s)
    OBVIOUS
  <1>8. c \in s /\ s \ {c} \in SUBSET T /\ s \ {c} \in SUBSET S
    BY <1>6, <1>7, FirstIsIn
  <1>9. Cardinality(s \ {c}) = n - 1 /\ n - 1 \in Nat
    BY <1>2, <1>5, <1>8, RtLess
  <1>10. g[s \ {c}] = h[s \ {c}]
    BY <1>1, <1>4, <1>8, <1>9
  <1>11. g[s] = f[c] + g[s \ {c}] /\ h[s] = e[c] + h[s \ {c}]
    BY <1>6, <1>7 DEF Iterates
  <1> QED
    BY <1>5, <1>8, <1>10, <1>11

LEMMA SumEmpty == ASSUME NEW f PROVE SumFunctionOnSet(f, {}) = 0
  <1>1. PICK g : Iterates(f, {}, g) /\ SumFunctionOnSet(f, {}) = g[{}]
    BY FS_EmptySet, SumIs
  <1> QED
    BY <1>1 DEF Iterates

LEMMA SumSame ==
    ASSUME NEW S, IsFiniteSet(S), NEW f, NEW e, \A x \in S : f[x] \in Int /\ f[x] = e[x]
    PROVE  SumFunctionOnSet(f, S) = SumFunctionOnSet(e, S)
  <1>1. PICK g : Iterates(f, S, g) /\ SumFunctionOnSet(f, S) = g[S]
    BY SumIs
  <1>2. PICK h : Iterates(e, S, h) /\ SumFunctionOnSet(e, S) = h[S]
    BY SumIs
  <1> QED
    BY <1>1, <1>2, SumAgrees

\* The first element, and the rest.
LEMMA SumUnfold ==
    ASSUME NEW S, IsFiniteSet(S), NEW f, \A x \in S : f[x] \in Int, S # {}
    PROVE  SumFunctionOnSet(f, S) = f[FirstOf(S)] + SumFunctionOnSet(f, S \ {FirstOf(S)})
  <1>1. PICK g : Iterates(f, S, g) /\ SumFunctionOnSet(f, S) = g[S]
    BY SumIs
  <1>2. PICK T : T = S \ {FirstOf(S)}
    OBVIOUS
  <1>3. IsFiniteSet(T) /\ T \subseteq S
    BY <1>2, FS_Subset
  <1>4. PICK h : Iterates(f, T, h) /\ SumFunctionOnSet(f, T) = h[T]
    BY <1>3, SumIs
  <1>5. g[T] = h[T]
    BY <1>1, <1>3, <1>4, SumAgrees
  <1>6. g[S] = f[FirstOf(S)] + g[T]
    BY <1>1, <1>2 DEF Iterates
  <1> QED
    BY <1>1, <1>2, <1>4, <1>5, <1>6

LEMMA SumInt ==
    ASSUME NEW S, IsFiniteSet(S), NEW f, \A x \in S : f[x] \in Int
    PROVE  SumFunctionOnSet(f, S) \in Int
  <1>1. PICK g \in [SUBSET S -> Int] : Iterates(f, S, g)
    BY SumExists
  <1>2. PICK h : Iterates(f, S, h) /\ SumFunctionOnSet(f, S) = h[S]
    BY SumIs
  <1>3. g[S] = h[S]
    BY <1>1, <1>2, SumAgrees
  <1> QED
    BY <1>1, <1>2, <1>3

\* Any element may be taken out of a sum.
LEMMA SumSplit ==
    ASSUME NEW S, IsFiniteSet(S), NEW f, \A x \in S : f[x] \in Int, NEW a \in S
    PROVE  /\ SumFunctionOnSet(f, S) = f[a] + SumFunctionOnSet(f, S \ {a})
           /\ SumFunctionOnSet(f, S) \in Int /\ SumFunctionOnSet(f, S \ {a}) \in Int
  <1> DEFINE Sm(s) == SumFunctionOnSet(f, s)
  <1>0. \A s \in SUBSET S : IsFiniteSet(s) /\ Cardinality(s) \in Nat /\ Sm(s) \in Int
    BY FS_Subset, FS_CardinalityType, SumInt
  <1>1. \A s \in SUBSET S : s # {} => Sm(s) = f[FirstOf(s)] + Sm(s \ {FirstOf(s)})
    BY <1>0, SumUnfold
  <1> HIDE DEF Sm
  <1>2. PICK B : B = {n \in Nat : \E s \in SUBSET S : n = Cardinality(s) /\ \E x \in s : Sm(s) # f[x] + Sm(s \ {x})}
    OBVIOUS
  <1>3. ASSUME B # {} PROVE FALSE
    <2>1. PICK n \in B : \A k \in B : n <= k
      BY <1>2, <1>3, RtLeast
    <2>2. PICK s \in SUBSET S : n = Cardinality(s) /\ \E x \in s : Sm(s) # f[x] + Sm(s \ {x})
      BY <1>2, <2>1
    <2>3. PICK x \in s : Sm(s) # f[x] + Sm(s \ {x})
      BY <2>2
    <2>4. PICK c : c = FirstOf(s)
      OBVIOUS
    <2>5. c \in s /\ Sm(s) = f[c] + Sm(s \ {c}) /\ c # x
      BY <1>1, <2>3, <2>4, FirstIsIn
    <2>6. PICK u, v, w : u = s \ {c} /\ v = s \ {x} /\ w = s \ {c, x}
      OBVIOUS
    <2>7. /\ u \in SUBSET S /\ v \in SUBSET S /\ w \in SUBSET S /\ x \in u /\ c \in v
          /\ u \ {x} = w /\ v \ {c} = w
      BY <2>3, <2>5, <2>6
    <2>8. Cardinality(u) = n - 1 /\ Cardinality(v) = n - 1 /\ n - 1 \in Nat
      BY <1>0, <2>2, <2>3, <2>5, <2>6, RtLess
    <2>9. n - 1 \notin B
      BY <1>2, <2>1, <2>8
    <2>10. \A t \in SUBSET S : Cardinality(t) = n - 1 => \A y \in t : Sm(t) = f[y] + Sm(t \ {y})
      BY <1>2, <2>8, <2>9
    <2>12. Sm(u) = f[x] + Sm(u \ {x}) /\ Sm(v) = f[c] + Sm(v \ {c})
      BY <2>7, <2>8, <2>10
    <2>11. Sm(s) \in Int /\ Sm(w) \in Int /\ f[x] \in Int /\ f[c] \in Int
      BY <1>0, <2>3, <2>5, <2>7
    <2>13. Sm(u \ {x}) = Sm(w) /\ Sm(v \ {c}) = Sm(w) /\ Sm(s \ {c}) = Sm(u) /\ Sm(s \ {x}) = Sm(v)
      BY <2>6, <2>7, Zenon
    <2> QED
      BY ONLY <2>3, <2>5, <2>11, <2>12, <2>13
  <1>4. Sm(S) = f[a] + Sm(S \ {a})
    BY <1>0, <1>2, <1>3
  <1> QED
    BY <1>0, <1>4 DEF Sm

\* A sum of numbers is one.
LEMMA SumNat ==
    ASSUME NEW S, IsFiniteSet(S), NEW f, \A x \in S : f[x] \in Nat
    PROVE  SumFunctionOnSet(f, S) \in Nat
  <1> DEFINE Sm(s) == SumFunctionOnSet(f, s)
  <1>0. \A s \in SUBSET S : IsFiniteSet(s) /\ Cardinality(s) \in Nat /\ \A x \in s : f[x] \in Int
    BY FS_Subset, FS_CardinalityType
  <1>1. \A s \in SUBSET S : s # {} => Sm(s) = f[FirstOf(s)] + Sm(s \ {FirstOf(s)})
    BY <1>0, SumUnfold
  <1>2. Sm({}) = 0
    BY SumEmpty
  <1> HIDE DEF Sm
  <1>3. PICK B : B = {n \in Nat : \E s \in SUBSET S : n = Cardinality(s) /\ Sm(s) \notin Nat}
    OBVIOUS
  <1>4. ASSUME B # {} PROVE FALSE
    <2>1. PICK n \in B : \A k \in B : n <= k
      BY <1>3, <1>4, RtLeast
    <2>2. PICK s \in SUBSET S : n = Cardinality(s) /\ Sm(s) \notin Nat
      BY <1>3, <2>1
    <2>3. PICK c : c = FirstOf(s)
      OBVIOUS
    <2>4. s # {}
      BY <1>2, <2>2
    <2>7. c \in s /\ Sm(s) = f[c] + Sm(s \ {c})
      BY <1>1, <2>3, <2>4, FirstIsIn
    <2>5. Cardinality(s \ {c}) = n - 1 /\ n - 1 \in Nat
      BY <1>0, <2>2, <2>7, RtLess
    <2>6. Sm(s \ {c}) \in Nat
      BY <1>3, <2>1, <2>5
    <2> QED
      BY <2>2, <2>6, <2>7
  <1> QED
    BY <1>0, <1>3, <1>4 DEF Sm

\* One value changes.
LEMMA SumChanged ==
    ASSUME NEW S, IsFiniteSet(S), NEW f, NEW e, \A x \in S : f[x] \in Int, NEW a \in S,
           e[a] \in Int, \A x \in S \ {a} : e[x] = f[x]
    PROVE  SumFunctionOnSet(e, S) = SumFunctionOnSet(f, S) + (e[a] - f[a])
  <1>1. PICK T : T = S \ {a}
    OBVIOUS
  <1>2. IsFiniteSet(T) /\ \A x \in T : f[x] \in Int /\ f[x] = e[x]
    BY <1>1, FS_Subset
  <1>3. SumFunctionOnSet(f, T) = SumFunctionOnSet(e, T)
    BY <1>2, SumSame
  <1>4. \A x \in S : e[x] \in Int
    OBVIOUS
  <1>5. /\ SumFunctionOnSet(f, S) = f[a] + SumFunctionOnSet(f, T)
        /\ SumFunctionOnSet(f, S) \in Int /\ SumFunctionOnSet(f, T) \in Int
    BY <1>1, SumSplit
  <1>6. SumFunctionOnSet(e, S) = e[a] + SumFunctionOnSet(e, T)
    BY <1>1, <1>4, SumSplit
  <1> QED
    BY <1>3, <1>5, <1>6

-----------------------------------------------------------------------------
(* Sums over sequences.                                                    *)

\* The sum of the first n values of f.
SumTo(f, n) == SumFunctionOnSet(f, 1..n)
Ints(f, n) == \A i \in 1..n : f[i] \in Int

LEMMA SumToFacts ==
    ASSUME NEW f, NEW n \in Nat, Ints(f, n)
    PROVE  /\ SumTo(f, n) \in Int /\ SumTo(f, 0) = 0
           /\ n > 0 => SumTo(f, n) = SumTo(f, n - 1) + f[n] /\ SumTo(f, n - 1) \in Int /\ f[n] \in Int
  <1>1. IsFiniteSet(1..n) /\ \A i \in 1..n : f[i] \in Int
    BY FS_Interval DEF Ints
  <1>2. SumTo(f, n) \in Int
    BY <1>1, SumInt DEF SumTo
  <1>3. SumTo(f, 0) = 0
    <2>1. 1..0 = {}
      OBVIOUS
    <2> QED
      BY <2>1, SumEmpty DEF SumTo
  <1>4. ASSUME n > 0
        PROVE  SumTo(f, n) = SumTo(f, n - 1) + f[n] /\ SumTo(f, n - 1) \in Int /\ f[n] \in Int
    <2>1. n \in 1..n /\ (1..n) \ {n} = 1..(n - 1)
      BY <1>4
    <2>2. /\ SumFunctionOnSet(f, 1..n) = f[n] + SumFunctionOnSet(f, (1..n) \ {n})
          /\ SumFunctionOnSet(f, (1..n) \ {n}) \in Int
      BY <1>1, <2>1, SumSplit
    <2>3. SumTo(f, n) = f[n] + SumTo(f, n - 1) /\ SumTo(f, n - 1) \in Int
      BY <2>1, <2>2 DEF SumTo
    <2>4. f[n] \in Int
      BY <1>1, <2>1
    <2> QED
      BY ONLY <2>3, <2>4
  <1> QED
    BY <1>2, <1>3, <1>4

\* The m values after the first a of f are those after the first b of g.
AlikeFrom(f, g, a, b, m) == \A i \in 1..m : f[a + i] = g[b + i]

\* The same values one after the other add the same, wherever they stand.
LEMMA SumShift ==
    ASSUME NEW f, NEW g, NEW a \in Nat, NEW b \in Nat, NEW m \in Nat, NEW c, NEW d, c = a + m, d = b + m,
           Ints(f, c), Ints(g, d), AlikeFrom(f, g, a, b, m)
    PROVE  SumTo(f, c) - SumTo(f, a) = SumTo(g, d) - SumTo(g, b)
  <1>0. Ints(f, a + m) /\ Ints(g, b + m) /\ \A i \in 1..m : f[a + i] = g[b + i]
    BY DEF AlikeFrom
  <1> DEFINE Bad(k) == SumTo(f, a + k) - SumTo(f, a) # SumTo(g, b + k) - SumTo(g, b)
  <1>1. PICK B : B = {k \in 0..m : Bad(k)}
    OBVIOUS
  <1>2. ASSUME B # {} PROVE FALSE
    <2>0. B \in SUBSET Nat
      BY <1>1
    <2>1. PICK k \in B : \A j \in B : k <= j
      BY <1>2, <2>0, RtLeast
    <2>2. k \in 0..m /\ Bad(k)
      BY <1>1
    <2>3. \A j \in 0..m : SumTo(f, a + j) \in Int /\ SumTo(g, b + j) \in Int
      BY <1>0, SumToFacts DEF Ints
    <2>4. SumTo(f, a) \in Int /\ SumTo(g, b) \in Int
      BY <1>0, SumToFacts DEF Ints
    <2>5. k # 0
      <3>1. a + 0 = a /\ b + 0 = b
        OBVIOUS
      <3>2. ~Bad(0)
        BY <2>4, <3>1
      <3> QED
        BY <2>2, <3>2
    <2>6. ~Bad(k - 1) /\ k - 1 \in 0..m
      BY <1>1, <2>1, <2>2, <2>5
    <2>7. /\ SumTo(f, a + k) = SumTo(f, (a + k) - 1) + f[a + k]
          /\ SumTo(g, b + k) = SumTo(g, (b + k) - 1) + g[b + k]
          /\ f[a + k] \in Int /\ g[b + k] \in Int
      BY <1>0, <2>2, <2>5, SumToFacts DEF Ints
    <2>8. (a + k) - 1 = a + (k - 1) /\ (b + k) - 1 = b + (k - 1) /\ f[a + k] = g[b + k]
      BY <1>0, <2>2, <2>5
    <2>9. /\ SumTo(f, a + k) = SumTo(f, a + (k - 1)) + f[a + k]
          /\ SumTo(g, b + k) = SumTo(g, b + (k - 1)) + g[b + k]
      BY <2>7, <2>8
    <2>10. SumTo(f, a + (k - 1)) \in Int /\ SumTo(g, b + (k - 1)) \in Int
      BY <2>3, <2>6
    <2> QED
      BY ONLY <2>2, <2>4, <2>6, <2>7, <2>8, <2>9, <2>10
  <1>3. m \in 0..m /\ m \notin B
    BY <1>2
  <1>4. ~Bad(m)
    BY <1>1, <1>3
  <1> QED
    BY <1>4

LEMMA SumIsTo ==
    ASSUME NEW n \in Nat, NEW f, DOMAIN f = 1..n
    PROVE  SumFunction(f) = SumTo(f, n)
  BY DEF SumFunction, SumTo

\* The sum over two sequences one after the other.
LEMMA SumCat ==
    ASSUME NEW n \in Nat, NEW m \in Nat, NEW f \in [1..n -> Int], NEW g \in [1..m -> Int],
           NEW h \in [1..(n + m) -> Int], \A i \in 1..n : h[i] = f[i], \A i \in 1..m : h[n + i] = g[i]
    PROVE  /\ SumFunction(h) = SumFunction(f) + SumFunction(g)
           /\ SumFunction(f) \in Int /\ SumFunction(g) \in Int
  <1>1. Ints(f, n) /\ Ints(g, m) /\ Ints(h, n + m) /\ Ints(h, n)
    BY DEF Ints
  <1>2. SumTo(h, n) - SumTo(h, 0) = SumTo(f, n) - SumTo(f, 0)
    <2>1. AlikeFrom(h, f, 0, 0, n) /\ 0 \in Nat /\ n \in Nat /\ n = 0 + n
      BY DEF AlikeFrom
    <2> QED
      BY ONLY <1>1, <2>1, SumShift
  <1>3. SumTo(h, n + m) - SumTo(h, n) = SumTo(g, m) - SumTo(g, 0)
    <2>1. AlikeFrom(h, g, n, 0, m) /\ 0 \in Nat /\ m \in Nat /\ n \in Nat /\ m = 0 + m
      BY DEF AlikeFrom
    <2> QED
      BY ONLY <1>1, <2>1, SumShift
  <1>4. /\ SumTo(h, 0) = 0 /\ SumTo(f, 0) = 0 /\ SumTo(g, 0) = 0
        /\ SumTo(h, n) \in Int /\ SumTo(f, n) \in Int /\ SumTo(g, m) \in Int /\ SumTo(h, n + m) \in Int
    BY <1>1, SumToFacts
  <1>5. 0 + n = n /\ 0 + m = m
    OBVIOUS
  <1>6. SumTo(h, n + m) = SumTo(f, n) + SumTo(g, m)
    BY ONLY <1>2, <1>3, <1>4, <1>5
  <1>7. SumFunction(f) = SumTo(f, n) /\ SumFunction(g) = SumTo(g, m)
    BY SumIsTo
  <1>8. SumFunction(h) = SumTo(h, n + m)
    <2>1. n + m \in Nat /\ DOMAIN h = 1..(n + m)
      OBVIOUS
    <2> QED
      BY ONLY <2>1, SumIsTo
  <1> QED
    BY <1>4, <1>6, <1>7, <1>8

\* The sum when one value is taken out of a sequence.
LEMMA SumRemove ==
    ASSUME NEW n \in Nat, NEW i \in 1..n, NEW f \in [1..n -> Int], NEW h \in [1..(n - 1) -> Int],
           \A j \in 1..(i - 1) : h[j] = f[j], \A j \in i..(n - 1) : h[j] = f[j + 1]
    PROVE  SumFunction(h) = SumFunction(f) - f[i] /\ SumFunction(f) \in Int /\ SumFunction(h) \in Int
  <1>1. Ints(f, n) /\ Ints(h, n - 1) /\ Ints(f, i) /\ Ints(h, i - 1) /\ n - 1 \in Nat /\ i - 1 \in Nat
    BY DEF Ints
  <1>2. PICK a : a = i - 1
    OBVIOUS
  <1>3. PICK m : m = n - i
    OBVIOUS
  <1>4. a \in Nat /\ m \in Nat /\ i = a + 1 /\ n = i + m /\ n - 1 = a + m /\ a + 0 = a /\ 0 + a = a
    BY <1>2, <1>3
  <1>5. SumTo(h, a) - SumTo(h, 0) = SumTo(f, a) - SumTo(f, 0)
    <2>1. Ints(f, a) /\ Ints(h, a) /\ 0 \in Nat
      BY <1>1, <1>4 DEF Ints
    <2>2. AlikeFrom(h, f, 0, 0, a)
      BY <1>2 DEF AlikeFrom
    <2> QED
      BY ONLY <1>4, <2>1, <2>2, SumShift
  <1>6. SumTo(h, n - 1) - SumTo(h, a) = SumTo(f, n) - SumTo(f, i)
    <2>1. Ints(f, n) /\ Ints(h, n - 1) /\ i \in Nat
      BY <1>1, <1>4
    <2>2. AlikeFrom(h, f, a, i, m)
      <3> SUFFICES ASSUME NEW j \in 1..m PROVE h[a + j] = f[i + j]
        BY DEF AlikeFrom
      <3>1. a + j \in i..(n - 1) /\ (a + j) + 1 = i + j
        BY <1>4
      <3> QED
        BY <3>1
    <2> QED
      BY ONLY <1>4, <2>1, <2>2, SumShift
  <1>7. /\ SumTo(f, i) = SumTo(f, i - 1) + f[i] /\ SumTo(f, i - 1) \in Int /\ f[i] \in Int
        /\ SumTo(f, i) \in Int
    <2>1. i \in Nat /\ i > 0
      OBVIOUS
    <2> QED
      BY <1>1, <2>1, SumToFacts
  <1>8. /\ SumTo(h, 0) = 0 /\ SumTo(f, 0) = 0 /\ SumTo(h, n - 1) \in Int /\ SumTo(f, n) \in Int
        /\ SumTo(h, i - 1) \in Int
    BY <1>1, SumToFacts
  <1>9. SumTo(h, n - 1) = SumTo(f, n) - f[i]
    <2>1. SumTo(f, i - 1) = SumTo(f, a) /\ SumTo(h, i - 1) = SumTo(h, a)
      BY <1>2
    <2> QED
      <3>1. PICK p, q, r, t, u, v :
              /\ p = SumTo(f, a) /\ q = SumTo(h, a) /\ r = SumTo(f, i) /\ t = SumTo(f, n)
              /\ u = SumTo(h, n - 1) /\ v = f[i]
        OBVIOUS
      <3>2. p \in Int /\ q \in Int /\ r \in Int /\ t \in Int /\ u \in Int /\ v \in Int
        BY <1>7, <1>8, <2>1, <3>1
      <3>3. q - 0 = p - 0 /\ u - q = t - r /\ r = p + v
        BY <1>5, <1>6, <1>7, <1>8, <2>1, <3>1
      <3>4. u = t - v
        BY ONLY <3>2, <3>3
      <3> QED
        BY <3>1, <3>4
  <1>10. SumFunction(f) = SumTo(f, n)
    BY SumIsTo
  <1>11. SumFunction(h) = SumTo(h, n - 1)
    <2>1. DOMAIN h = 1..(n - 1)
      OBVIOUS
    <2> QED
      BY ONLY <1>1, <2>1, SumIsTo
  <1> QED
    BY <1>8, <1>9, <1>10, <1>11

-----------------------------------------------------------------------------
(* Counters: where SliceCutter cuts, and what rows and batches hold.       *)

\* Where the parts of SliceCutter end: full ones, and the rest.
SliceEnd(len, n, i) == IF i = (len \div n) + 1 THEN len ELSE n * i
SliceParts(len, n) == IF len % n # 0 THEN (len \div n) + 1 ELSE len \div n

LEMMA TimesLess == ASSUME NEW n \in Nat, NEW a \in Nat, NEW b \in Nat, a <= b PROVE n * a <= n * b
  <1>1. PICK c \in Nat : b = a + c
    <2>1. b - a \in Nat /\ b = a + (b - a)
      OBVIOUS
    <2> QED
      BY <2>1
  <1>2. n * b = n * a + n * c /\ n * c \in Nat /\ n * a \in Nat
    BY <1>1
  <1> QED
    BY <1>2

LEMMA DivMod ==
    ASSUME NEW len \in Nat, NEW n \in Nat \ {0}
    PROVE  \E q, r : q = len \div n /\ r = len % n /\ q \in Nat /\ r \in 0..(n - 1) /\ len = n * q + r
  <1>1. len \div n \in Nat /\ len % n \in 0..(n - 1)
    OBVIOUS
  <1>2. len = (len \div n) * n + (len % n)
    OBVIOUS
  <1>3. PICK q, r : q = len \div n /\ r = len % n
    OBVIOUS
  <1>4. q \in Nat /\ r \in 0..(n - 1) /\ len = q * n + r
    BY <1>1, <1>2, <1>3
  <1>5. len = n * q + r
    BY ONLY <1>4, n \in Nat
  <1> QED
    BY <1>3, <1>4, <1>5

LEMMA SliceEnds ==
    ASSUME NEW len \in Nat, NEW n \in Nat \ {0}
    PROVE  /\ SliceParts(len, n) \in Nat /\ SliceEnd(len, n, 0) = 0
           /\ SliceEnd(len, n, SliceParts(len, n)) = len
           /\ \A i \in 1..SliceParts(len, n) :
                 /\ SliceEnd(len, n, i - 1) = n * (i - 1) /\ n * (i - 1) \in Nat
                 /\ SliceEnd(len, n, i) \in Nat
                 /\ n * (i - 1) <= SliceEnd(len, n, i) /\ SliceEnd(len, n, i) <= len
  <1>1. PICK q, r : q = len \div n /\ r = len % n /\ q \in Nat /\ r \in 0..(n - 1) /\ len = n * q + r
    BY DivMod
  <1>2. q \in Nat /\ r \in 0..(n - 1) /\ len = n * q + r
    BY <1>1
  <1>3. PICK p : p = SliceParts(len, n)
    OBVIOUS
  <1>4. p = (IF r # 0 THEN q + 1 ELSE q) /\ p \in Nat
    BY <1>1, <1>2, <1>3 DEF SliceParts
  <1>5. \A i : SliceEnd(len, n, i) = IF i = q + 1 THEN len ELSE n * i
    BY <1>1 DEF SliceEnd
  <1>6. SliceEnd(len, n, 0) = 0
    BY <1>2, <1>5
  <1>7. SliceEnd(len, n, p) = len
    BY <1>2, <1>4, <1>5
  <1>8. ASSUME NEW i \in 1..p
        PROVE  /\ SliceEnd(len, n, i - 1) = n * (i - 1) /\ n * (i - 1) \in Nat
               /\ SliceEnd(len, n, i) \in Nat
               /\ n * (i - 1) <= SliceEnd(len, n, i) /\ SliceEnd(len, n, i) <= len
    <2>1. i - 1 \in Nat /\ i - 1 <= q /\ i \in Nat /\ (i # q + 1 => i <= q)
      BY <1>2, <1>4
    <2>2. n * (i - 1) \in Nat /\ n * i \in Nat /\ n * q \in Nat
      BY <1>2, <2>1
    <2>3. n * (i - 1) <= n * q /\ n * (i - 1) <= n * i
      BY <1>2, <2>1, TimesLess
    <2>4. i # q + 1 => n * i <= n * q
      BY <1>2, <2>1, TimesLess
    <2>5. SliceEnd(len, n, i - 1) = n * (i - 1)
      BY <1>2, <1>5, <2>1
    <2>6. CASE i = q + 1
      BY <1>2, <1>5, <2>1, <2>2, <2>3, <2>5, <2>6
    <2>7. CASE i # q + 1
      <3>1. SliceEnd(len, n, i) = n * i
        BY <1>5, <2>7
      <3> QED
        BY <1>2, <2>2, <2>3, <2>4, <2>5, <2>7, <3>1
    <2> QED
      BY <2>6, <2>7
  <1> QED
    BY <1>3, <1>4, <1>6, <1>7, <1>8

LEMMA RtUpTo == ASSUME NEW n \in Nat PROVE IsFiniteSet(1..n)
  BY FS_Interval

\* What lies between the first a and the first b of a sequence.
LEMMA RtCut ==
    ASSUME NEW R, NEW s \in Seq(R), NEW a \in Nat, NEW b \in Nat, a <= b, b <= Len(s)
    PROVE  /\ SubSeq(s, a + 1, b) \in Seq(R) /\ Len(SubSeq(s, a + 1, b)) = b - a
           /\ \A j \in 1..(b - a) : SubSeq(s, a + 1, b)[j] = s[a + j]
  <1>1. PICK c : c = a + 1
    OBVIOUS
  <1>2. c \in 1..(Len(s) + 1) /\ b \in (c - 1)..Len(s) /\ b - c + 1 = b - a
    BY <1>1
  <1>3. /\ SubSeq(s, c, b) \in Seq(R) /\ Len(SubSeq(s, c, b)) = b - c + 1
        /\ \A j \in 1..(b - c + 1) : SubSeq(s, c, b)[j] = s[c + j - 1]
    BY <1>2, SubSeqProperties
  <1>4. ASSUME NEW j \in 1..(b - a) PROVE SubSeq(s, c, b)[j] = s[a + j]
    <2>1. c + j - 1 = a + j
      BY <1>1
    <2> QED
      BY <1>2, <1>3, <2>1
  <1> QED
    BY <1>1, <1>2, <1>3, <1>4

\* Rows of a report, and what they hold of key k, row by row.
PcRows == [key : PcKeys, v : Nat]
PcWeights(b, k) == [i \in DOMAIN b |-> IF b[i].key = k THEN b[i].v ELSE 0]

LEMMA PcInIs ==
    ASSUME NEW b \in Seq(PcRows), NEW k
    PROVE  /\ PcWeights(b, k) \in [1..Len(b) -> Nat] /\ PcWeights(b, k) \in [1..Len(b) -> Int]
           /\ Len(b) \in Nat /\ DOMAIN b = 1..Len(b)
           /\ PcIn(b, k) = SumFunction(PcWeights(b, k)) /\ PcIn(b, k) = SumTo(PcWeights(b, k), Len(b))
           /\ PcIn(b, k) \in Nat
  <1>1. PICK w : w = PcWeights(b, k)
    OBVIOUS
  <1>2. Len(b) \in Nat /\ DOMAIN b = 1..Len(b) /\ \A i \in 1..Len(b) : b[i].v \in Nat
    <2>1. \A i \in 1..Len(b) : b[i] \in PcRows
      OBVIOUS
    <2> QED
      BY <2>1 DEF PcRows
  <1>3. w \in [1..Len(b) -> Nat] /\ w \in [1..Len(b) -> Int]
    BY <1>1, <1>2 DEF PcWeights
  <1>4. PcIn(b, k) = SumFunction(w)
    BY <1>1 DEF PcIn, PcWeights
  <1>5. SumFunction(w) = SumTo(w, Len(b))
    BY <1>2, <1>3, SumIsTo
  <1>6. IsFiniteSet(1..Len(b)) /\ \A i \in 1..Len(b) : w[i] \in Nat
    BY <1>2, <1>3, RtUpTo
  <1>7. SumTo(w, Len(b)) \in Nat
    BY <1>6, SumNat DEF SumTo
  <1> QED
    BY <1>1, <1>2, <1>3, <1>4, <1>5, <1>7

LEMMA PcInEmpty == ASSUME NEW k PROVE PcIn(<<>>, k) = 0
  <1>1. <<>> \in Seq(PcRows) /\ Len(<<>>) = 0
    OBVIOUS
  <1>2. PICK b : b = <<>>
    OBVIOUS
  <1>3. PcIn(b, k) = SumTo(PcWeights(b, k), 0)
    BY <1>1, <1>2, PcInIs
  <1>4. Ints(PcWeights(b, k), 0) /\ 0 \in Nat
    BY DEF Ints
  <1>5. SumTo(PcWeights(b, k), 0) = 0
    BY <1>4, SumToFacts
  <1> QED
    BY <1>2, <1>3, <1>5

LEMMA PcInAppend ==
    ASSUME NEW b \in Seq(PcRows), NEW r \in PcRows, NEW k
    PROVE  PcIn(Append(b, r), k) = PcIn(b, k) + (IF r.key = k THEN r.v ELSE 0)
  <1>1. PICK d, n : d = Append(b, r) /\ n = Len(b)
    OBVIOUS
  <1>2. d \in Seq(PcRows) /\ Len(d) = n + 1 /\ n \in Nat /\ d[n + 1] = r /\ \A i \in 1..n : d[i] = b[i]
    BY <1>1
  <1>3. PICK w, u : w = PcWeights(b, k) /\ u = PcWeights(d, k)
    OBVIOUS
  <1>4. /\ w \in [1..n -> Int] /\ DOMAIN b = 1..n /\ PcIn(b, k) = SumTo(w, n)
    BY <1>1, <1>3, PcInIs
  <1>5. u \in [1..(n + 1) -> Int] /\ DOMAIN d = 1..(n + 1) /\ PcIn(d, k) = SumTo(u, n + 1)
    BY <1>2, <1>3, PcInIs
  <1>6. \A i \in 1..n : w[i] = u[i]
    BY <1>2, <1>3, <1>4, <1>5 DEF PcWeights
  <1>7. u[n + 1] = IF r.key = k THEN r.v ELSE 0
    BY <1>2, <1>3, <1>5 DEF PcWeights
  <1>8. SumTo(u, n) = SumTo(w, n)
    <2>1. IsFiniteSet(1..n) /\ \A i \in 1..n : w[i] \in Int /\ w[i] = u[i]
      BY <1>2, <1>4, <1>6, RtUpTo
    <2> QED
      BY <2>1, SumSame DEF SumTo
  <1>9. SumTo(u, n + 1) = SumTo(u, n) + u[n + 1]
    <2>1. Ints(u, n + 1) /\ n + 1 \in Nat /\ n + 1 > 0 /\ (n + 1) - 1 = n
      BY <1>2, <1>5 DEF Ints
    <2> QED
      BY <2>1, SumToFacts
  <1> QED
    BY <1>1, <1>4, <1>5, <1>7, <1>8, <1>9

\* What batches hold of key k.
PcOutSums(o, k) == [i \in DOMAIN o |-> PcIn(o[i], k)]
PcOutIn(o, k) == SumFunction([i \in DOMAIN o |-> PcIn(o[i], k)])

LEMMA PcOutIs ==
    ASSUME NEW o \in Seq(Seq(PcRows)), NEW k
    PROVE  /\ PcOutSums(o, k) \in [1..Len(o) -> Int] /\ Len(o) \in Nat /\ DOMAIN o = 1..Len(o)
           /\ \A i \in 1..Len(o) : PcOutSums(o, k)[i] = PcIn(o[i], k) /\ PcIn(o[i], k) \in Nat
           /\ PcOutIn(o, k) = SumFunction(PcOutSums(o, k))
           /\ PcOutIn(o, k) = SumTo(PcOutSums(o, k), Len(o)) /\ PcOutIn(o, k) \in Nat
  <1>1. PICK w : w = PcOutSums(o, k)
    OBVIOUS
  <1>2. Len(o) \in Nat /\ DOMAIN o = 1..Len(o) /\ \A i \in 1..Len(o) : o[i] \in Seq(PcRows)
    OBVIOUS
  <1>3. \A i \in 1..Len(o) : PcIn(o[i], k) \in Nat
    BY <1>2, PcInIs
  <1>4. w \in [1..Len(o) -> Int] /\ \A i \in 1..Len(o) : w[i] = PcIn(o[i], k)
    BY <1>1, <1>2, <1>3 DEF PcOutSums
  <1>5. PcOutIn(o, k) = SumFunction(w)
    BY <1>1 DEF PcOutIn, PcOutSums
  <1>6. SumFunction(w) = SumTo(w, Len(o))
    BY <1>2, <1>4, SumIsTo
  <1>7. IsFiniteSet(1..Len(o)) /\ \A i \in 1..Len(o) : w[i] \in Nat
    BY <1>2, <1>3, <1>4, RtUpTo
  <1>8. SumTo(w, Len(o)) \in Nat
    BY <1>7, SumNat DEF SumTo
  <1> QED
    BY <1>1, <1>2, <1>3, <1>4, <1>5, <1>6, <1>8

LEMMA PcOutCat ==
    ASSUME NEW o \in Seq(Seq(PcRows)), NEW p \in Seq(Seq(PcRows)), NEW k
    PROVE  PcOutIn(o \o p, k) = PcOutIn(o, k) + PcOutIn(p, k)
  <1>1. PICK q, n, m : q = o \o p /\ n = Len(o) /\ m = Len(p)
    OBVIOUS
  <1>2. /\ q \in Seq(Seq(PcRows)) /\ n \in Nat /\ m \in Nat /\ Len(q) = n + m
        /\ \A i \in 1..n : q[i] = o[i]
        /\ \A i \in 1..m : q[n + i] = p[i]
    BY <1>1
  <1>3. PICK f, g, h : f = PcOutSums(o, k) /\ g = PcOutSums(p, k) /\ h = PcOutSums(q, k)
    OBVIOUS
  <1>4. f \in [1..n -> Int] /\ PcOutIn(o, k) = SumFunction(f) /\ \A i \in 1..n : f[i] = PcIn(o[i], k)
    BY <1>1, <1>3, PcOutIs
  <1>5. g \in [1..m -> Int] /\ PcOutIn(p, k) = SumFunction(g) /\ \A i \in 1..m : g[i] = PcIn(p[i], k)
    BY <1>1, <1>3, PcOutIs
  <1>6. h \in [1..(n + m) -> Int] /\ PcOutIn(q, k) = SumFunction(h) /\ \A i \in 1..(n + m) : h[i] = PcIn(q[i], k)
    BY <1>2, <1>3, PcOutIs
  <1>7. (\A i \in 1..n : h[i] = f[i]) /\ (\A i \in 1..m : h[n + i] = g[i])
    BY <1>2, <1>4, <1>5, <1>6
  <1>8. SumFunction(h) = SumFunction(f) + SumFunction(g)
    BY <1>2, <1>4, <1>5, <1>6, <1>7, SumCat
  <1> QED
    BY <1>1, <1>4, <1>5, <1>6, <1>8

LEMMA PcOutRemove ==
    ASSUME NEW o \in Seq(Seq(PcRows)), NEW i \in 1..Len(o), NEW k
    PROVE  /\ RemoveAt(o, i) \in Seq(Seq(PcRows))
           /\ PcOutIn(RemoveAt(o, i), k) = PcOutIn(o, k) - PcIn(o[i], k)
  <1>1. PICK q, n : q = RemoveAt(o, i) /\ n = Len(o)
    OBVIOUS
  <1>2. PICK a, b : a = SubSeq(o, 1, i - 1) /\ b = SubSeq(o, i + 1, n)
    OBVIOUS
  <1>3. n \in Nat /\ q = a \o b
    BY <1>1, <1>2 DEF RemoveAt
  <1>4. a \in Seq(Seq(PcRows)) /\ Len(a) = i - 1 /\ \A j \in 1..(i - 1) : a[j] = o[j]
    <2>1. i - 1 \in Nat /\ 0 <= i - 1 /\ i - 1 <= Len(o) /\ 0 \in Nat
      BY <1>1, <1>3
    <2>2. 0 + 1 = 1 /\ (i - 1) - 0 = i - 1 /\ \A j \in 1..(i - 1) : 0 + j = j
      OBVIOUS
    <2>3. /\ SubSeq(o, 0 + 1, i - 1) \in Seq(Seq(PcRows)) /\ Len(SubSeq(o, 0 + 1, i - 1)) = (i - 1) - 0
          /\ \A j \in 1..((i - 1) - 0) : SubSeq(o, 0 + 1, i - 1)[j] = o[0 + j]
      BY ONLY <2>1, o \in Seq(Seq(PcRows)), RtCut
    <2> QED
      BY <1>2, <2>2, <2>3
  <1>5. b \in Seq(Seq(PcRows)) /\ Len(b) = n - i /\ \A j \in 1..(n - i) : b[j] = o[i + j]
    <2>1. i \in Nat /\ n \in Nat /\ i <= n /\ n <= Len(o)
      BY <1>1, <1>3
    <2> QED
      BY <1>2, <2>1, RtCut
  <1>6. q \in Seq(Seq(PcRows)) /\ Len(q) = n - 1 /\ \A l \in 1..(n - i) : q[(i - 1) + l] = b[l]
    <2>1. PICK R : R = Seq(PcRows)
      OBVIOUS
    <2>2. a \in Seq(R) /\ b \in Seq(R)
      BY <1>4, <1>5, <2>1
    <2>3. /\ q \in Seq(R) /\ Len(q) = Len(a) + Len(b)
          /\ \A j \in 1..(Len(a) + Len(b)) : q[j] = IF j <= Len(a) THEN a[j] ELSE b[j - Len(a)]
      BY <1>3, <2>2, ConcatProperties
    <2>4. Len(a) = i - 1 /\ Len(b) = n - i
      BY <1>4, <1>5
    <2>5. ASSUME NEW l \in 1..(n - i) PROVE q[(i - 1) + l] = b[l]
      <3>1. PICK j : j = (i - 1) + l
        OBVIOUS
      <3>2. j \in 1..(Len(a) + Len(b)) /\ ~(j <= Len(a)) /\ j - Len(a) = l
        BY <1>1, <1>3, <2>4, <3>1
      <3> QED
        BY <2>3, <3>1, <3>2
    <2>6. Len(q) = n - 1
      BY <1>1, <1>3, <2>3, <2>4
    <2> QED
      BY <2>1, <2>3, <2>5, <2>6
  <1>7. \A j \in 1..(i - 1) : q[j] = o[j]
    BY <1>1, <1>3, <1>4, <1>5
  <1>8. ASSUME NEW j \in i..(n - 1) PROVE q[j] = o[j + 1]
    <2>1. PICK l : l = j - (i - 1)
      OBVIOUS
    <2>2. l \in 1..(n - i) /\ j = (i - 1) + l /\ j + 1 = i + l
      BY <1>1, <1>3, <2>1
    <2>3. q[j] = b[l]
      BY <1>6, <2>2
    <2> QED
      BY <1>5, <2>2, <2>3
  <1>9. PICK f, h : f = PcOutSums(o, k) /\ h = PcOutSums(q, k)
    OBVIOUS
  <1>10. f \in [1..n -> Int] /\ PcOutIn(o, k) = SumFunction(f) /\ \A j \in 1..n : f[j] = PcIn(o[j], k)
    BY <1>1, <1>9, PcOutIs
  <1>11. h \in [1..(n - 1) -> Int] /\ PcOutIn(q, k) = SumFunction(h) /\ \A j \in 1..(n - 1) : h[j] = PcIn(q[j], k)
    BY <1>6, <1>9, PcOutIs
  <1>12. (\A j \in 1..(i - 1) : h[j] = f[j]) /\ (\A j \in i..(n - 1) : h[j] = f[j + 1])
    <2>1. ASSUME NEW j \in 1..(i - 1) PROVE h[j] = f[j]
      <3>1. j \in 1..n /\ j \in 1..(n - 1)
        BY <1>1, <1>3
      <3> QED
        BY <1>7, <1>10, <1>11, <3>1
    <2>2. ASSUME NEW j \in i..(n - 1) PROVE h[j] = f[j + 1]
      <3>1. j + 1 \in 1..n /\ j \in 1..(n - 1)
        BY <1>1, <1>3
      <3> QED
        BY <1>8, <1>10, <1>11, <3>1
    <2> QED
      BY <2>1, <2>2
  <1>13. SumFunction(h) = SumFunction(f) - f[i]
    BY <1>1, <1>3, <1>10, <1>11, <1>12, SumRemove
  <1> QED
    BY <1>1, <1>6, <1>10, <1>11, <1>13

\* The parts that SliceCutter cuts hold what the whole holds.
LEMMA PcOutSlices ==
    ASSUME NEW s \in Seq(PcRows), NEW n \in Nat \ {0}, NEW k
    PROVE  SliceCutter(s, n) \in Seq(Seq(PcRows)) /\ PcOutIn(SliceCutter(s, n), k) = PcIn(s, k)
  <1>1. PICK c, len, parts : c = SliceCutter(s, n) /\ len = Len(s) /\ parts = SliceParts(len, n)
    OBVIOUS
  <1> DEFINE End(i) == SliceEnd(len, n, i)
  <1>2. /\ len \in Nat /\ parts \in Nat /\ End(0) = 0 /\ End(parts) = len
        /\ \A i \in 1..parts : /\ End(i - 1) = n * (i - 1) /\ n * (i - 1) \in Nat /\ End(i) \in Nat
                               /\ n * (i - 1) <= End(i) /\ End(i) <= len
    BY <1>1, SliceEnds
  <1>3. c = [i \in 1..parts |-> SubSeq(s, n * (i - 1) + 1, End(i))]
    BY <1>1 DEF SliceCutter, SliceEnd, SliceParts
  <1> HIDE DEF End
  <1>4. PICK w : w = PcWeights(s, k)
    OBVIOUS
  <1>5. w \in [1..len -> Int] /\ DOMAIN s = 1..len /\ PcIn(s, k) = SumTo(w, len)
    BY <1>1, <1>4, PcInIs
  <1>6. ASSUME NEW i \in 1..parts
        PROVE  /\ c[i] \in Seq(PcRows) /\ End(i - 1) \in Nat /\ End(i) \in Nat
               /\ SumTo(w, End(i)) \in Int /\ SumTo(w, End(i - 1)) \in Int
               /\ PcIn(c[i], k) = SumTo(w, End(i)) - SumTo(w, End(i - 1))
    <2>1. PICK a, b, m, d : a = n * (i - 1) /\ b = End(i) /\ m = b - a /\ d = c[i]
      OBVIOUS
    <2>2. a \in Nat /\ b \in Nat /\ a <= b /\ b <= len /\ a = End(i - 1) /\ m \in Nat /\ b = a + m
      <3>1. a \in Nat /\ b \in Nat /\ a <= b /\ b <= len /\ a = End(i - 1)
        BY <1>2, <2>1
      <3>2. m \in Nat /\ b = a + m
        BY ONLY <2>1, <3>1
      <3> QED
        BY <3>1, <3>2
    <2>3. d \in Seq(PcRows) /\ Len(d) = m /\ \A j \in 1..m : d[j] = s[a + j]
      <3>1. d = SubSeq(s, a + 1, b)
        BY <1>3, <2>1
      <3>2. b <= Len(s)
        BY <1>1, <2>2
      <3>3. /\ SubSeq(s, a + 1, b) \in Seq(PcRows) /\ Len(SubSeq(s, a + 1, b)) = b - a
            /\ \A j \in 1..(b - a) : SubSeq(s, a + 1, b)[j] = s[a + j]
        <4>1. PICK R : R = PcRows
          OBVIOUS
        <4>2. s \in Seq(R) /\ a \in Nat /\ b \in Nat /\ a <= b
          BY <2>2, <4>1
        <4>3. /\ SubSeq(s, a + 1, b) \in Seq(R) /\ Len(SubSeq(s, a + 1, b)) = b - a
              /\ \A j \in 1..(b - a) : SubSeq(s, a + 1, b)[j] = s[a + j]
          BY ONLY <3>2, <4>2, RtCut
        <4> QED
          BY <4>1, <4>3
      <3> QED
        BY <2>1, <3>1, <3>3
    <2>4. PICK u : u = PcWeights(d, k)
      OBVIOUS
    <2>5. u \in [1..m -> Int] /\ DOMAIN d = 1..m /\ PcIn(d, k) = SumTo(u, m)
      BY <2>3, <2>4, PcInIs
    <2>6. AlikeFrom(u, w, 0, a, m)
      <3> SUFFICES ASSUME NEW j \in 1..m PROVE u[0 + j] = w[a + j]
        BY DEF AlikeFrom
      <3>1. a + j \in 1..len /\ 0 + j = j
        BY <1>2, <2>2
      <3>2. u[j] = w[a + j]
        BY <1>4, <1>5, <2>3, <2>4, <2>5, <3>1 DEF PcWeights
      <3> QED
        BY <3>1, <3>2
    <2>7. Ints(u, m) /\ Ints(w, b) /\ Ints(w, a) /\ m = 0 + m /\ 0 \in Nat
      BY <1>2, <1>5, <2>2, <2>5 DEF Ints
    <2>8. SumTo(u, m) - SumTo(u, 0) = SumTo(w, b) - SumTo(w, a)
      BY ONLY <2>2, <2>6, <2>7, SumShift
    <2>9. SumTo(u, 0) = 0 /\ SumTo(u, m) \in Int /\ SumTo(w, b) \in Int /\ SumTo(w, a) \in Int
      BY <2>2, <2>7, SumToFacts
    <2> QED
      <3>1. SumTo(u, m) = SumTo(w, b) - SumTo(w, a)
        BY ONLY <2>8, <2>9
      <3> QED
        BY <2>1, <2>2, <2>3, <2>5, <2>9, <3>1
  <1>7. c \in Seq(Seq(PcRows)) /\ Len(c) = parts
    <2>1. PICK R : R = Seq(PcRows)
      OBVIOUS
    <2>2. c \in [1..parts -> R]
      BY <1>3, <1>6, <2>1
    <2>3. c \in Seq(R) /\ Len(c) = parts
      BY <1>2, <2>2
    <2> QED
      BY <2>1, <2>3
  <1>8. PICK f : f = PcOutSums(c, k)
    OBVIOUS
  <1>9. f \in [1..parts -> Int] /\ PcOutIn(c, k) = SumTo(f, parts) /\ \A i \in 1..parts : f[i] = PcIn(c[i], k)
    BY <1>7, <1>8, PcOutIs
  <1>10. PICK B : B = {i \in 0..parts : SumTo(f, i) # SumTo(w, End(i))}
    OBVIOUS
  <1>11. ASSUME B # {} PROVE FALSE
    <2>0. B \in SUBSET Nat
      BY <1>2, <1>10
    <2>1. PICK i \in B : \A j \in B : i <= j
      BY <1>11, <2>0, RtLeast
    <2>2. i \in 0..parts /\ SumTo(f, i) # SumTo(w, End(i))
      BY <1>10
    <2>3. i # 0
      <3>1. Ints(f, 0) /\ Ints(w, 0) /\ 0 \in Nat
        BY DEF Ints
      <3>2. SumTo(f, 0) = 0 /\ SumTo(w, 0) = 0
        BY <3>1, SumToFacts
      <3> QED
        BY <1>2, <2>2, <3>2
    <2>4. i \in 1..parts /\ i - 1 \in 0..parts /\ i - 1 \notin B
      BY <1>2, <2>0, <2>1, <2>2, <2>3
    <2>5. SumTo(f, i - 1) = SumTo(w, End(i - 1))
      BY <1>10, <2>4
    <2>6. i \in Nat /\ i > 0 /\ Ints(f, i)
      BY <1>2, <1>9, <2>4 DEF Ints
    <2>7. SumTo(f, i) = SumTo(f, i - 1) + f[i]
      BY <2>6, SumToFacts
    <2>8. f[i] = SumTo(w, End(i)) - SumTo(w, End(i - 1)) /\ SumTo(w, End(i)) \in Int /\ SumTo(w, End(i - 1)) \in Int
      BY <1>6, <1>9, <2>4
    <2>9. PICK x, y, z : x = SumTo(w, End(i)) /\ y = SumTo(w, End(i - 1)) /\ z = SumTo(f, i)
      OBVIOUS
    <2>10. x \in Int /\ y \in Int /\ z = y + (x - y)
      BY <2>5, <2>7, <2>8, <2>9
    <2>11. z = x
      BY ONLY <2>10
    <2> QED
      BY <2>2, <2>9, <2>11
  <1>12. parts \in 0..parts /\ parts \notin B
    BY <1>2, <1>11
  <1>13. SumTo(f, parts) = SumTo(w, End(parts))
    BY <1>10, <1>12
  <1> QED
    BY <1>1, <1>2, <1>5, <1>7, <1>9, <1>13

\* How often a value is in a sequence.
RtTimes(q, k) == Cardinality({i \in DOMAIN q : q[i] = k})

LEMMA RtTimesAppend ==
    ASSUME NEW R, NEW q \in Seq(R), NEW r \in R, NEW k
    PROVE  /\ RtTimes(Append(q, r), k) = RtTimes(q, k) + (IF r = k THEN 1 ELSE 0)
           /\ RtTimes(q, k) \in Nat
  <1>1. PICK d, n : d = Append(q, r) /\ n = Len(q)
    OBVIOUS
  <1>2. n \in Nat /\ DOMAIN q = 1..n /\ DOMAIN d = 1..(n + 1) /\ d[n + 1] = r /\ \A i \in 1..n : d[i] = q[i]
    BY <1>1
  <1>3. PICK S, T : S = {i \in DOMAIN q : q[i] = k} /\ T = {i \in DOMAIN d : d[i] = k}
    OBVIOUS
  <1>4. IsFiniteSet(S) /\ n + 1 \notin S /\ Cardinality(S) \in Nat
    <2>1. S \subseteq 1..n /\ IsFiniteSet(1..n)
      BY <1>2, <1>3, RtUpTo
    <2>2. n + 1 \notin S
      BY <1>2, <2>1
    <2> QED
      BY <2>1, <2>2, FS_Subset, FS_CardinalityType
  <1>5. T = IF r = k THEN S \cup {n + 1} ELSE S
    BY <1>2, <1>3
  <1>6. Cardinality(T) = Cardinality(S) + (IF r = k THEN 1 ELSE 0)
    <2>1. PICK m : m = n + 1
      OBVIOUS
    <2>2. Cardinality(S \cup {m}) = Cardinality(S) + 1
      BY <1>4, <2>1, FS_AddElement
    <2> QED
      BY <1>4, <1>5, <2>1, <2>2
  <1> QED
    BY <1>1, <1>3, <1>4, <1>6 DEF RtTimes

LEMMA RtTimesTail ==
    ASSUME NEW R, NEW q \in Seq(R), q # <<>>, NEW k
    PROVE  RtTimes(Tail(q), k) = RtTimes(q, k) - (IF Head(q) = k THEN 1 ELSE 0)
  <1>1. PICK d, n : d = Tail(q) /\ n = Len(q)
    OBVIOUS
  <1>2. /\ n \in Nat /\ n > 0 /\ DOMAIN q = 1..n /\ DOMAIN d = 1..(n - 1) /\ Head(q) = q[1]
        /\ \A i \in 1..(n - 1) : d[i] = q[i + 1]
    BY <1>1, EmptySeq
  <1>3. PICK S, T : S = {i \in DOMAIN q : q[i] = k} /\ T = {i \in DOMAIN d : d[i] = k}
    OBVIOUS
  <1>4. IsFiniteSet(S) /\ Cardinality(S) \in Nat
    <2>1. S \subseteq 1..n /\ IsFiniteSet(1..n)
      BY <1>2, <1>3, RtUpTo
    <2> QED
      BY <2>1, FS_Subset, FS_CardinalityType
  <1>5. PICK U : U = S \ {1}
    OBVIOUS
  <1>6. IsFiniteSet(U) /\ Cardinality(U) = Cardinality(S) - (IF Head(q) = k THEN 1 ELSE 0)
    <2>1. CASE Head(q) = k
      <3>1. 1 \in S
        BY <1>2, <1>3, <2>1
      <3> QED
        BY <1>4, <1>5, <2>1, <3>1, RtLess
    <2>2. CASE Head(q) # k
      <3>1. U = S
        BY <1>2, <1>3, <1>5, <2>2
      <3> QED
        BY <1>4, <2>2, <3>1
    <2> QED
      BY <2>1, <2>2
  <1>7. Cardinality(T) = Cardinality(U)
    <2> DEFINE f == [i \in U |-> i - 1]
    <2>1. U = {i \in 2..n : q[i] = k} /\ T = {i \in 1..(n - 1) : q[i + 1] = k}
      BY <1>2, <1>3, <1>5
    <2>2. f \in [U -> T]
      <3>1. ASSUME NEW i \in U PROVE i - 1 \in T
        <4>1. i \in 2..n /\ q[i] = k
          BY <2>1
        <4>2. i - 1 \in 1..(n - 1) /\ (i - 1) + 1 = i
          BY <1>2, <4>1
        <4> QED
          BY <2>1, <4>1, <4>2
      <3> QED
        BY <3>1
    <2>3. \A i, j \in U : f[i] = f[j] => i = j
      BY <1>2, <2>1
    <2>4. \A t \in T : \E i \in U : f[i] = t
      <3> SUFFICES ASSUME NEW t \in T PROVE \E i \in U : f[i] = t
        OBVIOUS
      <3>1. t \in 1..(n - 1) /\ q[t + 1] = k
        BY <2>1
      <3>2. t + 1 \in U /\ (t + 1) - 1 = t
        BY <1>2, <2>1, <3>1
      <3> QED
        BY <3>2
    <2>5. f \in Bijection(U, T)
      BY <2>2, <2>3, <2>4 DEF Bijection, Injection, Surjection, IsInjective
    <2>6. ExistsBijection(U, T)
      BY <2>5 DEF ExistsBijection
    <2> QED
      BY <1>6, <2>6, FS_Bijection
  <1> QED
    BY <1>1, <1>3, <1>6, <1>7 DEF RtTimes

-----------------------------------------------------------------------------
(* Counters: every increment is in one place.                              *)

PcHands == {PcFree} \cup [st : {"miss", "load"}, key : PcKeys] \cup [st : {"add"}, key : PcKeys, gen : Nat]
PcStages == {"idle", "update", "panic", "gauges", "swap", "ended"}

PcTypes ==
    /\ pcUpd \in {"nil", "set"} /\ pcUnset \in BOOLEAN
    /\ pcCall \in [PcCallers -> PcKeys \cup {"out"}] /\ pcQ \in Seq(PcKeys)
    /\ pcHand \in PcHands
    /\ pcGen \in [PcKeys -> Nat] /\ pcVal \in [PcKeys -> Nat]
    /\ pcAcc \in [PcKeys -> Nat] /\ pcRep \in [PcKeys -> Nat]
    /\ pcOut \in Seq(Seq(PcRows))

\* The walk: rows are collected in its last stage only, gauges are gauges, and an
\* updater that was checked is there or was taken away.
PcWalking ==
    /\ pcWalk \in [st : PcStages, todo : {pcWalk.todo}, send : Seq(PcRows)]
    /\ pcWalk.st # "swap" => pcWalk.send = <<>>
    /\ pcWalk.st \in {"update", "gauges"} => pcWalk.todo \subseteq PcGauges
    /\ pcWalk.st = "update" => pcUpd = "set" \/ pcUnset
    /\ pcWalk.st = "panic" => pcUnset

\* The handler and the pointers: nobody else creates one for a key without a gauge,
\* so the one the handler has loaded is the one that is there.
PcPointers ==
    /\ pcHand.st = "miss" /\ pcHand.key \notin PcGauges => pcGen[pcHand.key] = 0
    /\ pcHand.st \in {"load", "add"} => pcGen[pcHand.key] # 0
    /\ pcHand.st = "add" /\ pcHand.key \notin PcGauges => pcHand.gen = pcGen[pcHand.key]
    /\ \A k \in PcKeys \ PcGauges : pcGen[k] = 0 => pcVal[k] = 0

PcAt(h, k) == IF h.st # "free" /\ h.key = k THEN 1 ELSE 0
PcAccounted(k) == RtTimes(pcQ, k) + PcAt(pcHand, k) + pcVal[k] + PcIn(pcWalk.send, k) + PcOutIn(pcOut, k) + pcRep[k]
PcBalance == \A k \in PcKeys \ PcGauges : pcAcc[k] = PcAccounted(k)

PcInv == PcTypes /\ PcWalking /\ PcPointers /\ PcBalance

LEMMA PcBalanceIs == PcBalance <=> PcConserved
  BY DEF PcBalance, PcConserved, PcAccounted, RtTimes, PcAt, PcOutIn

LEMMA PcInitHolds == PcInit => PcInv
  <1> SUFFICES ASSUME PcInit PROVE PcInv
    OBVIOUS
  <1>1. PcTypes
    <2>1. <<>> \in Seq(PcKeys) /\ \A R : <<>> \in Seq(R)
      OBVIOUS
    <2>2. <<>> \in Seq(Seq(PcRows))
      BY <2>1
    <2>3. PcFree \in PcHands
      BY DEF PcHands
    <2> HIDE DEF PcFree, PcHands
    <2> QED
      BY <2>1, <2>2, <2>3 DEF PcInit, PcTypes
  <1>2. PcWalking
    <2>1. <<>> \in Seq(PcRows)
      OBVIOUS
    <2> QED
      BY <2>1 DEF PcInit, PcWalking, PcIdle, PcStages
  <1>3. PcPointers
    BY DEF PcInit, PcPointers, PcFree
  <1>4. ASSUME NEW k \in PcKeys \ PcGauges PROVE pcAcc[k] = PcAccounted(k)
    <2>1. RtTimes(<<>>, k) = 0
      <3>1. {i \in DOMAIN <<>> : <<>>[i] = k} = {}
        OBVIOUS
      <3> QED
        BY <3>1, FS_EmptySet DEF RtTimes
    <2>2. PcAt(PcFree, k) = 0
      BY DEF PcAt, PcFree
    <2>3. PcIn(<<>>, k) = 0
      BY PcInEmpty
    <2>4. PcOutIn(<<>>, k) = 0
      <3>1. PICK o : o = <<>>
        OBVIOUS
      <3>2. o \in Seq(Seq(PcRows)) /\ Len(o) = 0
        BY <3>1
      <3>3. PcOutIn(o, k) = SumTo(PcOutSums(o, k), 0)
        BY <3>2, PcOutIs
      <3>4. Ints(PcOutSums(o, k), 0) /\ 0 \in Nat
        BY DEF Ints
      <3> QED
        BY <3>1, <3>3, <3>4, SumToFacts
    <2>5. /\ pcAcc[k] = 0 /\ pcVal[k] = 0 /\ pcRep[k] = 0 /\ pcQ = <<>> /\ pcHand = PcFree
          /\ pcWalk.send = <<>> /\ pcOut = <<>>
      BY DEF PcInit, PcIdle
    <2> QED
      BY <2>1, <2>2, <2>3, <2>4, <2>5 DEF PcAccounted
  <1> QED
    BY <1>1, <1>2, <1>3, <1>4 DEF PcInv, PcBalance

\* The terms are numbers.
LEMMA PcTerms ==
    ASSUME PcInv, NEW k \in PcKeys \ PcGauges
    PROVE  /\ RtTimes(pcQ, k) \in Nat /\ PcAt(pcHand, k) \in Nat /\ pcVal[k] \in Nat
           /\ PcIn(pcWalk.send, k) \in Nat /\ PcOutIn(pcOut, k) \in Nat /\ pcRep[k] \in Nat
           /\ pcAcc[k] = PcAccounted(k) /\ k \in PcKeys
  <1>1. RtTimes(pcQ, k) \in Nat
    <2>1. pcQ \in Seq(PcKeys) /\ k \in PcKeys
      BY DEF PcInv, PcTypes
    <2> QED
      BY <2>1, RtTimesAppend
  <1>2. PcIn(pcWalk.send, k) \in Nat
    <2>1. pcWalk.send \in Seq(PcRows)
      BY DEF PcInv, PcWalking
    <2> QED
      BY <2>1, PcInIs
  <1>3. PcOutIn(pcOut, k) \in Nat
    BY PcOutIs DEF PcInv, PcTypes
  <1> QED
    BY <1>1, <1>2, <1>3 DEF PcInv, PcTypes, PcBalance, PcAt

\* Steps that leave the increments where they are.
LEMMA PcStill ==
    ASSUME PcInv, UNCHANGED <<pcQ, pcHand, pcVal, pcOut, pcAcc, pcRep>>, pcWalk'.send = pcWalk.send
    PROVE  PcBalance'
  BY DEF PcInv, PcBalance, PcAccounted

\* InitPerfCounter, ClosePerfCounter and the check in Incr.
LEMMA PcLifeKeeps ==
    ASSUME PcInv, (\E u \in {"nil", "set"} : InitPerfCounter(u)) \/ ClosePerfCounter \/ UNCHANGED pcVars
                  \/ \E c \in PcCallers, k \in PcKeys : PcIncr(c, k)
    PROVE  PcInv'
  <1>1. /\ UNCHANGED <<pcQ, pcHand, pcGen, pcVal, pcWalk, pcOut, pcAcc, pcRep>>
        /\ pcUpd' \in {"nil", "set"} /\ pcUnset' \in BOOLEAN /\ (pcUnset => pcUnset')
        /\ (pcUpd = "set" => pcUpd' = "set" \/ pcUnset')
        /\ pcCall' \in [PcCallers -> PcKeys \cup {"out"}]
    BY DEF PcInv, PcTypes, InitPerfCounter, ClosePerfCounter, PcIncr, pcVars, pcLifeVars
  <1>2. PcBalance'
    BY <1>1, PcStill
  <1>3. PcTypes' /\ PcPointers'
    BY <1>1 DEF PcInv, PcTypes, PcPointers
  <1>4. PcWalking'
    BY <1>1 DEF PcInv, PcWalking
  <1> QED
    BY <1>2, <1>3, <1>4 DEF PcInv

LEMMA PcSendKeeps == ASSUME PcInv, NEW c \in PcCallers, PcIncrSend(c) PROVE PcInv'
  <1>1. PICK k : k = pcCall[c]
    OBVIOUS
  <1>2. /\ k \in PcKeys /\ pcCall' = [pcCall EXCEPT ![c] = "out"]
        /\ UNCHANGED <<pcUpd, pcUnset, pcHand, pcGen, pcVal, pcWalk, pcOut, pcRep>>
        /\ \/ pcQ' = Append(pcQ, k) /\ pcAcc' = [pcAcc EXCEPT ![k] = @ + 1]
           \/ UNCHANGED <<pcQ, pcAcc>>
    BY <1>1 DEF PcInv, PcTypes, PcIncrSend, pcLifeVars
  <1>3. PcTypes' /\ PcPointers' /\ PcWalking'
    <2>0. pcQ \in Seq(PcKeys) /\ pcAcc \in [PcKeys -> Nat]
      BY DEF PcInv, PcTypes
    <2>1. pcQ' \in Seq(PcKeys) /\ pcAcc' \in [PcKeys -> Nat]
      <3>1. Append(pcQ, k) \in Seq(PcKeys) /\ [pcAcc EXCEPT ![k] = @ + 1] \in [PcKeys -> Nat]
        BY <1>2, <2>0
      <3> QED
        BY <1>2, <2>0, <3>1
    <2> QED
      BY <1>2, <2>1 DEF PcInv, PcTypes, PcPointers, PcWalking
  <1>4. CASE UNCHANGED <<pcQ, pcAcc>>
    BY <1>2, <1>3, <1>4, PcStill DEF PcInv
  <1>5. CASE pcQ' = Append(pcQ, k) /\ pcAcc' = [pcAcc EXCEPT ![k] = @ + 1]
    <2> SUFFICES ASSUME NEW j \in PcKeys \ PcGauges PROVE pcAcc'[j] = PcAccounted(j)'
      BY <1>3 DEF PcInv, PcBalance
    <2>1. RtTimes(pcQ', j) = RtTimes(pcQ, j) + (IF k = j THEN 1 ELSE 0)
      <3>1. pcQ \in Seq(PcKeys)
        BY DEF PcInv, PcTypes
      <3> QED
        BY <1>2, <1>5, <3>1, RtTimesAppend
    <2>2. pcAcc'[j] = pcAcc[j] + (IF k = j THEN 1 ELSE 0) /\ pcAcc[j] \in Nat
      BY <1>2, <1>5 DEF PcInv, PcTypes
    <2>3. PcAccounted(j)' = RtTimes(pcQ', j) + PcAt(pcHand, j) + pcVal[j] + PcIn(pcWalk.send, j)
                            + PcOutIn(pcOut, j) + pcRep[j]
      BY <1>2 DEF PcAccounted
    <2>4. PICK t : t = IF k = j THEN 1 ELSE 0
      OBVIOUS
    <2>5. t \in Nat /\ RtTimes(pcQ', j) = RtTimes(pcQ, j) + t /\ pcAcc'[j] = pcAcc[j] + t
      BY <2>1, <2>2, <2>4
    <2> QED
      BY <2>3, <2>5, PcTerms DEF PcAccounted
  <1> QED
    BY <1>2, <1>4, <1>5

LEMMA PcTakeKeeps == ASSUME PcInv, PcTake PROVE PcInv'
  <1>1. PICK k, h : k = Head(pcQ) /\ h = [st |-> IF pcGen[k] = 0 THEN "miss" ELSE "load", key |-> k]
    OBVIOUS
  <1>2. /\ pcQ \in Seq(PcKeys) /\ pcQ # <<>> /\ k \in PcKeys /\ pcQ' = Tail(pcQ) /\ pcHand' = h
        /\ pcHand.st = "free" /\ UNCHANGED <<pcUpd, pcUnset, pcCall, pcGen, pcVal, pcWalk, pcOut, pcAcc, pcRep>>
    BY <1>1 DEF PcInv, PcTypes, PcTake, pcLifeVars, pcCallVars
  <1>3. /\ h \in PcHands /\ h.key = k /\ (h.st = "miss" => pcGen[k] = 0)
        /\ h.st # "free" /\ h.st # "add" /\ (h.st = "load" => pcGen[k] # 0)
    BY <1>1, <1>2 DEF PcHands
  <1>4. PcTypes' /\ PcWalking'
    <2>1. pcQ' \in Seq(PcKeys)
      BY <1>2
    <2> HIDE DEF PcHands
    <2> QED
      BY <1>2, <1>3, <2>1 DEF PcInv, PcTypes, PcWalking
  <1>5. PcPointers'
    BY <1>2, <1>3 DEF PcInv, PcPointers
  <1>6. PcBalance'
    <2> SUFFICES ASSUME NEW j \in PcKeys \ PcGauges PROVE pcAcc'[j] = PcAccounted(j)'
      BY DEF PcBalance
    <2>1. RtTimes(pcQ', j) = RtTimes(pcQ, j) - (IF k = j THEN 1 ELSE 0)
      BY <1>1, <1>2, RtTimesTail
    <2>2. PcAt(pcHand, j) = 0 /\ PcAt(pcHand', j) = IF k = j THEN 1 ELSE 0
      BY <1>2, <1>3 DEF PcAt
    <2> QED
      BY <1>2, <2>1, <2>2, PcTerms DEF PcAccounted
  <1> QED
    BY <1>4, <1>5, <1>6 DEF PcInv

LEMMA PcCreateKeeps == ASSUME PcInv, PcCreate PROVE PcInv'
  <1>1. PICK k : k = pcHand.key
    OBVIOUS
  <1>2. /\ pcHand.st = "miss" /\ pcHand \in [st : {"miss", "load"}, key : PcKeys] /\ k \in PcKeys
        /\ pcHand' = [pcHand EXCEPT !.st = "load"]
        /\ pcGen' = [pcGen EXCEPT ![k] = @ + 1] /\ pcVal' = [pcVal EXCEPT ![k] = 0]
        /\ UNCHANGED <<pcUpd, pcUnset, pcCall, pcQ, pcWalk, pcOut, pcAcc, pcRep>>
    BY <1>1 DEF PcInv, PcTypes, PcHands, PcFree, PcCreate, PcSetNew, pcLifeVars, pcCallVars
  <1>3. pcHand' \in PcHands /\ pcHand'.st = "load" /\ pcHand'.key = k
    BY <1>1, <1>2 DEF PcHands
  <1>4. k \notin PcGauges => pcGen[k] = 0 /\ pcVal[k] = 0
    BY <1>1, <1>2 DEF PcInv, PcPointers
  <1>5. pcGen' \in [PcKeys -> Nat] /\ pcVal' \in [PcKeys -> Nat] /\ pcGen'[k] # 0
    BY <1>2 DEF PcInv, PcTypes
  <1>6. PcTypes' /\ PcWalking'
    BY <1>2, <1>3, <1>5 DEF PcInv, PcTypes, PcWalking
  <1>7. PcPointers'
    <2>1. \A j \in PcKeys \ PcGauges : pcGen'[j] = 0 => pcVal'[j] = 0
      BY <1>2, <1>5 DEF PcInv, PcTypes, PcPointers
    <2> QED
      BY <1>3, <1>5, <2>1 DEF PcPointers
  <1>8. PcBalance'
    <2> SUFFICES ASSUME NEW j \in PcKeys \ PcGauges PROVE pcAcc'[j] = PcAccounted(j)'
      BY DEF PcBalance
    <2>1. pcVal'[j] = pcVal[j]
      BY <1>2, <1>4 DEF PcInv, PcTypes
    <2>2. PcAt(pcHand', j) = PcAt(pcHand, j)
      BY <1>1, <1>2, <1>3 DEF PcAt
    <2> QED
      BY <1>2, <2>1, <2>2, PcTerms DEF PcAccounted
  <1> QED
    BY <1>6, <1>7, <1>8 DEF PcInv

LEMMA PcLoadKeeps == ASSUME PcInv, PcLoad PROVE PcInv'
  <1>1. PICK k : k = pcHand.key
    OBVIOUS
  <1>2. /\ pcHand.st = "load" /\ k \in PcKeys /\ pcHand' = [st |-> "add", key |-> k, gen |-> pcGen[k]]
        /\ pcGen[k] \in Nat
        /\ UNCHANGED <<pcUpd, pcUnset, pcCall, pcGen, pcVal, pcQ, pcWalk, pcOut, pcAcc, pcRep>>
    BY <1>1 DEF PcInv, PcTypes, PcHands, PcFree, PcLoad, pcLifeVars, pcCallVars
  <1>3. pcHand' \in PcHands /\ pcHand'.st = "add" /\ pcHand'.key = k /\ pcHand'.gen = pcGen[k] /\ pcGen[k] # 0
    BY <1>1, <1>2 DEF PcHands, PcInv, PcPointers
  <1>4. PcTypes' /\ PcWalking'
    BY <1>2, <1>3 DEF PcInv, PcTypes, PcWalking
  <1>5. PcPointers'
    BY <1>2, <1>3 DEF PcInv, PcPointers
  <1>6. PcBalance'
    <2> SUFFICES ASSUME NEW j \in PcKeys \ PcGauges PROVE pcAcc'[j] = PcAccounted(j)'
      BY DEF PcBalance
    <2>1. PcAt(pcHand', j) = PcAt(pcHand, j)
      BY <1>1, <1>2, <1>3 DEF PcAt
    <2> QED
      BY <1>2, <2>1, PcTerms DEF PcAccounted
  <1> QED
    BY <1>4, <1>5, <1>6 DEF PcInv

LEMMA PcAddKeeps == ASSUME PcInv, PcAdd PROVE PcInv'
  <1>1. PICK k : k = pcHand.key
    OBVIOUS
  <1>2. /\ pcHand.st = "add" /\ k \in PcKeys /\ pcHand' = PcFree
        /\ pcVal' = IF pcHand.gen = pcGen[k] THEN [pcVal EXCEPT ![k] = @ + 1] ELSE pcVal
        /\ UNCHANGED <<pcUpd, pcUnset, pcCall, pcGen, pcQ, pcWalk, pcOut, pcAcc, pcRep>>
    BY <1>1 DEF PcInv, PcTypes, PcHands, PcFree, PcAdd, pcLifeVars, pcCallVars
  <1>3. pcHand' \in PcHands /\ pcHand'.st = "free"
    BY <1>2 DEF PcHands, PcFree
  <1>4. pcVal' \in [PcKeys -> Nat] /\ \A j \in PcKeys : j # k => pcVal'[j] = pcVal[j]
    BY <1>2 DEF PcInv, PcTypes
  <1>5. k \notin PcGauges => pcVal'[k] = pcVal[k] + 1 /\ pcGen[k] # 0
    BY <1>1, <1>2 DEF PcInv, PcTypes, PcPointers
  <1>6. PcTypes' /\ PcWalking'
    BY <1>2, <1>3, <1>4 DEF PcInv, PcTypes, PcWalking
  <1>7. PcPointers'
    BY <1>2, <1>3, <1>4, <1>5 DEF PcInv, PcPointers
  <1>8. PcBalance'
    <2> SUFFICES ASSUME NEW j \in PcKeys \ PcGauges PROVE pcAcc'[j] = PcAccounted(j)'
      BY DEF PcBalance
    <2>1. PcAt(pcHand', j) = 0 /\ PcAt(pcHand, j) = IF k = j THEN 1 ELSE 0
      BY <1>1, <1>2, <1>3 DEF PcAt
    <2>2. pcVal'[j] = pcVal[j] + (IF k = j THEN 1 ELSE 0)
      BY <1>4, <1>5, PcTerms
    <2> QED
      BY <1>2, <2>1, <2>2, PcTerms DEF PcAccounted
  <1> QED
    BY <1>6, <1>7, <1>8 DEF PcInv

\* The steps of the walk before it swaps, and its end.
LEMMA PcStageKeeps ==
    ASSUME PcInv, PcTick \/ PcWalkEnds \/ PcUpdate \/ PcList
    PROVE  PcInv'
  <1>1. /\ UNCHANGED <<pcUpd, pcUnset, pcCall, pcQ, pcHand, pcGen, pcVal, pcOut, pcAcc, pcRep>>
        /\ pcWalk.st # "swap" /\ pcWalk.send = <<>>
    BY DEF PcInv, PcWalking, PcTick, PcWalkEnds, PcUpdate, PcList, pcLifeVars, pcCallVars
  <1>2. <<>> \in Seq(PcRows)
    OBVIOUS
  <1>3. CASE PcTick
    <2>1. pcWalk' = [st |-> IF pcUpd = "nil" THEN "gauges" ELSE "update", todo |-> PcGauges, send |-> <<>>]
      BY <1>3 DEF PcTick, PcWalkTo
    <2>2. PcWalking'
      BY <1>1, <1>2, <2>1 DEF PcInv, PcTypes, PcWalking, PcStages
    <2>3. pcWalk'.send = pcWalk.send
      BY <1>1, <2>1
    <2> QED
      BY <1>1, <2>2, <2>3, PcStill DEF PcInv, PcTypes, PcPointers
  <1>4. CASE PcWalkEnds
    <2>1. pcWalk' = [st |-> "ended", todo |-> {}, send |-> <<>>]
      BY <1>4 DEF PcWalkEnds, PcWalkTo
    <2>2. PcWalking'
      BY <1>1, <1>2, <2>1 DEF PcWalking, PcStages
    <2>3. pcWalk'.send = pcWalk.send
      BY <1>1, <2>1
    <2> QED
      BY <1>1, <2>2, <2>3, PcStill DEF PcInv, PcTypes, PcPointers
  <1>5. CASE PcUpdate
    <2>1. /\ pcWalk.st = "update" /\ pcWalk \in [st : PcStages, todo : {pcWalk.todo}, send : Seq(PcRows)]
          /\ pcWalk' = [pcWalk EXCEPT !.st = IF pcUpd = "nil" THEN "panic" ELSE "gauges"]
      BY <1>5 DEF PcInv, PcWalking, PcUpdate
    <2>2. /\ pcWalk'.send = pcWalk.send /\ pcWalk'.todo = pcWalk.todo
          /\ pcWalk'.st = IF pcUpd = "nil" THEN "panic" ELSE "gauges"
          /\ pcWalk' \in [st : PcStages, todo : {pcWalk'.todo}, send : Seq(PcRows)]
      BY <2>1 DEF PcStages
    <2>3. PcWalking'
      BY <1>1, <2>1, <2>2 DEF PcInv, PcWalking
    <2> QED
      BY <1>1, <2>2, <2>3, PcStill DEF PcInv, PcTypes, PcPointers
  <1>6. CASE PcList
    <2>1. PICK d, t : pcWalk' = [st |-> t, todo |-> d, send |-> <<>>] /\ t \in {"idle", "swap"}
      BY <1>6 DEF PcList, PcIdle, PcWalkTo
    <2>2. pcWalk'.send = <<>> /\ pcWalk'.st = t /\ pcWalk' \in [st : PcStages, todo : {pcWalk'.todo}, send : Seq(PcRows)]
      BY <1>2, <2>1 DEF PcStages
    <2>3. PcWalking'
      BY <1>1, <2>1, <2>2 DEF PcWalking
    <2>4. pcWalk'.send = pcWalk.send
      BY <1>1, <2>2
    <2> QED
      BY <1>1, <2>3, <2>4, PcStill DEF PcInv, PcTypes, PcPointers
  <1> QED
    BY <1>3, <1>4, <1>5, <1>6

\* A gauge creates a new pointer, for a gauge only.
LEMMA PcGaugeKeeps == ASSUME PcInv, NEW k \in PcKeys, PcGauge(k) PROVE PcInv'
  <1>1. /\ pcWalk.st = "gauges" /\ k \in PcGauges
        /\ pcWalk \in [st : PcStages, todo : {pcWalk.todo}, send : Seq(PcRows)]
        /\ pcWalk' = [pcWalk EXCEPT !.todo = @ \ {k}]
        /\ pcGen' = [pcGen EXCEPT ![k] = @ + 1] /\ pcVal' = [pcVal EXCEPT ![k] = 0]
        /\ UNCHANGED <<pcUpd, pcUnset, pcCall, pcQ, pcHand, pcOut, pcAcc, pcRep>>
    BY DEF PcInv, PcWalking, PcGauge, PcSetNew, pcLifeVars, pcCallVars
  <1>2. /\ pcWalk'.send = pcWalk.send /\ pcWalk'.todo = pcWalk.todo \ {k} /\ pcWalk'.st = "gauges"
        /\ pcWalk' \in [st : PcStages, todo : {pcWalk'.todo}, send : Seq(PcRows)]
    BY <1>1 DEF PcStages
  <1>3. PcWalking'
    BY <1>1, <1>2 DEF PcInv, PcWalking
  <1>4. /\ pcGen' \in [PcKeys -> Nat] /\ pcVal' \in [PcKeys -> Nat]
        /\ \A j \in PcKeys : pcGen[j] # 0 => pcGen'[j] # 0
        /\ \A j \in PcKeys \ PcGauges : pcGen'[j] = pcGen[j] /\ pcVal'[j] = pcVal[j]
    BY <1>1 DEF PcInv, PcTypes
  <1>5. pcHand.st # "free" => pcHand.key \in PcKeys
    BY DEF PcInv, PcTypes, PcHands, PcFree
  <1>6. PcTypes'
    BY <1>1, <1>4 DEF PcInv, PcTypes
  <1>7. PcPointers'
    BY <1>1, <1>4, <1>5 DEF PcInv, PcPointers
  <1>8. PcBalance'
    <2> SUFFICES ASSUME NEW j \in PcKeys \ PcGauges PROVE pcAcc'[j] = PcAccounted(j)'
      BY DEF PcBalance
    <2> QED
      BY <1>1, <1>2, <1>4, PcTerms DEF PcAccounted
  <1> QED
    BY <1>3, <1>6, <1>7, <1>8 DEF PcInv

\* A swap moves what is behind a pointer into a row.
LEMMA PcSwapKeeps ==
    ASSUME PcInv, NEW e, e[1] \in PcKeys, PcSwap(e)
    PROVE  PcInv'
  <1>1. PICK k, cur, r, x : k = e[1] /\ cur = (e[2] = pcGen[k]) /\ x = (IF cur THEN pcVal[k] ELSE 0)
                            /\ r = [key |-> k, v |-> x]
    OBVIOUS
  <1>2. /\ pcWalk.st = "swap" /\ k \in PcKeys /\ cur \in BOOLEAN
        /\ pcWalk' = [st |-> "swap", todo |-> pcWalk.todo \ {e}, send |-> Append(pcWalk.send, r)]
        /\ pcVal' = IF cur THEN [pcVal EXCEPT ![k] = 0] ELSE pcVal
        /\ UNCHANGED <<pcUpd, pcUnset, pcCall, pcGen, pcQ, pcHand, pcOut, pcAcc, pcRep>>
    BY <1>1 DEF PcSwap, PcWalkTo, pcLifeVars, pcCallVars
  <1>3. r \in PcRows /\ r.key = k /\ r.v = x /\ x \in Nat
    <2>1. pcVal[k] \in Nat
      BY <1>2 DEF PcInv, PcTypes
    <2>2. x \in Nat
      BY <1>1, <1>2, <2>1
    <2> QED
      BY <1>1, <1>2, <2>2 DEF PcRows
  <1>4. pcWalk.send \in Seq(PcRows)
    BY DEF PcInv, PcWalking
  <1>5. pcWalk'.send = Append(pcWalk.send, r) /\ pcWalk'.st = "swap" /\ Append(pcWalk.send, r) \in Seq(PcRows)
    BY <1>2, <1>3, <1>4
  <1>6. PcWalking'
    BY <1>2, <1>5 DEF PcWalking, PcStages
  <1>7. /\ pcVal' \in [PcKeys -> Nat] /\ \A j \in PcKeys : j # k => pcVal'[j] = pcVal[j]
        /\ \A j \in PcKeys : pcVal[j] = 0 => pcVal'[j] = 0
    BY <1>2 DEF PcInv, PcTypes
  <1>8. pcVal'[k] = pcVal[k] - x
    <2>1. pcVal[k] \in Nat /\ pcVal \in [PcKeys -> Nat]
      BY <1>2 DEF PcInv, PcTypes
    <2>2. CASE cur
      BY <1>1, <1>2, <2>1, <2>2
    <2>3. CASE ~cur
      BY <1>1, <1>2, <2>1, <2>3
    <2> QED
      BY <1>2, <2>2, <2>3
  <1>9. PcTypes' /\ PcPointers'
    BY <1>2, <1>7 DEF PcInv, PcTypes, PcPointers
  <1>10. PcBalance'
    <2> SUFFICES ASSUME NEW j \in PcKeys \ PcGauges PROVE pcAcc'[j] = PcAccounted(j)'
      BY DEF PcBalance
    <2>1. PICK t : t = IF k = j THEN x ELSE 0
      OBVIOUS
    <2>2. PcIn(pcWalk'.send, j) = PcIn(pcWalk.send, j) + t
      <3>1. PcIn(Append(pcWalk.send, r), j) = PcIn(pcWalk.send, j) + (IF r.key = j THEN r.v ELSE 0)
        BY <1>3, <1>4, PcInAppend
      <3> QED
        BY <1>3, <1>5, <2>1, <3>1
    <2>3. t \in Nat /\ pcVal'[j] = pcVal[j] - t
      BY <1>3, <1>7, <1>8, <2>1, PcTerms
    <2>4. PcAccounted(j)' = RtTimes(pcQ, j) + PcAt(pcHand, j) + pcVal'[j] + PcIn(pcWalk'.send, j)
                            + PcOutIn(pcOut, j) + pcRep[j]
      BY <1>2 DEF PcAccounted
    <2> QED
      BY <1>2, <2>2, <2>3, <2>4, PcTerms DEF PcAccounted
  <1> QED
    BY <1>6, <1>9, <1>10 DEF PcInv

\* The rows are cut into batches.
LEMMA PcSendAllKeeps == ASSUME PcInv, PcSendAll PROVE PcInv'
  <1>1. PICK s, o : s = pcWalk.send /\ o = SliceCutter(s, PcSendCount)
    OBVIOUS
  <1>2. /\ s \in Seq(PcRows) /\ pcOut' = pcOut \o o /\ pcWalk' = PcIdle /\ pcOut \in Seq(Seq(PcRows))
        /\ UNCHANGED <<pcUpd, pcUnset, pcCall, pcGen, pcVal, pcQ, pcHand, pcAcc, pcRep>>
    BY <1>1 DEF PcInv, PcTypes, PcWalking, PcSendAll, pcLifeVars, pcCallVars
  <1>3. o \in Seq(Seq(PcRows)) /\ \A k : PcOutIn(o, k) = PcIn(s, k)
    BY <1>1, <1>2, PcAssumption, PcOutSlices
  <1>4. pcWalk'.send = <<>> /\ PcWalking'
    <2>1. <<>> \in Seq(PcRows)
      OBVIOUS
    <2> QED
      BY <1>2, <2>1 DEF PcWalking, PcIdle, PcStages
  <1>5. PcTypes' /\ PcPointers'
    <2>1. PICK R : R = Seq(PcRows)
      OBVIOUS
    <2>2. pcOut' \in Seq(R)
      BY <1>2, <1>3, <2>1, ConcatProperties
    <2>3. pcOut' \in Seq(Seq(PcRows))
      BY <2>1, <2>2
    <2> QED
      BY <1>2, <2>3 DEF PcInv, PcTypes, PcPointers
  <1>6. PcBalance'
    <2> SUFFICES ASSUME NEW j \in PcKeys \ PcGauges PROVE pcAcc'[j] = PcAccounted(j)'
      BY DEF PcBalance
    <2>1. PcIn(pcWalk'.send, j) = 0
      BY <1>4, PcInEmpty
    <2>2. PcOutIn(pcOut', j) = PcOutIn(pcOut, j) + PcIn(pcWalk.send, j)
      BY <1>1, <1>2, <1>3, PcOutCat
    <2>3. PcAccounted(j)' = RtTimes(pcQ, j) + PcAt(pcHand, j) + pcVal[j] + PcIn(pcWalk'.send, j)
                            + PcOutIn(pcOut', j) + pcRep[j]
      BY <1>2 DEF PcAccounted
    <2> QED
      BY <1>2, <2>1, <2>2, <2>3, PcTerms DEF PcAccounted
  <1> QED
    BY <1>4, <1>5, <1>6 DEF PcInv

\* A batch is posted, or given up after one attempt.
LEMMA PcPostKeeps == ASSUME PcInv, NEW i \in DOMAIN pcOut, PcPost(i) PROVE PcInv'
  <1>1. /\ pcOut \in Seq(Seq(PcRows)) /\ i \in 1..Len(pcOut) /\ pcOut' = RemoveAt(pcOut, i)
        /\ pcRep' = [k \in PcKeys |-> pcRep[k] + PcIn(pcOut[i], k)]
        /\ UNCHANGED <<pcUpd, pcUnset, pcCall, pcGen, pcVal, pcQ, pcHand, pcAcc, pcWalk>>
    BY DEF PcInv, PcTypes, PcPost, pcLifeVars, pcCallVars
  <1>2. pcOut' \in Seq(Seq(PcRows)) /\ \A k : PcOutIn(pcOut', k) = PcOutIn(pcOut, k) - PcIn(pcOut[i], k)
    BY <1>1, PcOutRemove
  <1>3. \A k : PcIn(pcOut[i], k) \in Nat
    BY <1>1, PcOutIs
  <1>4. pcRep' \in [PcKeys -> Nat]
    BY <1>1, <1>3 DEF PcInv, PcTypes
  <1>5. PcTypes' /\ PcPointers' /\ PcWalking'
    BY <1>1, <1>2, <1>4 DEF PcInv, PcTypes, PcPointers, PcWalking
  <1>6. PcBalance'
    <2> SUFFICES ASSUME NEW j \in PcKeys \ PcGauges PROVE pcAcc'[j] = PcAccounted(j)'
      BY DEF PcBalance
    <2>1. pcRep'[j] = pcRep[j] + PcIn(pcOut[i], j)
      BY <1>1
    <2>2. PcAccounted(j)' = RtTimes(pcQ, j) + PcAt(pcHand, j) + pcVal[j] + PcIn(pcWalk.send, j)
                            + PcOutIn(pcOut', j) + pcRep'[j]
      BY <1>1 DEF PcAccounted
    <2>3. PICK x : x = PcIn(pcOut[i], j)
      OBVIOUS
    <2>4. x \in Nat /\ pcRep'[j] = pcRep[j] + x /\ PcOutIn(pcOut', j) = PcOutIn(pcOut, j) - x
      BY <1>2, <1>3, <2>1, <2>3
    <2> QED
      BY <1>1, <2>2, <2>4, PcTerms DEF PcAccounted
  <1> QED
    BY <1>5, <1>6 DEF PcInv

LEMMA PcStep == PcInv /\ [PcNext]_pcVars => PcInv'
  <1> SUFFICES ASSUME PcInv, [PcNext]_pcVars PROVE PcInv'
    OBVIOUS
  <1>1. CASE (\E u \in {"nil", "set"} : InitPerfCounter(u)) \/ ClosePerfCounter \/ UNCHANGED pcVars
             \/ \E c \in PcCallers, k \in PcKeys : PcIncr(c, k)
    BY <1>1, PcLifeKeeps
  <1>2. CASE \E c \in PcCallers : PcIncrSend(c)
    BY <1>2, PcSendKeeps
  <1>3. CASE PcTake \/ PcCreate \/ PcLoad \/ PcAdd
    BY <1>3, PcTakeKeeps, PcCreateKeeps, PcLoadKeeps, PcAddKeeps
  <1>4. CASE PcTick \/ PcWalkEnds \/ PcUpdate \/ PcList
    BY <1>4, PcStageKeeps
  <1>5. CASE PcSendAll \/ \E k \in PcKeys : PcGauge(k)
    BY <1>5, PcSendAllKeeps, PcGaugeKeeps
  <1>6. CASE \E e \in pcWalk.todo \cap (PcKeys \X (1 .. PcReports + PcCalls)) : PcSwap(e)
    <2>1. PICK e \in pcWalk.todo \cap (PcKeys \X (1 .. PcReports + PcCalls)) : PcSwap(e)
      BY <1>6
    <2>2. e[1] \in PcKeys
      OBVIOUS
    <2> QED
      BY <2>1, <2>2, PcSwapKeeps
  <1>7. CASE \E i \in DOMAIN pcOut : PcPost(i)
    BY <1>7, PcPostKeeps
  <1> QED
    BY <1>1, <1>2, <1>3, <1>4, <1>5, <1>6, <1>7 DEF PcNext

\* The report tells the truth (pc.go:260-323), for any number of callers, keys,
\* places in the channel and rows in a batch: no increment of a key without a gauge
\* is lost or doubled on its way from the channel through handler, counter and
\* walk to a batch that is posted, and the walk calls a nil updater only when one
\* was taken away after the check.
THEOREM ReportIsExact == PcSpec => []PcExact
<1>1. PcInv => PcExact
  BY PcBalanceIs DEF PcInv, PcWalking, PcExact, PcUpdaterChecked
<1> QED
  BY <1>1, PcInitHolds, PcStep, PTL DEF PcSpec

-----------------------------------------------------------------------------
(* Statistics: the counters of an entry agree.                             *)

LEMMA SumZero ==
    ASSUME NEW S, IsFiniteSet(S), NEW f, \A x \in S : f[x] = 0
    PROVE  SumFunctionOnSet(f, S) = 0
  <1> DEFINE Sm(s) == SumFunctionOnSet(f, s)
  <1>0. \A s \in SUBSET S : IsFiniteSet(s) /\ Cardinality(s) \in Nat /\ \A x \in s : f[x] \in Int
    BY FS_Subset, FS_CardinalityType
  <1>1. \A s \in SUBSET S : s # {} => Sm(s) = f[FirstOf(s)] + Sm(s \ {FirstOf(s)})
    BY <1>0, SumUnfold
  <1>2. Sm({}) = 0
    BY SumEmpty
  <1> HIDE DEF Sm
  <1>3. PICK B : B = {n \in Nat : \E s \in SUBSET S : n = Cardinality(s) /\ Sm(s) # 0}
    OBVIOUS
  <1>4. ASSUME B # {} PROVE FALSE
    <2>1. PICK n \in B : \A k \in B : n <= k
      BY <1>3, <1>4, RtLeast
    <2>2. PICK s \in SUBSET S : n = Cardinality(s) /\ Sm(s) # 0
      BY <1>3, <2>1
    <2>3. PICK c : c = FirstOf(s)
      OBVIOUS
    <2>4. s # {}
      BY <1>2, <2>2
    <2>5. c \in s /\ Sm(s) = f[c] + Sm(s \ {c})
      BY <1>1, <2>3, <2>4, FirstIsIn
    <2>6. Cardinality(s \ {c}) = n - 1 /\ n - 1 \in Nat
      BY <1>0, <2>2, <2>5, RtLess
    <2>7. Sm(s \ {c}) = 0 /\ f[c] = 0
      BY <1>3, <2>1, <2>5, <2>6
    <2> QED
      BY <2>2, <2>5, <2>7
  <1> QED
    BY <1>0, <1>3, <1>4 DEF Sm

StLimits == {10, 100, 500}
StEntries == [total : Nat, sum : Nat, max : Nat, min : Nat, gt : [StLimits -> Nat]]

\* The counters of an entry agree with each other.
StAgrees(v) == /\ v.min * v.total <= v.sum /\ v.sum <= v.max * v.total
               /\ SumFunction(v.gt) <= v.total

LEMMA StLimitsFinite == IsFiniteSet(StLimits)
  <1>1. PICK a, b, c : a = {10} /\ b = a \cup {100} /\ c = b \cup {500}
    OBVIOUS
  <1>2. IsFiniteSet(a)
    BY <1>1, FS_Singleton
  <1>3. IsFiniteSet(b)
    BY <1>1, <1>2, FS_AddElement
  <1>4. IsFiniteSet(c)
    BY <1>1, <1>3, FS_AddElement
  <1>5. StLimits = c
    BY <1>1 DEF StLimits
  <1> QED
    BY <1>4, <1>5

LEMMA StNoneAgrees == StNone \in StEntries /\ StAgrees(StNone) /\ StNone.total = 0
  <1>1. StNone \in StEntries /\ StNone.total = 0 /\ StNone.sum = 0 /\ StNone.min = 0 /\ StNone.max = 0
    BY DEF StNone, StEntries, StLimits
  <1>2. PICK g : g = StNone.gt
    OBVIOUS
  <1>3. DOMAIN g = StLimits /\ \A x \in StLimits : g[x] = 0
    BY <1>2 DEF StNone, StLimits
  <1>4. SumFunction(g) = 0
    BY <1>3, StLimitsFinite, SumZero DEF SumFunction
  <1> QED
    BY <1>1, <1>2, <1>4 DEF StAgrees

\* One value of a function on a finite set goes up by one.
LEMMA StSumUp ==
    ASSUME NEW S, IsFiniteSet(S), NEW f \in [S -> Nat], NEW e \in [S -> Nat], NEW a \in S,
           e[a] = f[a] + 1, \A x \in S \ {a} : e[x] = f[x]
    PROVE  SumFunction(e) = SumFunction(f) + 1 /\ SumFunction(f) \in Nat /\ SumFunction(e) \in Nat
  <1>1. (\A x \in S : f[x] \in Int) /\ e[a] \in Int /\ DOMAIN e = S /\ DOMAIN f = S
    OBVIOUS
  <1>2. SumFunctionOnSet(e, S) = SumFunctionOnSet(f, S) + (e[a] - f[a])
    BY <1>1, SumChanged
  <1>3. SumFunctionOnSet(f, S) \in Nat /\ SumFunctionOnSet(e, S) \in Nat
    BY SumNat
  <1>4. e[a] - f[a] = 1
    OBVIOUS
  <1> QED
    BY <1>1, <1>2, <1>3, <1>4 DEF SumFunction

\* At most one of the classes of duration counts an operation.
LEMMA StGtGrows ==
    ASSUME NEW v \in StEntries, NEW d \in Nat
    PROVE  /\ StEntry(v, d).gt \in [StLimits -> Nat]
           /\ SumFunction(StEntry(v, d).gt) <= SumFunction(v.gt) + 1
           /\ SumFunction(StEntry(v, d).gt) \in Nat /\ SumFunction(v.gt) \in Nat
  <1>1. PICK f, e : f = v.gt /\ e = StEntry(v, d).gt
    OBVIOUS
  <1>2. e = [c \in StLimits |-> f[c] + (IF c <= d /\ (c # 500 => d < (IF c = 10 THEN 100 ELSE 500)) THEN 1 ELSE 0)]
    BY <1>1 DEF StEntry, StLimits
  <1>3. f \in [StLimits -> Nat]
    BY <1>1 DEF StEntries
  <1>4. e \in [StLimits -> Nat]
    BY <1>2, <1>3
  <1>5. \/ \A c \in StLimits : e[c] = f[c]
        \/ \E a \in StLimits : e[a] = f[a] + 1 /\ \A c \in StLimits \ {a} : e[c] = f[c]
    <2>1. CASE d < 10
      BY <1>2, <1>3, <2>1 DEF StLimits
    <2>2. CASE 10 <= d /\ d < 100
      <3>1. e[10] = f[10] + 1 /\ \A c \in StLimits \ {10} : e[c] = f[c]
        BY <1>2, <1>3, <2>2 DEF StLimits
      <3> QED
        BY <3>1 DEF StLimits
    <2>3. CASE 100 <= d /\ d < 500
      <3>1. e[100] = f[100] + 1 /\ \A c \in StLimits \ {100} : e[c] = f[c]
        BY <1>2, <1>3, <2>3 DEF StLimits
      <3> QED
        BY <3>1 DEF StLimits
    <2>4. CASE 500 <= d
      <3>1. e[500] = f[500] + 1 /\ \A c \in StLimits \ {500} : e[c] = f[c]
        BY <1>2, <1>3, <2>4 DEF StLimits
      <3> QED
        BY <3>1 DEF StLimits
    <2> QED
      BY <2>1, <2>2, <2>3, <2>4
  <1>6. SumFunction(f) \in Nat /\ SumFunction(e) \in Nat
    <2>1. DOMAIN f = StLimits /\ DOMAIN e = StLimits /\ \A c \in StLimits : f[c] \in Nat /\ e[c] \in Nat
      BY <1>3, <1>4
    <2> QED
      BY <2>1, StLimitsFinite, SumNat DEF SumFunction
  <1>7. CASE \A c \in StLimits : e[c] = f[c]
    <2>1. e = f
      BY <1>3, <1>4, <1>7
    <2> QED
      BY <1>1, <1>4, <1>6, <2>1
  <1>8. CASE \E a \in StLimits : e[a] = f[a] + 1 /\ \A c \in StLimits \ {a} : e[c] = f[c]
    <2>1. SumFunction(e) = SumFunction(f) + 1
      BY <1>3, <1>4, <1>8, StLimitsFinite, StSumUp
    <2> QED
      BY <1>1, <1>4, <1>6, <2>1
  <1> QED
    BY <1>5, <1>7, <1>8

LEMMA TimesMono == ASSUME NEW a \in Nat, NEW b \in Nat, NEW t \in Nat, a <= b PROVE a * t <= b * t
  <1>1. t * a <= t * b
    BY TimesLess
  <1> QED
    BY <1>1

LEMMA StEntryAgrees ==
    ASSUME NEW v \in StEntries, NEW d \in Nat, StAgrees(v)
    PROVE  StEntry(v, d) \in StEntries /\ StAgrees(StEntry(v, d)) /\ StEntry(v, d).total = v.total + 1
  <1>1. PICK e : e = StEntry(v, d)
    OBVIOUS
  <1>2. PICK t, s, mx, mn, g : t = v.total /\ s = v.sum /\ mx = v.max /\ mn = v.min /\ g = v.gt
    OBVIOUS
  <1>3. t \in Nat /\ s \in Nat /\ mx \in Nat /\ mn \in Nat
    BY <1>2 DEF StEntries
  <1>4. /\ e.total = t + 1 /\ e.sum = s + d
        /\ e.max = (IF t = 0 \/ d > mx THEN d ELSE mx) /\ e.min = (IF t = 0 \/ d < mn THEN d ELSE mn)
    BY <1>1, <1>2 DEF StEntry
  <1>5. e.gt \in [StLimits -> Nat] /\ SumFunction(e.gt) <= SumFunction(g) + 1 /\ SumFunction(g) \in Nat /\ SumFunction(e.gt) \in Nat
    BY <1>1, <1>2, StGtGrows
  <1>6. e \in StEntries
    <2>1. e = [total |-> e.total, sum |-> e.sum, max |-> e.max, min |-> e.min, gt |-> e.gt]
      BY <1>1 DEF StEntry
    <2>2. e.total \in Nat /\ e.sum \in Nat /\ e.max \in Nat /\ e.min \in Nat
      BY <1>3, <1>4
    <2> QED
      BY <1>5, <2>1, <2>2 DEF StEntries
  <1>7. mn * t <= s /\ s <= mx * t /\ SumFunction(g) <= t
    BY <1>2 DEF StAgrees
  <1>8. PICK a, b : a = e.min /\ b = e.max
    OBVIOUS
  <1>9. a \in Nat /\ b \in Nat /\ a <= d /\ d <= b /\ (t # 0 => a <= mn /\ mx <= b)
    BY <1>3, <1>4, <1>8
  <1>10. a * t <= s /\ s <= b * t
    <2>1. CASE t = 0
      <3>1. s = 0
        BY <1>3, <1>7, <2>1
      <3> QED
        BY <1>9, <2>1, <3>1
    <2>2. CASE t # 0
      <3>1. a * t <= mn * t /\ mx * t <= b * t
        BY <1>3, <1>9, <2>2, TimesMono
      <3>2. a * t \in Nat /\ b * t \in Nat /\ mn * t \in Nat /\ mx * t \in Nat
        BY <1>3, <1>9
      <3> QED
        BY <1>3, <1>7, <3>1, <3>2
    <2> QED
      BY <2>1, <2>2
  <1>11. a * (t + 1) <= s + d /\ s + d <= b * (t + 1)
    <2>1. a * (t + 1) = a * t + a /\ b * (t + 1) = b * t + b /\ a * t \in Nat /\ b * t \in Nat
      BY <1>3, <1>9
    <2> QED
      BY <1>3, <1>9, <1>10, <2>1
  <1>12. SumFunction(e.gt) <= t + 1
    BY <1>3, <1>5, <1>7
  <1>13. StAgrees(e)
    BY <1>4, <1>8, <1>11, <1>12 DEF StAgrees
  <1> QED
    BY <1>1, <1>2, <1>4, <1>6, <1>13

-----------------------------------------------------------------------------
(* Statistics: every operation is counted once, under its command.         *)

StObjects == [cmd : StCmds, ret : StRets, d : Nat, open : BOOLEAN]
StTypes ==
    /\ stObj \in [StStats -> StObjects] /\ stQ \in Seq(StStats)
    /\ stM \in [StCmds \X StRets -> StEntries]
    /\ stDisk \in [0..StFiles -> SUBSET Nat] /\ stDumps \in Nat
    /\ stEnded \in [StCmds -> Nat] /\ stOut \in Nat /\ stReused \in BOOLEAN

\* Every queued operation is in one place, and every entry agrees.
StTotals(m) == [c \in DOMAIN m |-> m[c].total]
StSums == /\ SumFunction(stEnded) = Len(stQ) + SumFunction(StTotals(stM)) + stOut
          /\ \A c \in DOMAIN stM : StAgrees(stM[c])

\* While no Stat was begun again in the queue: what is queued has ended, and what is
\* queued or counted for a command was ended for it.
StQueuedCmds(q, o) == [i \in DOMAIN q |-> o[q[i]].cmd]
StOwn == ~stReused =>
    /\ \A i \in DOMAIN stQ : ~stObj[stQ[i]].open
    /\ \A cmd \in StCmds : stM[<<cmd, 0>>].total + stM[<<cmd, -1>>].total
                           + RtTimes(StQueuedCmds(stQ, stObj), cmd) <= stEnded[cmd]

\* Dumps are numbered as they are written.
StNumbered == \A i \in 0..StFiles : stDisk[i] \subseteq 1..stDumps

StInv == StTypes /\ StSums /\ StOwn /\ StNumbered /\ StRotates

LEMMA StKeysFinite == IsFiniteSet(StCmds \X StRets) /\ IsFiniteSet(StCmds)
  <1>1. IsFiniteSet({0}) /\ IsFiniteSet({0} \cup {-1}) /\ StRets = {0} \cup {-1}
    BY FS_Singleton, FS_AddElement DEF StRets
  <1> QED
    BY <1>1, StAssumption, FS_Product

LEMMA StTotalsIs ==
    ASSUME NEW m \in [StCmds \X StRets -> StEntries]
    PROVE  StTotals(m) \in [StCmds \X StRets -> Nat] /\ SumFunction(StTotals(m)) \in Nat
  <1>1. PICK t : t = StTotals(m)
    OBVIOUS
  <1>2. t \in [StCmds \X StRets -> Nat]
    BY <1>1 DEF StTotals, StEntries
  <1>3. SumFunction(t) \in Nat
    <2>1. DOMAIN t = StCmds \X StRets /\ \A c \in StCmds \X StRets : t[c] \in Nat
      BY <1>2
    <2> QED
      BY <2>1, StKeysFinite, SumNat DEF SumFunction
  <1> QED
    BY <1>1, <1>2, <1>3

\* No operation is in an m that is empty.
LEMMA StEmptyM ==
    ASSUME NEW m, m = [c \in StCmds \X StRets |-> StNone]
    PROVE  /\ m \in [StCmds \X StRets -> StEntries] /\ SumFunction(StTotals(m)) = 0
           /\ \A c \in StCmds \X StRets : StAgrees(m[c]) /\ m[c].total = 0
  <1>1. m \in [StCmds \X StRets -> StEntries] /\ \A c \in StCmds \X StRets : StAgrees(m[c]) /\ m[c].total = 0
    BY StNoneAgrees
  <1>2. PICK t : t = StTotals(m)
    OBVIOUS
  <1>3. DOMAIN t = StCmds \X StRets /\ \A c \in StCmds \X StRets : t[c] = 0
    BY <1>1, <1>2 DEF StTotals
  <1>4. SumFunction(t) = 0
    BY <1>3, StKeysFinite, SumZero DEF SumFunction
  <1> QED
    BY <1>1, <1>2, <1>4

LEMMA StQueuedIs ==
    ASSUME NEW q \in Seq(StStats), NEW o \in [StStats -> StObjects]
    PROVE  /\ StQueuedCmds(q, o) \in Seq(StCmds) /\ Len(StQueuedCmds(q, o)) = Len(q)
           /\ DOMAIN q = 1..Len(q) /\ Len(q) \in Nat
           /\ \A i \in 1..Len(q) : q[i] \in StStats /\ StQueuedCmds(q, o)[i] = o[q[i]].cmd
  <1>1. Len(q) \in Nat /\ DOMAIN q = 1..Len(q) /\ \A i \in 1..Len(q) : q[i] \in StStats
    OBVIOUS
  <1>2. PICK c, n : c = StQueuedCmds(q, o) /\ n = Len(q)
    OBVIOUS
  <1>3. \A i \in 1..n : o[q[i]].cmd \in StCmds
    BY <1>1, <1>2 DEF StObjects
  <1>4. c = [i \in 1..n |-> o[q[i]].cmd]
    BY <1>1, <1>2 DEF StQueuedCmds
  <1>5. c \in [1..n -> StCmds] /\ \A i \in 1..n : c[i] = o[q[i]].cmd
    BY <1>3, <1>4
  <1>6. c \in Seq(StCmds) /\ Len(c) = n
    BY <1>1, <1>2, <1>5
  <1> QED
    BY <1>1, <1>2, <1>5, <1>6

LEMMA StInitHolds == StInit => StInv
  <1> SUFFICES ASSUME StInit PROVE StInv
    OBVIOUS
  <1>1. stM = [c \in StCmds \X StRets |-> StNone] /\ stQ = <<>> /\ stOut = 0 /\ stReused = FALSE
    BY DEF StInit
  <1>2. StTypes
    <2>1. stM \in [StCmds \X StRets -> StEntries]
      BY <1>1, StEmptyM
    <2>2. [cmd |-> CHOOSE c \in StCmds : TRUE, ret |-> 0, d |-> 1, open |-> FALSE] \in StObjects
      BY StAssumption DEF StObjects, StRets
    <2>3. stObj \in [StStats -> StObjects]
      BY <2>2 DEF StInit
    <2>6. stReused \in BOOLEAN
      BY <1>1, Zenon
    <2>7. <<>> \in Seq(StStats)
      OBVIOUS
    <2>4. stQ \in Seq(StStats) /\ stOut \in Nat /\ stReused \in BOOLEAN
      BY <1>1, <2>6, <2>7
    <2>5. stDisk \in [0..StFiles -> SUBSET Nat] /\ stDumps \in Nat /\ stEnded \in [StCmds -> Nat]
      BY DEF StInit
    <2> QED
      BY <2>1, <2>3, <2>4, <2>5 DEF StTypes
  <1>3. StSums
    <2>1. SumFunction(StTotals(stM)) = 0 /\ \A c \in DOMAIN stM : StAgrees(stM[c])
      BY <1>1, StEmptyM
    <2>2. SumFunction(stEnded) = 0
      <3>1. DOMAIN stEnded = StCmds /\ \A c \in StCmds : stEnded[c] = 0
        BY DEF StInit
      <3> QED
        BY <3>1, StKeysFinite, SumZero DEF SumFunction
    <2> QED
      BY <1>1, <2>1, <2>2 DEF StSums
  <1>4. StOwn
    <2>1. DOMAIN stQ = {}
      BY <1>1
    <2>2. ASSUME NEW cmd \in StCmds PROVE RtTimes(StQueuedCmds(stQ, stObj), cmd) = 0
      <3>1. PICK c : c = StQueuedCmds(stQ, stObj)
        OBVIOUS
      <3>2. DOMAIN c = {}
        BY <2>1, <3>1 DEF StQueuedCmds
      <3>3. {i \in DOMAIN c : c[i] = cmd} = {}
        BY <3>2
      <3> QED
        BY <3>1, <3>3, FS_EmptySet DEF RtTimes
    <2>3. ASSUME NEW cmd \in StCmds
          PROVE  stM[<<cmd, 0>>].total = 0 /\ stM[<<cmd, -1>>].total = 0 /\ stEnded[cmd] = 0
      <3>1. <<cmd, 0>> \in StCmds \X StRets /\ <<cmd, -1>> \in StCmds \X StRets
        BY DEF StRets
      <3>2. \A c \in StCmds \X StRets : stM[c].total = 0
        BY <1>1, StEmptyM
      <3> QED
        BY <3>1, <3>2 DEF StInit
    <2> QED
      BY <2>1, <2>2, <2>3 DEF StOwn
  <1>5. StNumbered /\ StRotates
    BY DEF StInit, StNumbered, StRotates
  <1> QED
    BY <1>2, <1>3, <1>4, <1>5 DEF StInv

\* Begin: only the object changes, which is not queued or marks the run.
LEMMA StBeginKeeps == ASSUME StInv, NEW s \in StStats, NEW cmd \in StCmds, StBegin(s, cmd) PROVE StInv'
  <1>1. /\ stObj' = [stObj EXCEPT ![s].cmd = cmd, ![s].open = TRUE]
        /\ stReused' = (stReused \/ s \in ToSet(stQ))
        /\ UNCHANGED <<stQ, stM, stFile, stDisk, stDumps, stEnded, stOut>>
    BY DEF StBegin
  <1>2. stObj \in [StStats -> StObjects] /\ stQ \in Seq(StStats) /\ stReused \in BOOLEAN
    BY DEF StInv, StTypes
  <1>3. stObj' \in [StStats -> StObjects] /\ \A x \in StStats \ {s} : stObj'[x] = stObj[x]
    BY <1>1, <1>2 DEF StObjects
  <1>4. StTypes' /\ StSums' /\ StNumbered' /\ StRotates'
    BY <1>1, <1>2, <1>3 DEF StInv, StTypes, StSums, StNumbered, StRotates
  <1>5. StOwn'
    <2> SUFFICES ASSUME ~stReused' PROVE StOwn'
      BY DEF StOwn
    <2>0. ~stReused /\ s \notin ToSet(stQ)
      BY <1>1, Zenon
    <2>1. ~stReused /\ \A i \in DOMAIN stQ : stQ[i] \in StStats \ {s}
      BY <1>2, <2>0 DEF ToSet
    <2>2. StQueuedCmds(stQ', stObj') = StQueuedCmds(stQ, stObj)
      BY <1>1, <1>3, <2>1 DEF StQueuedCmds
    <2>3. \A i \in DOMAIN stQ' : ~stObj'[stQ'[i]].open
      BY <1>1, <1>3, <2>1 DEF StInv, StOwn
    <2> QED
      BY <1>1, <2>1, <2>2, <2>3 DEF StInv, StOwn
  <1> QED
    BY <1>4, <1>5 DEF StInv

LEMMA StEndKeeps ==
    ASSUME StInv, NEW s \in StStats, NEW r \in StRets, NEW d \in StDurations, StEnd(s, r, d)
    PROVE  StInv'
  <1>1. /\ stObj[s].open /\ stObj' = [stObj EXCEPT ![s].ret = r, ![s].d = d, ![s].open = FALSE]
        /\ UNCHANGED <<stM, stFile, stDisk, stDumps, stOut, stReused>>
        /\ \/ UNCHANGED <<stQ, stEnded>>
           \/ stQ' = Append(stQ, s) /\ stEnded' = [stEnded EXCEPT ![stObj[s].cmd] = @ + 1]
    BY DEF StEnd
  <1>2. stObj \in [StStats -> StObjects] /\ stQ \in Seq(StStats) /\ stEnded \in [StCmds -> Nat]
    BY DEF StInv, StTypes
  <1>3. /\ stObj' \in [StStats -> StObjects] /\ \A x \in StStats \ {s} : stObj'[x] = stObj[x]
        /\ \A x \in StStats : stObj'[x].cmd = stObj[x].cmd /\ (stObj'[x].open => stObj[x].open)
        /\ ~stObj'[s].open
    <2>1. PICK o, p : o = stObj[s] /\ p = [[[o EXCEPT !.ret = r] EXCEPT !.d = d] EXCEPT !.open = FALSE]
      OBVIOUS
    <2>2. o \in StObjects /\ d \in Nat
      BY <1>2, <2>1 DEF StDurations
    <2>3. p \in StObjects /\ p.cmd = o.cmd /\ ~p.open
      BY <2>1, <2>2 DEF StObjects
    <2>4. stObj' = [stObj EXCEPT ![s] = p]
      BY <1>1, <1>2, <2>1, <2>2 DEF StObjects
    <2> QED
      BY <1>1, <1>2, <2>1, <2>3, <2>4
  <1>4. PICK c : c = stObj[s].cmd
    OBVIOUS
  <1>5. c \in StCmds
    BY <1>2, <1>4 DEF StObjects
  <1>6. StQueuedCmds(stQ, stObj') = StQueuedCmds(stQ, stObj)
    <2>1. \A i \in DOMAIN stQ : stQ[i] \in StStats
      BY <1>2
    <2> QED
      BY <1>3, <2>1 DEF StQueuedCmds
  <1>7. StNumbered' /\ StRotates'
    BY <1>1 DEF StInv, StNumbered, StRotates
  <1>8. CASE UNCHANGED <<stQ, stEnded>>
    <2>1. StTypes' /\ StSums'
      BY <1>1, <1>3, <1>8 DEF StInv, StTypes, StSums
    <2>2. StOwn'
      <3>1. \A i \in DOMAIN stQ : stQ[i] \in StStats
        BY <1>2
      <3> QED
        BY <1>1, <1>3, <1>6, <1>8, <3>1 DEF StInv, StOwn
    <2> QED
      BY <1>7, <2>1, <2>2 DEF StInv
  <1>9. CASE stQ' = Append(stQ, s) /\ stEnded' = [stEnded EXCEPT ![stObj[s].cmd] = @ + 1]
    <2>1. stQ' \in Seq(StStats) /\ Len(stQ') = Len(stQ) + 1 /\ Len(stQ) \in Nat
      BY <1>2, <1>9
    <2>2. stEnded' \in [StCmds -> Nat] /\ stEnded'[c] = stEnded[c] + 1 /\ \A x \in StCmds \ {c} : stEnded'[x] = stEnded[x]
      BY <1>2, <1>4, <1>5, <1>9
    <2>3. StTypes'
      BY <1>1, <1>3, <2>1, <2>2 DEF StInv, StTypes
    <2>4. SumFunction(stEnded') = SumFunction(stEnded) + 1 /\ SumFunction(stEnded) \in Nat
      BY <1>2, <1>5, <2>2, StKeysFinite, StSumUp
    <2>5. StSums'
      <3>1. SumFunction(StTotals(stM)) \in Nat /\ stOut \in Nat
        BY StTotalsIs DEF StInv, StTypes
      <3>2. SumFunction(stEnded) = Len(stQ) + SumFunction(StTotals(stM)) + stOut
        BY DEF StInv, StSums
      <3>3. SumFunction(stEnded') = Len(stQ') + SumFunction(StTotals(stM)) + stOut
        BY <2>1, <2>4, <3>1, <3>2
      <3> QED
        BY <1>1, <3>3 DEF StInv, StSums
    <2>6. StOwn'
      <3> SUFFICES ASSUME ~stReused PROVE StOwn'
        BY <1>1 DEF StOwn
      <3>1. \A i \in DOMAIN stQ' : ~stObj'[stQ'[i]].open
        <4> SUFFICES ASSUME NEW i \in DOMAIN stQ' PROVE ~stObj'[stQ'[i]].open
          OBVIOUS
        <4>1. DOMAIN stQ' = 1..(Len(stQ) + 1) /\ DOMAIN stQ = 1..Len(stQ)
          BY <1>2, <1>9
        <4>2. CASE i = Len(stQ) + 1
          <5>1. stQ'[i] = s
            BY <1>2, <1>9, <4>2
          <5> QED
            BY <1>3, <5>1
        <4>3. CASE i \in 1..Len(stQ)
          <5>1. stQ'[i] = stQ[i] /\ stQ[i] \in StStats
            BY <1>2, <1>9, <4>3
          <5>2. ~stObj[stQ[i]].open
            BY <4>1, <4>3 DEF StInv, StOwn
          <5> QED
            BY <1>3, <5>1, <5>2
        <4> QED
          BY <2>1, <4>1, <4>2, <4>3
      <3>2. StQueuedCmds(stQ', stObj') = Append(StQueuedCmds(stQ, stObj), c)
        <4>1. PICK p, q, n : p = StQueuedCmds(stQ, stObj) /\ q = StQueuedCmds(stQ', stObj') /\ n = Len(stQ)
          OBVIOUS
        <4>2. p \in Seq(StCmds) /\ Len(p) = n /\ n \in Nat /\ \A i \in 1..n : p[i] = stObj[stQ[i]].cmd /\ stQ[i] \in StStats
          BY <1>2, <4>1, StQueuedIs
        <4>3. q \in Seq(StCmds) /\ Len(q) = n + 1 /\ \A i \in 1..(n + 1) : q[i] = stObj'[stQ'[i]].cmd
          BY <1>3, <2>1, <4>1, StQueuedIs
        <4>4. PICK u : u = Append(p, c)
          OBVIOUS
        <4>5. u \in Seq(StCmds) /\ Len(u) = n + 1 /\ u[n + 1] = c /\ \A i \in 1..n : u[i] = p[i]
          BY <1>5, <4>2, <4>4
        <4>6. stQ'[n + 1] = s /\ \A i \in 1..n : stQ'[i] = stQ[i]
          BY <1>2, <1>9, <4>1
        <4>7. \A i \in 1..(n + 1) : q[i] = u[i]
          BY <1>3, <1>4, <4>2, <4>3, <4>5, <4>6
        <4>8. q = u
          BY <4>3, <4>5, <4>7, SeqEqual
        <4> QED
          BY <4>1, <4>4, <4>8
      <3>3. ASSUME NEW cmd \in StCmds
            PROVE  stM'[<<cmd, 0>>].total + stM'[<<cmd, -1>>].total
                   + RtTimes(StQueuedCmds(stQ', stObj'), cmd) <= stEnded'[cmd]
        <4>1. PICK x, y, z, t : x = stM[<<cmd, 0>>].total /\ y = stM[<<cmd, -1>>].total
                                /\ z = RtTimes(StQueuedCmds(stQ, stObj), cmd) /\ t = IF c = cmd THEN 1 ELSE 0
          OBVIOUS
        <4>2. z \in Nat /\ RtTimes(StQueuedCmds(stQ', stObj'), cmd) = z + t
          <5>1. StQueuedCmds(stQ, stObj) \in Seq(StCmds)
            BY <1>2, StQueuedIs
          <5> QED
            BY <1>5, <3>2, <4>1, <5>1, RtTimesAppend
        <4>3. x \in Nat /\ y \in Nat
          <5>1. <<cmd, 0>> \in StCmds \X StRets /\ <<cmd, -1>> \in StCmds \X StRets
            BY DEF StRets
          <5>2. stM[<<cmd, 0>>] \in StEntries /\ stM[<<cmd, -1>>] \in StEntries
            BY <5>1 DEF StInv, StTypes
          <5> QED
            BY <4>1, <5>2 DEF StEntries
        <4>4. stEnded'[cmd] = stEnded[cmd] + t /\ stEnded[cmd] \in Nat /\ t \in Nat
          BY <1>2, <2>2, <4>1
        <4>5. x + y + z <= stEnded[cmd]
          BY <4>1 DEF StInv, StOwn
        <4>6. x + y + (z + t) <= stEnded'[cmd]
          BY <4>2, <4>3, <4>4, <4>5
        <4> QED
          BY <1>1, <4>1, <4>2, <4>6
      <3> QED
        BY <3>1, <3>3 DEF StOwn
    <2> QED
      BY <1>7, <2>3, <2>5, <2>6 DEF StInv
  <1> QED
    BY <1>1, <1>8, <1>9

\* The totals of a command.
LEMMA StTotalsNat ==
    ASSUME NEW m \in [StCmds \X StRets -> StEntries], NEW cmd \in StCmds
    PROVE  m[<<cmd, 0>>].total \in Nat /\ m[<<cmd, -1>>].total \in Nat
  <1>1. <<cmd, 0>> \in StCmds \X StRets /\ <<cmd, -1>> \in StCmds \X StRets
    BY DEF StRets
  <1>2. m[<<cmd, 0>>] \in StEntries /\ m[<<cmd, -1>>] \in StEntries
    BY <1>1
  <1> QED
    BY <1>2 DEF StEntries

\* stat: one operation leaves the channel and enters m.
LEMMA StStatKeeps == ASSUME StInv, StStat PROVE StInv'
  <1>1. PICK h, o, e : h = Head(stQ) /\ o = stObj[h] /\ e = <<o.cmd, o.ret>>
    OBVIOUS
  <1>2. /\ stQ # <<>> /\ stQ' = Tail(stQ) /\ stM' = [stM EXCEPT ![e] = StEntry(@, o.d)]
        /\ UNCHANGED <<stObj, stFile, stDisk, stDumps, stEnded, stOut, stReused>>
    BY <1>1 DEF StStat
  <1>3. /\ stObj \in [StStats -> StObjects] /\ stQ \in Seq(StStats) /\ stM \in [StCmds \X StRets -> StEntries]
        /\ stOut \in Nat /\ stEnded \in [StCmds -> Nat]
    BY DEF StInv, StTypes
  <1>4. h \in StStats /\ stQ' \in Seq(StStats) /\ Len(stQ) \in Nat /\ Len(stQ) > 0 /\ Len(stQ') = Len(stQ) - 1
        /\ h = stQ[1] /\ \A i \in 1..(Len(stQ) - 1) : stQ'[i] = stQ[i + 1]
    BY <1>1, <1>2, <1>3, EmptySeq
  <1>5. o \in StObjects
    BY <1>1, <1>3, <1>4
  <1>6. o.cmd \in StCmds /\ o.ret \in StRets /\ o.d \in Nat /\ e \in StCmds \X StRets
    BY <1>1, <1>5 DEF StObjects
  <1>7. stM[e] \in StEntries /\ StAgrees(stM[e])
    BY <1>3, <1>6 DEF StInv, StSums
  <1>8. PICK v : v = StEntry(stM[e], o.d)
    OBVIOUS
  <1>9. v \in StEntries /\ StAgrees(v) /\ v.total = stM[e].total + 1
    BY <1>6, <1>7, <1>8, StEntryAgrees
  <1>10. stM' = [stM EXCEPT ![e] = v]
    BY <1>2, <1>3, <1>6, <1>8
  <1>11. /\ stM' \in [StCmds \X StRets -> StEntries] /\ stM'[e] = v
         /\ \A c \in (StCmds \X StRets) \ {e} : stM'[c] = stM[c]
    BY <1>3, <1>6, <1>9, <1>10
  <1>12. StTypes'
    BY <1>2, <1>4, <1>11 DEF StInv, StTypes
  <1>13. StNumbered' /\ StRotates'
    BY <1>2 DEF StInv, StNumbered, StRotates
  <1>14. StSums'
    <2>1. PICK f, g : f = StTotals(stM) /\ g = StTotals(stM')
      OBVIOUS
    <2>2. f \in [StCmds \X StRets -> Nat] /\ g \in [StCmds \X StRets -> Nat] /\ SumFunction(f) \in Nat
      BY <1>3, <1>11, <2>1, StTotalsIs
    <2>3. g[e] = f[e] + 1 /\ \A c \in (StCmds \X StRets) \ {e} : g[c] = f[c]
      BY <1>3, <1>6, <1>9, <1>11, <2>1 DEF StTotals
    <2>4. SumFunction(g) = SumFunction(f) + 1
      BY <1>6, <2>2, <2>3, StKeysFinite, StSumUp
    <2>5. SumFunction(stEnded) = Len(stQ) + SumFunction(f) + stOut
      BY <2>1 DEF StInv, StSums
    <2>6. SumFunction(stEnded) = Len(stQ') + SumFunction(g) + stOut
      BY <1>3, <1>4, <2>2, <2>4, <2>5
    <2>7. \A c \in StCmds \X StRets : StAgrees(stM[c])
      BY <1>3 DEF StInv, StSums
    <2>8. \A c \in DOMAIN stM' : StAgrees(stM'[c])
      BY <1>9, <1>11, <2>7
    <2> QED
      BY <1>2, <2>1, <2>6, <2>8 DEF StSums
  <1>15. StOwn'
    <2> SUFFICES ASSUME ~stReused PROVE StOwn'
      BY <1>2 DEF StOwn
    <2>1. \A i \in DOMAIN stQ' : ~stObj'[stQ'[i]].open
      <3> SUFFICES ASSUME NEW i \in DOMAIN stQ' PROVE ~stObj[stQ'[i]].open
        BY <1>2
      <3>1. DOMAIN stQ' = 1..(Len(stQ) - 1) /\ DOMAIN stQ = 1..Len(stQ)
        BY <1>3, <1>4
      <3>2. i + 1 \in DOMAIN stQ /\ stQ'[i] = stQ[i + 1]
        BY <1>4, <3>1
      <3> QED
        BY <3>2 DEF StInv, StOwn
    <2>2. PICK p, q, n : p = StQueuedCmds(stQ, stObj) /\ q = StQueuedCmds(stQ', stObj) /\ n = Len(stQ)
      OBVIOUS
    <2>3. p \in Seq(StCmds) /\ Len(p) = n /\ \A i \in 1..n : p[i] = stObj[stQ[i]].cmd
      BY <1>3, <2>2, StQueuedIs
    <2>4. q \in Seq(StCmds) /\ Len(q) = n - 1 /\ \A i \in 1..(n - 1) : q[i] = stObj[stQ'[i]].cmd
      BY <1>3, <1>4, <2>2, StQueuedIs
    <2>5. n \in Nat /\ n > 0 /\ p # <<>> /\ Head(p) = o.cmd
      <3>1. n \in Nat /\ n > 0 /\ 1 \in 1..n
        BY <1>4, <2>2
      <3>2. p # <<>>
        BY <2>3, <3>1
      <3>3. Head(p) = p[1]
        BY <2>3, <3>1
      <3> QED
        BY <1>1, <1>4, <2>3, <3>1, <3>2, <3>3
    <2>6. q = Tail(p)
      <3>1. PICK u : u = Tail(p)
        OBVIOUS
      <3>2. u \in Seq(StCmds) /\ Len(u) = n - 1 /\ \A i \in 1..(n - 1) : u[i] = p[i + 1]
        BY <2>3, <2>5, <3>1
      <3>3. \A i \in 1..(n - 1) : q[i] = u[i]
        BY <1>4, <2>2, <2>3, <2>4, <2>5, <3>2
      <3> QED
        BY <2>4, <3>1, <3>2, <3>3, SeqEqual
    <2>7. ASSUME NEW cmd \in StCmds
          PROVE  stM'[<<cmd, 0>>].total + stM'[<<cmd, -1>>].total
                 + RtTimes(StQueuedCmds(stQ', stObj'), cmd) <= stEnded'[cmd]
      <3>1. PICK x, y, z, t : x = stM[<<cmd, 0>>].total /\ y = stM[<<cmd, -1>>].total
                              /\ z = RtTimes(p, cmd) /\ t = IF o.cmd = cmd THEN 1 ELSE 0
        OBVIOUS
      <3>2. RtTimes(q, cmd) = z - t /\ z \in Nat /\ t \in Nat
        <4>1. RtTimes(q, cmd) = z - t
          BY <2>3, <2>5, <2>6, <3>1, RtTimesTail
        <4>2. z \in Nat
          BY <2>3, <3>1, RtTimesAppend
        <4> QED
          BY <3>1, <4>1, <4>2
      <3>3. PICK a, b : a = stM'[<<cmd, 0>>].total /\ b = stM'[<<cmd, -1>>].total
        OBVIOUS
      <3>4. x \in Nat /\ y \in Nat /\ a \in Nat /\ b \in Nat
        BY <1>3, <1>11, <3>1, <3>3, StTotalsNat
      <3>5. a + b = x + y + t
        <4>1. <<cmd, 0>> \in StCmds \X StRets /\ <<cmd, -1>> \in StCmds \X StRets /\ <<cmd, 0>> # <<cmd, -1>>
          BY DEF StRets
        <4>2. CASE o.cmd # cmd
          <5>1. e # <<cmd, 0>> /\ e # <<cmd, -1>>
            BY <1>1, <4>2
          <5> QED
            BY <1>11, <3>1, <3>3, <3>4, <4>1, <4>2, <5>1
        <4>3. CASE o.cmd = cmd
          <5>1. e = <<cmd, 0>> \/ e = <<cmd, -1>>
            BY <1>1, <1>6, <4>3 DEF StRets
          <5>2. CASE e = <<cmd, 0>>
            <6>1. a = x + 1 /\ b = y
              BY <1>9, <1>11, <3>1, <3>3, <4>1, <5>2
            <6> QED
              BY <3>1, <3>4, <4>3, <6>1
          <5>3. CASE e = <<cmd, -1>>
            <6>1. a = x /\ b = y + 1
              BY <1>9, <1>11, <3>1, <3>3, <4>1, <5>3
            <6> QED
              BY <3>1, <3>4, <4>3, <6>1
          <5> QED
            BY <5>1, <5>2, <5>3
        <4> QED
          BY <4>2, <4>3
      <3>6. x + y + z <= stEnded[cmd] /\ stEnded[cmd] \in Nat
        BY <1>3, <2>2, <3>1 DEF StInv, StOwn
      <3>7. a + b + (z - t) <= stEnded[cmd]
        BY <3>2, <3>4, <3>5, <3>6
      <3> QED
        BY <1>2, <2>2, <3>2, <3>3, <3>7
    <2> QED
      BY <2>1, <2>7 DEF StOwn
  <1> QED
    BY <1>12, <1>13, <1>14, <1>15 DEF StInv

\* Files that hold numbered dumps, newer ones in front, without a gap.
StKept(disk, n) ==
    /\ disk \in [0..StFiles -> SUBSET Nat] /\ \A i \in 0..StFiles : disk[i] \subseteq 1..n
    /\ \A i, j \in 0..StFiles : i < j => \A a \in disk[i], b \in disk[j] : b < a
    /\ \A x \in 1..n, i \in 0..StFiles : \A m \in disk[i] : m < x => \E j \in 0..StFiles : x \in disk[j]

LEMMA StKeptOf == ASSUME StInv PROVE StKept(stDisk, stDumps)
  <1>1. PICK kept : kept = UNION {stDisk[i] : i \in 0..StFiles}
    OBVIOUS
  <1>2. /\ \A n \in 1..stDumps : (\E m \in kept : m < n) => n \in kept
        /\ \A i, j \in 0..StFiles : i < j => \A a \in stDisk[i], b \in stDisk[j] : b < a
    BY <1>1 DEF StInv, StRotates
  <1>3. ASSUME NEW x \in 1..stDumps, NEW i \in 0..StFiles, NEW m \in stDisk[i], m < x
        PROVE  \E j \in 0..StFiles : x \in stDisk[j]
    <2>1. m \in kept
      BY <1>1
    <2>2. x \in kept
      BY <1>2, <1>3, <2>1
    <2> QED
      BY <1>1, <2>2
  <1> QED
    BY <1>2, <1>3 DEF StKept, StInv, StTypes, StNumbered

LEMMA StKeptTo == ASSUME StKept(stDisk', stDumps') PROVE StNumbered' /\ StRotates'
  <1>1. PICK kept : kept = UNION {stDisk'[i] : i \in 0..StFiles}
    OBVIOUS
  <1>2. ASSUME NEW n \in 1..stDumps', NEW m \in kept, m < n PROVE n \in kept
    <2>1. PICK i \in 0..StFiles : m \in stDisk'[i]
      BY <1>1
    <2>2. PICK j \in 0..StFiles : n \in stDisk'[j]
      BY <1>2, <2>1 DEF StKept
    <2> QED
      BY <1>1, <2>2
  <1>3. StRotates'
    BY <1>1, <1>2 DEF StRotates, StKept
  <1> QED
    BY <1>3 DEF StKept, StNumbered

\* A dump is written to the first file.
LEMMA StWritten ==
    ASSUME NEW disk, NEW n \in Nat, StKept(disk, n), NEW w, w = [disk EXCEPT ![0] = @ \cup {n + 1}]
    PROVE  StKept(w, n + 1)
  <1>2. disk \in [0..StFiles -> SUBSET Nat] /\ \A i \in 0..StFiles : disk[i] \subseteq 1..n
    BY DEF StKept
  <1>3. 0 \in 0..StFiles /\ StFiles \in Nat
    BY StAssumption
  <1>4. /\ w \in [0..StFiles -> SUBSET Nat] /\ w[0] = disk[0] \cup {n + 1}
        /\ \A i \in 0..StFiles : i # 0 => w[i] = disk[i]
    BY <1>2, <1>3
  <1>5. \A i \in 0..StFiles : w[i] \subseteq 1..(n + 1)
    BY <1>2, <1>3, <1>4
  <1>6. ASSUME NEW i \in 0..StFiles, NEW j \in 0..StFiles, i < j, NEW a \in w[i], NEW b \in w[j] PROVE b < a
    <2>1. j # 0 /\ b \in disk[j] /\ b \in 1..n
      BY <1>2, <1>3, <1>4, <1>6
    <2>2. CASE a \in disk[i]
      BY <1>6, <2>1, <2>2 DEF StKept
    <2>3. CASE a = n + 1
      BY <2>1, <2>3
    <2> QED
      BY <1>4, <1>6, <2>2, <2>3
  <1>7. ASSUME NEW x \in 1..(n + 1), NEW i \in 0..StFiles, NEW m \in w[i], m < x
        PROVE  \E j \in 0..StFiles : x \in w[j]
    <2>1. CASE x = n + 1
      BY <1>3, <1>4, <2>1
    <2>2. CASE x # n + 1
      <3>1. x \in 1..n /\ m # n + 1
        BY <1>5, <1>7, <2>2
      <3>2. m \in disk[i]
        BY <1>4, <3>1
      <3>3. PICK j \in 0..StFiles : x \in disk[j]
        BY <1>7, <3>1, <3>2 DEF StKept
      <3> QED
        BY <1>4, <3>3
    <2> QED
      BY <2>1, <2>2
  <1> QED
    BY <1>4, <1>5, <1>6, <1>7 DEF StKept

\* The files move back by one, and the oldest is forgotten.
LEMMA StRotatedKept ==
    ASSUME NEW disk, NEW n \in Nat, StKept(disk, n)
    PROVE  StKept(StRotated(disk), n)
  <1>1. PICK w : w = StRotated(disk)
    OBVIOUS
  <1>2. disk \in [0..StFiles -> SUBSET Nat] /\ \A i \in 0..StFiles : disk[i] \subseteq 1..n
    BY DEF StKept
  <1>3. StFiles \in Nat /\ StFiles # 0
    BY StAssumption
  <1>4. \A i \in 0..StFiles : i # 0 => i - 1 \in 0..StFiles /\ i - 1 # StFiles
    BY <1>3
  <1>5. w \in [0..StFiles -> SUBSET Nat] /\ \A i \in 0..StFiles : w[i] = IF i = 0 THEN {} ELSE disk[i - 1]
    BY <1>1, <1>2, <1>4 DEF StRotated
  <1>6. \A i \in 0..StFiles : w[i] \subseteq 1..n
    BY <1>2, <1>4, <1>5
  <1>7. ASSUME NEW i \in 0..StFiles, NEW j \in 0..StFiles, i < j, NEW a \in w[i], NEW b \in w[j] PROVE b < a
    <2>1. /\ i - 1 \in 0..StFiles /\ j - 1 \in 0..StFiles /\ i - 1 < j - 1 /\ a \in disk[i - 1] /\ b \in disk[j - 1]
      BY <1>3, <1>4, <1>5, <1>7
    <2> QED
      BY <2>1 DEF StKept
  <1>8. ASSUME NEW x \in 1..n, NEW i \in 0..StFiles, NEW m \in w[i], m < x
        PROVE  \E j \in 0..StFiles : x \in w[j]
    <2>1. PICK l : l = i - 1
      OBVIOUS
    <2>2. l \in 0..StFiles /\ l < StFiles /\ m \in disk[l]
      BY <1>3, <1>4, <1>5, <1>8, <2>1
    <2>3. PICK j \in 0..StFiles : x \in disk[j]
      BY <1>8, <2>2 DEF StKept
    <2>4. m \in Nat /\ x \in Nat
      BY <1>2, <2>2
    <2>5. j # StFiles
      <3>1. j = StFiles => x < m
        BY <1>3, <2>2, <2>3 DEF StKept
      <3> QED
        BY <1>8, <2>4, <3>1
    <2>6. j + 1 \in 0..StFiles /\ j + 1 # 0 /\ (j + 1) - 1 = j
      BY <1>3, <2>5
    <2>7. x \in w[j + 1]
      BY <1>5, <2>3, <2>6
    <2> QED
      BY <2>6, <2>7
  <1>9. StKept(w, n)
    BY <1>5, <1>6, <1>7, <1>8 DEF StKept
  <1> QED
    BY <1>1, <1>9

LEMMA StDumpKeeps ==
    ASSUME StInv, NEW w \in BOOLEAN, NEW r \in BOOLEAN, NEW o \in BOOLEAN, StDump(w, r, o)
    PROVE  StInv'
  <1>1. PICK d : d = [stDisk EXCEPT ![0] = @ \cup {stDumps + 1}]
    OBVIOUS
  <1>2. /\ stM' = [c \in DOMAIN stM |-> StNone] /\ stOut' = stOut + SumFunction(StTotals(stM))
        /\ \/ stDumps' = stDumps + 1 /\ stDisk' \in {d, StRotated(d)}
           \/ UNCHANGED <<stDisk, stDumps>>
        /\ UNCHANGED <<stObj, stQ, stEnded, stReused>>
    BY <1>1 DEF StDump, StTotals
  <1>3. /\ stM \in [StCmds \X StRets -> StEntries] /\ stOut \in Nat /\ stDumps \in Nat
        /\ stObj \in [StStats -> StObjects] /\ stQ \in Seq(StStats) /\ stEnded \in [StCmds -> Nat]
    BY DEF StInv, StTypes
  <1>4. stM' = [c \in StCmds \X StRets |-> StNone]
    BY <1>2, <1>3
  <1>5. /\ stM' \in [StCmds \X StRets -> StEntries] /\ SumFunction(StTotals(stM')) = 0
        /\ \A c \in StCmds \X StRets : StAgrees(stM'[c]) /\ stM'[c].total = 0
    BY <1>4, StEmptyM
  <1>6. StKept(stDisk', stDumps') /\ stDumps' \in Nat
    <2>1. StKept(stDisk, stDumps)
      BY StKeptOf
    <2>2. StKept(d, stDumps + 1) /\ stDumps + 1 \in Nat
      <3>1. PICK n, e : n = stDumps /\ e = stDisk
        OBVIOUS
      <3>2. n \in Nat /\ StKept(e, n) /\ d = [e EXCEPT ![0] = @ \cup {n + 1}]
        BY <1>1, <1>3, <2>1, <3>1
      <3>3. StKept(d, n + 1)
        BY ONLY <3>2, StWritten
      <3> QED
        BY <3>1, <3>2, <3>3
    <2>3. StKept(StRotated(d), stDumps + 1)
      BY <2>2, StRotatedKept
    <2> QED
      BY <1>2, <1>3, <2>1, <2>2, <2>3
  <1>7. SumFunction(StTotals(stM)) \in Nat
    BY <1>3, StTotalsIs
  <1>8. StTypes'
    <2>1. stDisk' \in [0..StFiles -> SUBSET Nat]
      BY <1>6 DEF StKept
    <2>2. stOut' \in Nat
      BY <1>2, <1>3, <1>7
    <2> QED
      BY <1>2, <1>5, <1>6, <2>1, <2>2 DEF StInv, StTypes
  <1>9. StSums'
    <2>1. SumFunction(stEnded) = Len(stQ) + SumFunction(StTotals(stM)) + stOut
      BY DEF StInv, StSums
    <2>2. Len(stQ) \in Nat
      BY <1>3
    <2>3. SumFunction(stEnded') = Len(stQ') + SumFunction(StTotals(stM')) + stOut'
      BY <1>2, <1>3, <1>5, <1>7, <2>1, <2>2
    <2>4. \A c \in DOMAIN stM' : StAgrees(stM'[c])
      BY <1>5
    <2> QED
      BY <2>3, <2>4 DEF StSums
  <1>10. StOwn'
    <2> SUFFICES ASSUME ~stReused PROVE StOwn'
      BY <1>2 DEF StOwn
    <2>1. \A i \in DOMAIN stQ' : ~stObj'[stQ'[i]].open
      BY <1>2 DEF StInv, StOwn
    <2>2. ASSUME NEW cmd \in StCmds
          PROVE  stM'[<<cmd, 0>>].total + stM'[<<cmd, -1>>].total
                 + RtTimes(StQueuedCmds(stQ', stObj'), cmd) <= stEnded'[cmd]
      <3>1. PICK x, y, z : x = stM[<<cmd, 0>>].total /\ y = stM[<<cmd, -1>>].total
                           /\ z = RtTimes(StQueuedCmds(stQ, stObj), cmd)
        OBVIOUS
      <3>2. x \in Nat /\ y \in Nat
        BY <1>3, <3>1, StTotalsNat
      <3>3. z \in Nat
        <4>1. StQueuedCmds(stQ, stObj) \in Seq(StCmds)
          BY <1>3, StQueuedIs
        <4> QED
          BY <3>1, <4>1, RtTimesAppend
      <3>4. x + y + z <= stEnded[cmd] /\ stEnded[cmd] \in Nat
        BY <1>3, <3>1 DEF StInv, StOwn
      <3>5. <<cmd, 0>> \in StCmds \X StRets /\ <<cmd, -1>> \in StCmds \X StRets
        BY DEF StRets
      <3>6. stM'[<<cmd, 0>>].total = 0 /\ stM'[<<cmd, -1>>].total = 0
        BY <1>5, <3>5
      <3>7. 0 + 0 + z <= stEnded[cmd]
        BY <3>2, <3>3, <3>4
      <3> QED
        BY <1>2, <3>1, <3>6, <3>7
    <2> QED
      BY <2>1, <2>2 DEF StOwn
  <1> QED
    BY <1>6, <1>8, <1>9, <1>10, StKeptTo DEF StInv

LEMMA StStep == StInv /\ [StNext]_stVars => StInv'
  <1> SUFFICES ASSUME StInv, [StNext]_stVars PROVE StInv'
    OBVIOUS
  <1>1. CASE UNCHANGED <<stObj, stQ, stM, stDisk, stDumps, stEnded, stOut, stReused>>
    BY <1>1 DEF StInv, StTypes, StSums, StOwn, StNumbered, StRotates
  <1>2. CASE StInstance \/ StOpen \/ UNCHANGED stVars
    BY <1>1, <1>2 DEF StInstance, StOpen, stVars
  <1>3. CASE StStat
    BY <1>3, StStatKeeps
  <1>4. CASE \E s \in StStats, c \in StCmds : StBegin(s, c)
    BY <1>4, StBeginKeeps
  <1>5. CASE \E s \in StStats, r \in StRets, d \in StDurations : StEnd(s, r, d)
    BY <1>5, StEndKeeps
  <1>6. CASE \E w, r, o \in BOOLEAN : StDump(w, r, o)
    BY <1>6, StDumpKeeps
  <1> QED
    BY <1>2, <1>3, <1>4, <1>5, <1>6 DEF StNext

\* The dumps tell the truth (stat.go:166-337), for any number of Stat objects and
\* commands, places in the channel and files: every operation that was queued is in
\* the channel, in m or in a dump, once, the counters of an entry agree, it is
\* counted under its own command unless its Stat was begun again in the queue, and
\* rotation forgets the oldest dumps only.
THEOREM StatisticsAreExact == StSpec => []StExact
<1>1. StInv => StExact
  <2> SUFFICES ASSUME StInv PROVE StExact
    OBVIOUS
  <2>1. StCounted
    BY DEF StInv, StSums, StCounted, StTotals, StAgrees
  <2>2. StRightCommand
    <3> SUFFICES ASSUME ~stReused, NEW cmd \in StCmds
                 PROVE  stM[<<cmd, 0>>].total + stM[<<cmd, -1>>].total <= stEnded[cmd]
      BY DEF StRightCommand
    <3>1. /\ stM \in [StCmds \X StRets -> StEntries] /\ stQ \in Seq(StStats) /\ stObj \in [StStats -> StObjects]
          /\ stEnded[cmd] \in Nat
      BY DEF StInv, StTypes
    <3>2. stM[<<cmd, 0>>].total \in Nat /\ stM[<<cmd, -1>>].total \in Nat
      BY <3>1, StTotalsNat
    <3>3. RtTimes(StQueuedCmds(stQ, stObj), cmd) \in Nat
      <4>1. StQueuedCmds(stQ, stObj) \in Seq(StCmds)
        BY <3>1, StQueuedIs
      <4> QED
        BY <4>1, RtTimesAppend
    <3>4. stM[<<cmd, 0>>].total + stM[<<cmd, -1>>].total + RtTimes(StQueuedCmds(stQ, stObj), cmd) <= stEnded[cmd]
      BY DEF StInv, StOwn
    <3> QED
      BY <3>1, <3>2, <3>3, <3>4
  <2> QED
    BY <2>1, <2>2 DEF StInv, StExact
<1> QED
  BY <1>1, StInitHolds, StStep, PTL DEF StSpec
=============================================================================
