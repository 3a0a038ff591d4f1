------------------------------- MODULE GrPool -------------------------------
(* runtime/gr: pools of goroutines bounded by a buffered channel, the pool   *)
(* with reserved parts, and the group of tasks that are stopped together.    *)
EXTENDS Integers, FiniteSets, Sequences

CONSTANTS
    GrTasks,      \* calls of Execute, ExecuteWithArg or ExecuteKey
    GrReserved,   \* the keys of ReservedConfig
    GrTimed,      \* pools of type FixedGoroutinePoolTimeout
    GrMaxSize     \* the sizes that are tried are 0 .. GrMaxSize

ASSUME GrAssumption == IsFiniteSet(GrTasks) /\ GrMaxSize \in Nat /\ GrReserved \cap GrTimed = {}
                       /\ "default" \notin GrReserved \cup GrTimed

VARIABLES
    grSize,       \* Size of each pool
    grStart,      \* what Start of the configured pool returned
    grTask,       \* where each Execute and its goroutine are, and their pool
    grChan,       \* tokens in semaphoreChan
    grWg,         \* the counter of wg
    grClose,      \* "no", "called" (Close entered), "closed" (waits), "done"
    grSeen        \* the tasks whose Execute had returned when Close was called

grVars ==
    <<grSize, grStart, grTask, grChan, grWg, grClose, grSeen>>

GrConfigured == {"default"} \cup GrReserved
GrPools == GrConfigured \cup GrTimed
GrOf(p, sts) == {t \in GrTasks : grTask[t].pool = p /\ grTask[t].st \in sts}

GrInit == /\ grSize \in [GrPools -> 0 .. GrMaxSize]
          /\ grStart = "no"
          /\ grTask = [t \in GrTasks |-> [st |-> "new", pool |-> "default"]]
          /\ grChan = [p \in GrPools |-> 0] /\ grWg = [p \in GrPools |-> 0]
          /\ grClose = [p \in GrPools |-> "no"]
          /\ grSeen = [p \in GrPools |-> {}]

\* Start makes the reserved pools, of whatever size, and refuses DefaultSize < 1.
GrStart == /\ grStart = "no"
           /\ grStart' = IF grSize["default"] < 1 THEN "refused" ELSE "ok"
           /\ UNCHANGED <<grSize, grTask, grChan, grWg, grClose, grSeen>>

GrAt(t, st) == grTask' = [grTask EXCEPT ![t].st = st]

\* The send of the token: panics on a closed channel, else takes a place or blocks.
GrSend(t, p) ==
    LET st == IF grClose[p] \in {"closed", "done"} THEN "panic"
              ELSE IF grChan[p] < grSize[p] THEN "sent"
              ELSE "blocked"
    IN /\ grTask' = [grTask EXCEPT ![t] = [st |-> st, pool |-> p]]
       /\ grChan' = IF st = "sent" THEN [grChan EXCEPT ![p] = @ + 1] ELSE grChan
       /\ UNCHANGED <<grSize, grStart, grWg, grClose, grSeen>>

\* ExecuteKey (a key without a reserved pool takes the default one) and Execute.
GrExecute(t) == /\ grStart = "ok" /\ grTask[t].st = "new"
                /\ \E p \in GrPools : GrSend(t, p)

GrUnblock(t) == /\ grTask[t].st = "blocked"
                /\ \/ grChan[grTask[t].pool] < grSize[grTask[t].pool]
                   \/ grClose[grTask[t].pool] \in {"closed", "done"}
                /\ GrSend(t, grTask[t].pool)

\* time.After wins the select of FixedGoroutinePoolTimeout.
GrTimeout(t) == /\ grTask[t].st = "blocked" /\ grTask[t].pool \in GrTimed
                /\ GrAt(t, "timeout")
                /\ UNCHANGED <<grSize, grStart, grChan, grWg, grClose, grSeen>>

\* wg.Add and the go statement; Execute returns.
GrSpawn(t) == /\ grTask[t].st = "sent" /\ GrAt(t, "run")
              /\ grWg' = [grWg EXCEPT ![grTask[t].pool] = @ + 1]
              /\ UNCHANGED <<grSize, grStart, grChan, grClose, grSeen>>

\* Faulty variant: the goroutine keeps its token.
GrReceiveKeeps(t) == /\ grTask[t].st = "run" /\ GrAt(t, "back")
                     /\ UNCHANGED <<grSize, grStart, grChan, grWg, grClose, grSeen>>

\* The function has returned: the goroutine takes a token back ...
GrReceive(t) == LET p == grTask[t].pool
                IN /\ grTask[t].st = "run" /\ GrAt(t, "back")
                   /\ grChan[p] > 0 \/ grClose[p] \in {"closed", "done"}
                   /\ grChan' = [grChan EXCEPT ![p] = IF @ > 0 THEN @ - 1 ELSE 0]
                   /\ UNCHANGED <<grSize, grStart, grWg, grClose, grSeen>>

\* ... and says it is done.
GrDone(t) == /\ grTask[t].st = "back" /\ GrAt(t, "done")
             /\ grWg' = [grWg EXCEPT ![grTask[t].pool] = @ - 1]
             /\ UNCHANGED <<grSize, grStart, grChan, grClose, grSeen>>

\* Close of one timed pool, or of the default and all reserved pools at once.
GrCloseCall(ps) ==
    /\ grStart = "ok" /\ \A p \in ps : grClose[p] = "no"
    /\ grClose' = [p \in GrPools |-> IF p \in ps THEN "called" ELSE grClose[p]]
    /\ grSeen' = [p \in GrPools |-> IF p \in ps THEN GrOf(p, {"run", "back", "done"}) ELSE grSeen[p]]
    /\ UNCHANGED <<grSize, grStart, grTask, grChan, grWg>>

\* Faulty variant: the channel is closed when nobody sends any more.
GrCloseChanIdle(p) == /\ grClose[p] = "called" /\ GrOf(p, {"blocked"}) = {}
                      /\ grClose' = [grClose EXCEPT ![p] = "closed"]
                      /\ UNCHANGED <<grSize, grStart, grTask, grChan, grWg, grSeen>>

GrCloseChan(p) == /\ grClose[p] = "called"
                  /\ grClose' = [grClose EXCEPT ![p] = "closed"]
                  /\ UNCHANGED <<grSize, grStart, grTask, grChan, grWg, grSeen>>

\* Faulty variant: Close does not wait.
GrWaitNot(p) == /\ grClose[p] = "closed"
                /\ grClose' = [grClose EXCEPT ![p] = "done"]
                /\ UNCHANGED <<grSize, grStart, grTask, grChan, grWg, grSeen>>

GrWait(p) == /\ grClose[p] = "closed" /\ grWg[p] = 0
             /\ grClose' = [grClose EXCEPT ![p] = "done"]
             /\ UNCHANGED <<grSize, grStart, grTask, grChan, grWg, grSeen>>

GrNext == \/ GrStart
          \/ \E t \in GrTasks : \/ GrExecute(t) \/ GrUnblock(t) \/ GrTimeout(t)
                                \/ GrSpawn(t) \/ GrReceive(t) \/ GrDone(t)
          \/ \E p \in GrTimed : GrCloseCall({p})
          \/ GrCloseCall(GrConfigured)
          \/ \E p \in GrPools : GrCloseChan(p) \/ GrWait(p)

GrSpec == GrInit /\ [][GrNext]_grVars

(* The counters say what they stand for: tokens are the tasks between their  *)
(* send and their receive, never more than Size, and the wait group counts   *)
(* the goroutines that run, closed channel or not (lines 25-33, 49).         *)
GrExact == \A p \in GrPools :
    /\ grChan[p] = Cardinality(GrOf(p, {"sent", "run"})) /\ grChan[p] <= grSize[p]
    /\ grWg[p] = Cardinality(GrOf(p, {"run", "back"}))

\* The abstract executor: a task is over when its goroutine has given its token back.
GrPhase == [t \in GrTasks |-> CASE grTask[t].st \in {"sent", "run"} -> "flight"
                                [] grTask[t].st \in {"back", "done"} -> "over"
                                [] OTHER -> "idle"]
GrHome == [t \in GrTasks |-> grTask[t].pool]
GrJoin == [p \in GrPools |-> CASE grClose[p] = "no" -> "no"
                               [] grClose[p] = "done" -> "ended" [] OTHER -> "asked"]

GrExec == INSTANCE BoundedExecutor WITH
    Tasks <- GrTasks, Pools <- GrPools, size <- grSize,
    phase <- GrPhase, home <- GrHome, due <- grSeen, join <- GrJoin

(* The pools implement the bounded executor: no more than Size tasks run, a  *)
(* timed out or panicked Execute runs nothing, and Close returns only after  *)
(* every task whose Execute had returned when it was called (lines 24-92).   *)
GrImplements == GrExec!Spec

(* Close of a pool returns, whoever is still sending: a blocked Execute is   *)
(* woken with a panic and a late one does not keep Close waiting (line 48).  *)
GrCloseReturns == \A p \in GrPools : grClose[p] = "called" ~> grClose[p] = "done"

(* An Execute that waits for a place gets it, times out or is woken by Close *)
(* unless its reserved pool was configured with no place at all (line 106).  *)
GrExecuteReturns == \A t \in GrTasks : grTask[t].st = "blocked" ~>
    (grTask[t].st # "blocked" \/ grSize[grTask[t].pool] = 0)

\* Nobody waits for ever on a pool (goroutine_helper.go:24-92): neither Close,
\* nor an Execute that finds the pool full and meets a Close.
GrReturns == GrCloseReturns /\ GrExecuteReturns
=============================================================================
