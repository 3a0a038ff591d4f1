----------------------------- MODULE RedisPool ------------------------------
(* redisdb.RedisPoolClient: Do tries a command on servers it has not tried    *)
(* yet, at most retry times, each attempt on a connection of that server's    *)
(* pool; BatchDo runs a batch through a pool of goroutines and runs what      *)
(* failed again. An error may come before or after the server applied the command. *)
EXTENDS Integers, FiniteSets

CONSTANTS
    RpAddrs,      \* the addresses of servers
    RpConfigs,    \* the lists of addresses that a configuration may give
    RpCallers,    \* goroutines that call Do, or a command built on it
    RpReqs,       \* the requests of a batch
    RpRetry,      \* retry
    RpMaxActive,  \* MaxActive of each server's pool
    RpWorkers     \* the size of BatchDo's goroutine pool
ASSUME RpAssumption ==
    /\ {RpRetry, RpMaxActive, RpWorkers} \subseteq Nat \ {0}
    /\ IsFiniteSet(RpCallers) /\ IsFiniteSet(RpReqs) /\ RpCallers \cap RpReqs = {}
    /\ RpAddrs \cap {"none", "failing", "nil"} = {}
    /\ \A addrs \in RpConfigs : \A i \in DOMAIN addrs : addrs[i] \in RpAddrs \cup {""}

VARIABLES
    rpPools,      \* "none" before Start, "failed" after one that failed, "open", "closed"
    rpServers,    \* the servers that have a pool
    rpAt,         \* the Do of each caller and each request of the batch
    rpActive,     \* connections in use, per server
    rpTried,      \* the attempts on each server in this Do (history)
    rpBatch,      \* BatchDo: its state, turn, the requests to dispatch, those in the pool, the errors
    rpReplies,    \* replies of BatchDo per request
    rpPanic       \* "no", or why a goroutine panicked

rpVars == <<rpPools, rpServers, rpAt, rpActive, rpTried, rpBatch, rpReplies, rpPanic>>

RpParties == RpCallers \union RpReqs
RpIdle == [st |-> "idle", turn |-> 0, used |-> {}, conn |-> "none", err |-> FALSE]

RpInit == /\ rpPools = "none" /\ rpServers = {} /\ rpAt = [g \in RpParties |-> RpIdle] /\ rpActive = [s \in RpAddrs |-> 0]
          /\ rpTried = [g \in RpParties |-> [s \in RpAddrs |-> 0]]
          /\ rpBatch = [st |-> "idle", turn |-> 0, todo |-> {}, run |-> {}, errs |-> {}]
          /\ rpReplies = [r \in RpReqs |-> 0] /\ rpPanic = "no"

\* newPoolRetryTimeout: one pool for each address, empty and repeated ones left out.
RpPools(addrs) == {addrs[i] : i \in DOMAIN addrs} \ {""}

(* Start, once: an empty list is an error; a list of empty addresses, which   *)
(* is what an absent addr key gives, is not.                                  *)
RpStart(addrs) ==
    /\ rpPools = "none"
    /\ IF addrs = <<>> THEN rpPools' = "failed" /\ UNCHANGED rpServers
       ELSE rpPools' = "open" /\ rpServers' = RpPools(addrs)
    /\ UNCHANGED <<rpAt, rpActive, rpTried, rpBatch, rpReplies, rpPanic>>

\* Close, ActiveCount and every command dereference a nil redisPool.
RpNilPool == /\ rpPools \in {"none", "failed"} /\ rpPanic' = "nil pool"
             /\ UNCHANGED <<rpPools, rpServers, rpAt, rpActive, rpTried, rpBatch, rpReplies>>

RpClose == /\ rpPools = "open" /\ rpPools' = "closed"
           /\ UNCHANGED <<rpServers, rpAt, rpActive, rpTried, rpBatch, rpReplies, rpPanic>>

RpStarted == rpPools \in {"open", "closed"}

RpBegin(g) == /\ rpAt' = [rpAt EXCEPT ![g] = [RpIdle EXCEPT !.st = "get", !.turn = 1]]
              /\ rpTried' = [rpTried EXCEPT ![g] = [s \in RpAddrs |-> 0]]

RpDo(g) == /\ g \in RpCallers /\ rpAt[g].st = "idle" /\ RpStarted /\ RpBegin(g)
           /\ UNCHANGED <<rpPools, rpServers, rpActive, rpBatch, rpReplies, rpPanic>>

\* The servers this Do has tried.
RpUsed(used, s) == used \union {s}

\* Every server of the permutation is skipped.
RpNoneLeft(used) == rpServers \subseteq used

(* getConn: any server not used yet, whose pool gives a connection, or one   *)
(* that fails every command when the pool is closed or exhausted; nil when   *)
(* all are used.                                                             *)
RpGetConn(g) ==
    /\ rpAt[g].st = "get"
    /\ \/ \E s \in rpServers \ rpAt[g].used :
            LET got == rpPools = "open" /\ rpActive[s] < RpMaxActive
            IN /\ rpAt' = [rpAt EXCEPT ![g].st = "do", ![g].conn = IF got THEN s ELSE "failing",
                                       ![g].used = RpUsed(@, s)]
               /\ rpActive' = [rpActive EXCEPT ![s] = IF got THEN @ + 1 ELSE @]
               /\ rpTried' = [rpTried EXCEPT ![g][s] = @ + 1]
       \/ /\ RpNoneLeft(rpAt[g].used)
          /\ rpAt' = [rpAt EXCEPT ![g].st = "do", ![g].conn = "nil"] /\ UNCHANGED <<rpActive, rpTried>>
    /\ UNCHANGED <<rpPools, rpServers, rpBatch, rpReplies, rpPanic>>

\* Faulty variant: a connection whose command failed is not closed.
RpReleasedOk(g, err) == [s \in RpAddrs |-> IF s = rpAt[g].conn /\ ~err THEN rpActive[s] - 1 ELSE rpActive[s]]

\* The deferred Close gives the connection back.
RpReleased(g, err) == [s \in RpAddrs |-> IF s = rpAt[g].conn THEN rpActive[s] - 1 ELSE rpActive[s]]

(* The command on the connection; an error is tried again.                   *)
RpCommand(g) ==
    /\ rpAt[g].st = "do" /\ rpAt[g].conn # "nil"
    /\ \E err \in BOOLEAN :
         /\ rpAt[g].conn = "failing" => err
         /\ rpAt' = [rpAt EXCEPT ![g].conn = "none", ![g].err = err,
                                 ![g].st = IF err /\ rpAt[g].turn < RpRetry THEN "get" ELSE "done",
                                 ![g].turn = IF err /\ @ < RpRetry THEN @ + 1 ELSE @]
         /\ rpActive' = RpReleased(g, err)
    /\ UNCHANGED <<rpPools, rpServers, rpTried, rpBatch, rpReplies, rpPanic>>

(* A nil connection is used: the goroutine panics, and no one recovers.      *)
RpNil(g) == /\ rpAt[g].st = "do" /\ rpAt[g].conn = "nil" /\ rpPanic' = "nil connection"
            /\ UNCHANGED <<rpPools, rpServers, rpAt, rpActive, rpTried, rpBatch, rpReplies>>

RpReturn(g) == /\ g \in RpCallers /\ rpAt[g].st = "done" /\ rpAt' = [rpAt EXCEPT ![g].st = "idle"]
               /\ UNCHANGED <<rpPools, rpServers, rpActive, rpTried, rpBatch, rpReplies, rpPanic>>

(* BatchDo and the rounds of batchDo.                                        *)
RpBatchDo == /\ rpBatch.st = "idle" /\ RpStarted
             /\ rpBatch' = [st |-> "round", turn |-> 1, todo |-> RpReqs, run |-> {}, errs |-> {}]
             /\ rpReplies' = [r \in RpReqs |-> 0]
             /\ UNCHANGED <<rpPools, rpServers, rpAt, rpActive, rpTried, rpPanic>>

RpBusy == {r \in rpBatch.run : rpAt[r].st # "done"}

(* Execute finds a place in the goroutine pool ...                           *)
RpDispatch(r) == /\ rpBatch.st = "round" /\ r \in rpBatch.todo /\ Cardinality(RpBusy) < RpWorkers
                 /\ rpBatch' = [rpBatch EXCEPT !.todo = @ \ {r}, !.run = @ \union {r}]
                 /\ RpBegin(r) /\ UNCHANGED <<rpPools, rpServers, rpActive, rpReplies, rpPanic>>

(* ... or times out, which is the request's error.                           *)
RpTimeout(r) == /\ rpBatch.st = "round" /\ r \in rpBatch.todo /\ Cardinality(RpBusy) >= RpWorkers
                /\ rpBatch' = [rpBatch EXCEPT !.todo = @ \ {r}, !.errs = @ \union {r}]
                /\ UNCHANGED <<rpPools, rpServers, rpAt, rpActive, rpTried, rpReplies, rpPanic>>

RpFailed == rpBatch.errs \union {r \in rpBatch.run : rpAt[r].err}

\* The replies a round appends: the successes, after the last round the errors too.
RpAnswers(last) == (rpBatch.run \ RpFailed) \union (IF last THEN RpFailed ELSE {})

(* The round is over when the pool is closed and empty: what failed is run   *)
(* again, unless it was the last turn.                                       *)
RpCollect ==
    /\ rpBatch.st = "round" /\ rpBatch.todo = {} /\ RpBusy = {}
    /\ LET last == rpBatch.turn >= RpRetry
       IN /\ rpReplies' = [r \in RpReqs |-> rpReplies[r] + IF r \in RpAnswers(last) THEN 1 ELSE 0]
          /\ rpBatch' = IF last \/ RpFailed = {} THEN [rpBatch EXCEPT !.st = "returned"]
                        ELSE [st |-> "round", turn |-> rpBatch.turn + 1, todo |-> RpFailed, run |-> {}, errs |-> {}]
    /\ rpAt' = [g \in RpParties |-> IF g \in rpBatch.run THEN RpIdle ELSE rpAt[g]]
    /\ UNCHANGED <<rpPools, rpServers, rpActive, rpTried, rpPanic>>

RpNext == /\ rpPanic = "no"
          /\ \/ (\E addrs \in RpConfigs : RpStart(addrs)) \/ RpClose \/ RpNilPool \/ RpBatchDo \/ RpCollect
             \/ \E g \in RpParties : RpDo(g) \/ RpGetConn(g) \/ RpCommand(g) \/ RpNil(g) \/ RpReturn(g)
             \/ \E r \in RpReqs : RpDispatch(r) \/ RpTimeout(r)

RpSpec == RpInit /\ [][RpNext]_rpVars

(* One Do never tries a server twice, so that no server applies a retried    *)
(* command, an INCR say, two times.                                          *)
RpOncePerServer == \A g \in RpParties, s \in RpAddrs : rpTried[g][s] <= 1

(* A nil connection is used only when every server has been tried and has    *)
(* failed in the same Do, which takes fewer servers than retries.            *)
RpNilOnlyExhausted == \A g \in RpParties : rpAt[g].st = "do" /\ rpAt[g].conn = "nil"
    => Cardinality(rpServers) < RpRetry /\ \A s \in rpServers : rpTried[g][s] = 1

(* Connections in use are those of the attempts under way: none leaks, on    *)
(* whatever path an attempt ends.                                            *)
RpNoLeak == \A s \in rpServers : rpActive[s] = Cardinality({g \in RpParties : rpAt[g].conn = s})

(* BatchDo answers each request exactly once, whether it succeeded, timed    *)
(* out waiting for a goroutine or failed in every round.                     *)
RpBatchComplete == rpBatch.st = "returned" => \A r \in RpReqs : rpReplies[r] = 1

\* The pool's bookkeeping of servers, connections and batches (pool.go:269-425)
\* holds together over retries, timeouts and failing servers.
RpSafe == RpOncePerServer /\ RpNilOnlyExhausted /\ RpNoLeak /\ RpBatchComplete
=============================================================================
