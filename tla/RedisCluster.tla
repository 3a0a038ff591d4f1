---------------------------- MODULE RedisCluster ----------------------------
(* redisdb.RedisClusterClient: single commands by the way they treat the      *)
(* error, the pipelines MGet, MSet and MDel, whose commands run one by one on *)
(* the nodes of the cluster, their variants MGet2, MSet2 and MDel2, and Eval, *)
(* which tries EVALSHA first. A command may fail with or without its effect;  *)
(* what go-redis does to redirect or repeat it is part of its one outcome.    *)
EXTENDS Integers, Sequences, FiniteSets, Functions

CONSTANTS
    RcCallers,   \* goroutines that use the client
    RcKeys,      \* keys of the pipelines
    RcVals,      \* values that MSet writes
    RcLists,     \* the lists of keys that a caller of MGet, MSet and MDel passes
    RcCalls      \* bound on the calls
ASSUME RcAssumption ==
    /\ RcLists \subseteq Seq(RcKeys) /\ IsFiniteSet(RcCallers) /\ RcCalls \in Nat
    /\ RcVals \cap {"fail", "wrongtype", "noscript", "odd"} = {}

VARIABLES
    rcClient,    \* "nil" before Start and after one that failed, "open", "closed"
    rcStore,     \* the value of each key in the cluster, "nil" when there is none
    rcScript,    \* the node has the script of Eval
    rcCall,      \* the call of each goroutine
    rcSeen,      \* the values each key has had since an MGet began (history)
    rcFails,     \* pc.CostFail and gl's redisCluster_call_fail
    rcBad,       \* commands that the cluster answered with an error (history)
    rcLeft,      \* calls left
    rcPanic      \* a nil redisCluster was dereferenced

rcVars == <<rcClient, rcStore, rcScript, rcCall, rcSeen, rcFails, rcBad, rcLeft, rcPanic>>

\* The methods of one command, by what they do with its error: "lookup" turns
\* redis.Nil into ErrNil, "assign" returns and reports it, "direct" returns it
\* without reporting it, "scan" checks the length of the reply as well.
RcStrings == [Get |-> "lookup", Set |-> "assign", SetNX |-> "assign", Del |-> "assign"]
RcHashReads == [HGet |-> "lookup", HMGet |-> "assign", HScan |-> "scan", HGetAll |-> "assign"]
RcHashWrites == [HSet |-> "assign", HSetNx |-> "assign", HMSet |-> "assign", HMDel |-> "direct"]
RcNumbers == [Expire |-> "direct", PExpire |-> "direct", PTtl |-> "direct", HIncrBy |-> "assign", IncrBy |-> "assign"]
RcSorted == [ZAdd |-> "direct", ZRangeByScoreWithScores |-> "assign", ZRevRangeByScoreWithScores |-> "assign",
             ZRange |-> "direct", ZRemRangeByRank |-> "direct", ZRemRangeByScore |-> "direct", ZRem |-> "direct"]
RcOthers == [ZRevRange |-> "direct", SetBit |-> "direct", Exist |-> "assign", SAdd |-> "direct", SPop |-> "direct",
             LPop |-> "direct", LIndex |-> "direct", LPush |-> "direct", RPush |-> "direct", HLen |-> "direct"]
RcSingles == UNION {Range(f) : f \in {RcStrings, RcHashReads, RcHashWrites, RcNumbers, RcSorted, RcOthers}}
RcErrors == {"fail", "wrongtype", "noscript", "odd"}

RcIdle == [st |-> "idle", op |-> "none", keys |-> <<>>, val |-> "nil", got |-> <<>>, ran |-> <<>>, ret |-> <<>>, err |-> "none"]

RcInit == /\ rcClient = "nil" /\ rcStore \in {[k \in RcKeys |-> v] : v \in RcVals \union {"nil"}} /\ rcScript = FALSE
          /\ rcCall = [g \in RcCallers |-> RcIdle] /\ rcSeen = [g \in RcCallers |-> [k \in RcKeys |-> {}]]
          /\ rcFails = 0 /\ rcBad = 0 /\ rcLeft = RcCalls /\ rcPanic = FALSE

(* Start: an empty list of addresses leaves redisCluster nil; a Ping that     *)
(* fails is only logged.                                                      *)
RcStart == /\ rcClient = "nil" /\ rcClient' = "open"
           /\ UNCHANGED <<rcStore, rcScript, rcCall, rcSeen, rcFails, rcBad, rcLeft, rcPanic>>

RcClose == /\ rcClient # "closed"
           /\ IF rcClient = "nil" THEN rcPanic' = TRUE /\ UNCHANGED rcClient ELSE rcClient' = "closed" /\ UNCHANGED rcPanic
           /\ UNCHANGED <<rcStore, rcScript, rcCall, rcSeen, rcFails, rcBad, rcLeft>>

(* getClusterClient: before Start it dereferences nil, and the test of its    *)
(* result that every method makes comes too late.                             *)
RcUnstarted == /\ rcClient = "nil" /\ rcPanic' = TRUE
               /\ UNCHANGED <<rcClient, rcStore, rcScript, rcCall, rcSeen, rcFails, rcBad, rcLeft>>

RcBegun(op, keys, v) == [RcIdle EXCEPT !.st = "exec", !.op = op, !.keys = keys, !.val = v,
                         !.got = [i \in DOMAIN keys |-> "wait"], !.ran = [i \in DOMAIN keys |-> FALSE]]
RcBegin(g, op, keys, v) ==
    /\ rcClient # "nil" /\ rcCall[g].st = "idle" /\ rcLeft > 0 /\ rcLeft' = rcLeft - 1
    /\ rcCall' = [rcCall EXCEPT ![g] = RcBegun(op, keys, v)]
    /\ rcSeen' = [rcSeen EXCEPT ![g] = [k \in RcKeys |-> IF op = "MGet" THEN {rcStore[k]} ELSE {}]]
    /\ UNCHANGED <<rcClient, rcStore, rcScript, rcFails, rcBad, rcPanic>>

RcSingleCall(g) == \E class \in RcSingles : RcBegin(g, class, <<"key">>, "nil")
RcMGet(g) == \E ks \in RcLists : RcBegin(g, "MGet", ks, "nil")
RcMDel(g) == \E ks \in RcLists : RcBegin(g, "MDel", ks, "nil")
\* The keys of kvs, each once, in the map's order.
RcMSet(g) == \E ks \in RcLists, v \in RcVals : (\A i, j \in DOMAIN ks : ks[i] = ks[j] => i = j) /\ RcBegin(g, "MSet", ks, v)
RcEval(g) == RcBegin(g, "EvalSha", <<"script">>, "nil")

\* What a GET of the pipeline can answer.
RcRead(k) == {rcStore[k], "fail"}

\* What a command on a node can answer, and whether it took effect.
RcOutcomes(g, i) ==
    LET c == rcCall[g]
        safe == {[out |-> "fail", ran |-> FALSE]}
        write == {[out |-> "ok", ran |-> TRUE], [out |-> "fail", ran |-> TRUE]}
        odd == IF c.op = "scan" THEN {"odd"} ELSE {}
    IN IF rcClient = "closed" THEN safe
       ELSE CASE c.op = "MGet" -> [out : RcRead(c.keys[i]), ran : {FALSE}]
              [] c.op \in {"MSet", "MDel", "Eval"} -> safe \union write
              [] c.op = "EvalSha" -> safe \union IF rcScript THEN write ELSE {[out |-> "noscript", ran |-> FALSE]}
              \* The data of a single command is not modelled, so neither is its effect.
              [] OTHER -> [out : {"ok", "nil", "fail", "wrongtype"} \union odd, ran : {FALSE}]

\* The call c once its command i was answered with o.
RcAnswered(c, i, o) == [c EXCEPT !.got[i] = o.out, !.ran[i] = @ \/ o.ran]

(* A command of the call runs on its node: the nodes of a pipeline run        *)
(* independently of each other.                                               *)
RcNode(g, i) ==
    /\ rcCall[g].st = "exec" /\ i \in DOMAIN rcCall[g].keys /\ rcCall[g].got[i] = "wait"
    /\ \E o \in RcOutcomes(g, i) :
         LET c == rcCall[g]
         IN /\ rcCall' = [rcCall EXCEPT ![g] = RcAnswered(c, i, o)]
            /\ rcStore' = IF o.ran /\ c.op \in {"MSet", "MDel"} THEN [rcStore EXCEPT ![c.keys[i]] = c.val] ELSE rcStore
            /\ rcScript' = (rcScript \/ (c.op = "Eval" /\ o.ran))
            /\ rcBad' = rcBad + IF o.out \in RcErrors \ {"wrongtype", "odd"} THEN 1 ELSE 0
    /\ rcSeen' = [h \in RcCallers |-> [k \in RcKeys |->
                     IF rcCall[h].st = "exec" /\ rcCall[h].op = "MGet" THEN rcSeen[h][k] \union {rcStore'[k]} ELSE rcSeen[h][k]]]
    /\ UNCHANGED <<rcClient, rcFails, rcLeft, rcPanic>>

(* SCRIPT FLUSH, or a failover to a node without the script.                  *)
RcFlush == /\ rcScript /\ rcScript' = FALSE
           /\ UNCHANGED <<rcClient, rcStore, rcCall, rcSeen, rcFails, rcBad, rcLeft, rcPanic>>

\* Exec returns the first error among the commands, redis.Nil included.
RcExecErr(got) == LET bad == {i \in DOMAIN got : got[i] \in RcErrors \union {"nil"}}
                  IN IF bad = {} THEN "none" ELSE got[CHOOSE i \in bad : \A j \in bad : i <= j]

\* Faulty variant: the values are appended as they come, without the failed ones.
RcPacked(keys, got) == SelectSeq(got, LAMBDA v : v # "fail")

\* MGet: retMap holds the last value got for each key, nothing for one that only failed.
RcValues(keys, got) == [j \in DOMAIN keys |->
    LET hits == {i \in DOMAIN keys : keys[i] = keys[j] /\ got[i] # "fail"}
    IN IF hits = {} THEN "nil" ELSE got[CHOOSE i \in hits : \A k \in hits : k <= i]]

\* MSet and MDel give up when Exec returns an error; Del and Set never answer redis.Nil.
RcWriteErr(got) == RcExecErr(got)

\* What a method returns when its commands are done: the reply and the error.
RcReply(c) ==
    LET e == RcExecErr(c.got)
    IN CASE c.op = "MGet" -> IF e = "fail" THEN [ret |-> <<>>, err |-> e] ELSE [ret |-> RcValues(c.keys, c.got), err |-> "none"]
         [] c.op \in {"MSet", "MDel"} -> IF RcWriteErr(c.got) # "none" THEN [ret |-> <<>>, err |-> e]
                                         ELSE [ret |-> [i \in DOMAIN c.keys |-> "true"], err |-> "none"]
         [] c.op = "lookup" -> [ret |-> <<>>, err |-> IF e = "nil" THEN "ErrNil" ELSE e]
         [] OTHER -> [ret |-> <<>>, err |-> e]

\* reportPerf: the error that it is given counts, unless it is a Nil or WRONGTYPE.
\* The methods that return Result() directly never assign the err it is given,
\* and HScan's own complaint about the length is not assigned either.
RcReported(c) == IF c.op # "direct" /\ RcExecErr(c.got) \in {"fail", "noscript"} THEN 1 ELSE 0

\* Eval sends the script when EVALSHA does not know it.
RcFallsBack(c) == c.op = "EvalSha" /\ RcExecErr(c.got) = "noscript"

RcReturn(g) ==
    LET c == rcCall[g]
    IN /\ c.st = "exec" /\ \A i \in DOMAIN c.got : c.got[i] # "wait"
       /\ rcFails' = rcFails + RcReported(c)
       /\ rcCall' = [rcCall EXCEPT ![g] =
            IF RcFallsBack(c) THEN [c EXCEPT !.op = "Eval", !.got = <<"wait">>]
            ELSE [c EXCEPT !.st = "done", !.ret = RcReply(c).ret, !.err = RcReply(c).err]]
       /\ UNCHANGED <<rcClient, rcStore, rcScript, rcSeen, rcBad, rcLeft, rcPanic>>

\* The groups of keys that MGet2, MSet2 and MDel2 give to their goroutine pool.
RcNodeAndKeyMap(ks) == {}

(* Without a group no command is sent: no error, and the zero value for each  *)
(* key.                                                                       *)
RcPerNode(g, op, zero) ==
    /\ rcClient # "nil" /\ rcCall[g].st = "idle" /\ rcLeft > 0 /\ rcLeft' = rcLeft - 1
    /\ \E ks \in RcLists :
         /\ RcNodeAndKeyMap(ks) = {}
         /\ rcCall' = [rcCall EXCEPT ![g] = [RcIdle EXCEPT !.st = "done", !.op = op, !.keys = ks, !.ret = [i \in DOMAIN ks |-> zero]]]
    /\ UNCHANGED <<rcClient, rcStore, rcScript, rcSeen, rcFails, rcBad, rcPanic>>
RcMGet2(g) == RcPerNode(g, "MGet2", "nil")
RcMSet2(g) == RcPerNode(g, "MSet2", "false")
RcMDel2(g) == RcPerNode(g, "MDel2", "false")

(* The caller has the answer, and may call again.                             *)
RcTake(g) == /\ rcCall[g].st = "done" /\ rcCall' = [rcCall EXCEPT ![g] = RcIdle]
             /\ rcSeen' = [rcSeen EXCEPT ![g] = [k \in RcKeys |-> {}]]
             /\ UNCHANGED <<rcClient, rcStore, rcScript, rcFails, rcBad, rcLeft, rcPanic>>

RcNext == /\ ~rcPanic
          /\ \/ RcStart \/ RcClose \/ RcUnstarted \/ RcFlush
             \/ \E g \in RcCallers :
                  \/ RcSingleCall(g) \/ RcMGet(g) \/ RcMSet(g) \/ RcMDel(g) \/ RcEval(g)
                  \/ RcMGet2(g) \/ RcMSet2(g) \/ RcMDel2(g)
                  \/ RcReturn(g) \/ RcTake(g) \/ \E i \in DOMAIN rcCall[g].keys : RcNode(g, i)

RcSpec == RcInit /\ [][RcNext]_rcVars

RcDone(g, ops) == rcCall[g].st = "done" /\ rcCall[g].op \in ops

(* MGet answers without error in the order of its keys: a value is one the    *)
(* key had during the call, and a nil means that the key had none, or that    *)
(* its command failed behind a redis.Nil, the one failure Exec hides. Nodes   *)
(* answer at different times, while other goroutines write.                   *)
RcMGetHonest == \A g \in RcCallers : RcDone(g, {"MGet"}) /\ rcCall[g].err = "none" =>
    LET c == rcCall[g]
        Hidden(i) == c.got[i] = "fail" /\ \E j \in 1..(i - 1) : c.got[j] = "nil"
    IN /\ DOMAIN c.ret = DOMAIN c.keys
       /\ \A j \in DOMAIN c.keys : \/ c.ret[j] \in rcSeen[g][c.keys[j]]
                                   \/ c.ret[j] = "nil" /\ Hidden(j)

(* A call of MSet or MDel that returns no error has run on every key: the     *)
(* failure of one node among several never passes for success.                *)
RcWritesAll == \A g \in RcCallers : RcDone(g, {"MSet", "MDel"}) /\ rcCall[g].err = "none" =>
    \A i \in DOMAIN rcCall[g].keys : rcCall[g].ran[i] /\ rcCall[g].got[i] = "ok"

(* One Eval runs its script at most once: the fall-back from EVALSHA to EVAL  *)
(* never follows an EVALSHA that may have run.                                *)
RcEvalOnce == \A g \in RcCallers : rcCall[g].op = "Eval" /\ rcCall[g].got = <<"wait">> => ~rcCall[g].ran[1]

(* A failure that the cluster answered is counted at most once, also when     *)
(* Eval is made of two reported commands.                                     *)
RcFailsBound == rcFails <= rcBad

\* The cluster client tells its caller the truth (cluster.go:291-1245) about
\* commands that succeed on some nodes and fail on others, and repeats none that
\* may have run.
RcHonest == RcMGetHonest /\ RcWritesAll /\ RcEvalOnce /\ RcFailsBound
=============================================================================
