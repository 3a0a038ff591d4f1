----------------------------- MODULE PerfCounter -----------------------------
(* runtime/pc/pc.go: counters that callers raise through a channel, a handler *)
(* that adds them up in a concurrent map, and a walk that swaps them out each *)
(* minute and posts them to the agent.                                        *)
EXTENDS Integers, Sequences, SequencesExt, FiniteSetsExt

CONSTANTS
    PcKeys,       \* keys of kMap
    PcGauges,     \* the keys that report sets: timers of Cost, updater, goroutine count
    PcCallers,    \* goroutines that call Incr (CostFail and ErrorIncr change the key)
    PcCap,        \* workerCount: places in perfCounterC
    PcSendCount,  \* DefaultSendCountOnce
    PcReports,    \* bound: reports that are modelled
    PcCalls,      \* bound: calls of Incr
    PcInits       \* bound: calls of InitPerfCounter

ASSUME PcAssumption == PcGauges \subseteq PcKeys /\ {PcCap, PcSendCount} \subseteq Nat \ {0}

VARIABLES
    pcInit,       \* initOnce has run
    pcOpen,       \* closed = 1
    pcStop,       \* the channel stop is closed
    pcUpd,        \* _updater: "nil" or "set"
    pcUnset,      \* an updater was taken away (history)
    pcCall,       \* where each caller is in Incr: "out", or the key it will send
    pcQ,          \* perfCounterC
    pcHand,       \* what handlePc holds: stage, key, generation of the pointer
    pcGen,        \* generation of the pointer stored under a key, 0 if none
    pcVal,        \* the value behind that pointer
    pcWalk,       \* where walk is: stage, gauges to set, entries to visit, send
    pcOut,        \* batches given to sendPcReport, not posted yet
    pcAcc,        \* increments accepted, by key (history)
    pcRep,        \* increments posted or failed to be posted, by key (history)
    pcRuns        \* reports, calls and initialisations so far (bounds)

pcVars == <<pcInit, pcOpen, pcStop, pcUpd, pcUnset, pcCall, pcQ, pcHand,
            pcGen, pcVal, pcWalk, pcOut, pcAcc, pcRep, pcRuns>>
pcCallVars == <<pcCall, pcAcc>>
pcLifeVars == <<pcInit, pcOpen, pcStop, pcUpd, pcUnset>>

PcIdle == [st |-> "idle", todo |-> {}, send |-> <<>>]
PcFree == [st |-> "free"]

PcInit == /\ pcInit = FALSE /\ pcOpen = FALSE /\ pcStop = FALSE
          /\ pcUpd = "nil" /\ pcUnset = FALSE
          /\ pcCall = [c \in PcCallers |-> "out"] /\ pcQ = <<>>
          /\ pcHand = PcFree /\ pcWalk = PcIdle /\ pcOut = <<>>
          /\ pcGen = [k \in PcKeys |-> 0] /\ pcVal = [k \in PcKeys |-> 0]
          /\ pcAcc = [k \in PcKeys |-> 0] /\ pcRep = [k \in PcKeys |-> 0]
          /\ pcRuns = [reports |-> 0, calls |-> 0, inits |-> 0]

\* InitPerfCounter, the first time and again: the updater is always replaced.
InitPerfCounter(upd) ==
    /\ pcRuns.inits < PcInits /\ pcRuns' = [pcRuns EXCEPT !.inits = @ + 1]
    /\ pcInit' = TRUE /\ pcOpen' = (pcOpen \/ ~pcInit)
    /\ pcUpd' = upd /\ pcUnset' = (pcUnset \/ (pcUpd = "set" /\ upd = "nil"))
    /\ UNCHANGED <<pcStop, pcCall, pcQ, pcHand, pcGen, pcVal, pcWalk, pcOut,
                   pcAcc, pcRep>>

\* ClosePerfCounter: the flag, then the channel; perfCounterC is never closed.
ClosePerfCounter == /\ pcInit /\ ~pcStop
                    /\ pcOpen' = FALSE /\ pcStop' = ~pcOpen
                    /\ UNCHANGED <<pcInit, pcUpd, pcUnset, pcCall, pcQ, pcHand, pcGen,
                                   pcVal, pcWalk, pcOut, pcAcc, pcRep, pcRuns>>

\* Incr: the flag is read ...
PcIncr(c, k) ==
    /\ pcCall[c] = "out" /\ pcRuns.calls < PcCalls
    /\ pcRuns' = [pcRuns EXCEPT !.calls = @ + 1]
    /\ pcCall' = IF pcOpen THEN [pcCall EXCEPT ![c] = k] ELSE pcCall
    /\ UNCHANGED <<pcLifeVars, pcQ, pcHand, pcGen, pcVal, pcWalk, pcOut, pcAcc, pcRep>>

\* ... and later the request sent, or dropped when the channel is full.
PcIncrSend(c) ==
    LET k == pcCall[c]
    IN /\ k # "out" /\ pcCall' = [pcCall EXCEPT ![c] = "out"]
       /\ IF Len(pcQ) < PcCap THEN pcQ' = Append(pcQ, k) /\ pcAcc' = [pcAcc EXCEPT ![k] = @ + 1]
                              ELSE UNCHANGED <<pcQ, pcAcc>>
       /\ UNCHANGED <<pcLifeVars, pcHand, pcGen, pcVal, pcWalk, pcOut, pcRep, pcRuns>>

\* kMap.Set(k, a new pointer)
PcSetNew(k) == /\ pcGen' = [pcGen EXCEPT ![k] = @ + 1] /\ pcVal' = [pcVal EXCEPT ![k] = 0]

\* handlePc: receive, look the key up, create it, look it up again, add.
PcTake == /\ pcInit /\ pcHand.st = "free" /\ pcQ # <<>>
          /\ pcHand' = [st |-> IF pcGen[Head(pcQ)] = 0 THEN "miss" ELSE "load", key |-> Head(pcQ)]
          /\ pcQ' = Tail(pcQ)
          /\ UNCHANGED <<pcLifeVars, pcCallVars, pcGen, pcVal, pcWalk, pcOut, pcRep, pcRuns>>
PcCreate == /\ pcHand.st = "miss" /\ PcSetNew(pcHand.key)
            /\ pcHand' = [pcHand EXCEPT !.st = "load"]
            /\ UNCHANGED <<pcLifeVars, pcCallVars, pcQ, pcWalk, pcOut, pcRep, pcRuns>>
PcLoad == /\ pcHand.st = "load"
          /\ pcHand' = [st |-> "add", key |-> pcHand.key, gen |-> pcGen[pcHand.key]]
          /\ UNCHANGED <<pcLifeVars, pcCallVars, pcQ, pcGen, pcVal, pcWalk, pcOut, pcRep, pcRuns>>
\* An addition behind a pointer that a gauge has replaced meanwhile is lost.
PcAdd == /\ pcHand.st = "add" /\ pcHand' = PcFree
         /\ pcVal' = IF pcHand.gen = pcGen[pcHand.key] THEN [pcVal EXCEPT ![pcHand.key] = @ + 1]
                                                       ELSE pcVal
         /\ UNCHANGED <<pcLifeVars, pcCallVars, pcQ, pcGen, pcWalk, pcOut, pcRep, pcRuns>>

PcWalkTo(st, todo, send) == pcWalk' = [st |-> st, todo |-> todo, send |-> send]

\* walk: a tick (also when stop is closed too), or the end.
PcTick == /\ pcInit /\ pcWalk.st = "idle" /\ pcRuns.reports < PcReports
          /\ PcWalkTo(IF pcUpd = "nil" THEN "gauges" ELSE "update", PcGauges, <<>>)
          /\ pcRuns' = [pcRuns EXCEPT !.reports = @ + 1]
          /\ UNCHANGED <<pcLifeVars, pcCallVars, pcQ, pcHand, pcGen, pcVal, pcOut, pcRep>>
PcWalkEnds == /\ pcStop /\ pcWalk.st = "idle" /\ PcWalkTo("ended", {}, <<>>)
              /\ UNCHANGED <<pcLifeVars, pcCallVars, pcQ, pcHand, pcGen, pcVal, pcOut, pcRep, pcRuns>>

\* report checks the updater it has read, and calls the one that is there now.
PcUpdate == /\ pcWalk.st = "update"
            /\ pcWalk' = [pcWalk EXCEPT !.st = IF pcUpd = "nil" THEN "panic" ELSE "gauges"]
            /\ UNCHANGED <<pcLifeVars, pcCallVars, pcQ, pcHand, pcGen, pcVal, pcOut, pcRep, pcRuns>>

PcGauge(k) == /\ pcWalk.st = "gauges" /\ k \in pcWalk.todo /\ PcSetNew(k)
              /\ pcWalk' = [pcWalk EXCEPT !.todo = @ \ {k}]
              /\ UNCHANGED <<pcLifeVars, pcCallVars, pcQ, pcHand, pcOut, pcRep, pcRuns>>

\* os.Hostname fails and nothing is sent, or the entries of kMap are listed.
PcList == /\ pcWalk.st = "gauges" /\ pcWalk.todo = {}
          /\ \/ pcWalk' = PcIdle
             \/ PcWalkTo("swap", {<<k, pcGen[k]>> : k \in {j \in PcKeys : pcGen[j] > 0}}, <<>>)
          /\ UNCHANGED <<pcLifeVars, pcCallVars, pcQ, pcHand, pcGen, pcVal, pcOut, pcRep, pcRuns>>

\* Faulty variant: the counter is read and not reset.
PcSwapLoads(e) ==
    /\ pcWalk.st = "swap" /\ e \in pcWalk.todo
    /\ PcWalkTo("swap", pcWalk.todo \ {e}, Append(pcWalk.send, [key |-> e[1], v |-> pcVal[e[1]]]))
    /\ UNCHANGED <<pcLifeVars, pcCallVars, pcQ, pcHand, pcGen, pcVal, pcOut, pcRep, pcRuns>>

PcSwap(e) ==
    LET k == e[1] cur == e[2] = pcGen[k]
    IN /\ pcWalk.st = "swap" /\ e \in pcWalk.todo
       /\ PcWalkTo("swap", pcWalk.todo \ {e},
                   Append(pcWalk.send, [key |-> k, v |-> IF cur THEN pcVal[k] ELSE 0]))
       /\ pcVal' = IF cur THEN [pcVal EXCEPT ![k] = 0] ELSE pcVal
       /\ UNCHANGED <<pcLifeVars, pcCallVars, pcQ, pcHand, pcGen, pcOut, pcRep, pcRuns>>

\* utls.SliceCutter: full parts, then the rest if there is one.
SliceCutter(s, n) ==
    LET turns == Len(s) \div n
        parts == IF Len(s) % n # 0 THEN turns + 1 ELSE turns
    IN [i \in 1 .. parts |->
          SubSeq(s, n * (i - 1) + 1, IF i = turns + 1 THEN Len(s) ELSE n * i)]

PcSendAll == /\ pcWalk.st = "swap" /\ pcWalk.todo = {}
             /\ pcOut' = pcOut \o SliceCutter(pcWalk.send, PcSendCount)
             /\ pcWalk' = PcIdle
             /\ UNCHANGED <<pcLifeVars, pcCallVars, pcQ, pcHand, pcGen, pcVal, pcRep, pcRuns>>

\* Increments of key k in a batch.
PcIn(batch, k) == SumFunction([i \in DOMAIN batch |-> IF batch[i].key = k THEN batch[i].v ELSE 0])

\* sendPcReport posts a batch once; a failure is logged.
PcPost(i) == /\ i \in DOMAIN pcOut /\ pcOut' = RemoveAt(pcOut, i)
             /\ pcRep' = [k \in PcKeys |-> pcRep[k] + PcIn(pcOut[i], k)]
             /\ UNCHANGED <<pcLifeVars, pcCallVars, pcQ, pcHand, pcGen, pcVal, pcWalk, pcRuns>>

PcNext == \/ \E u \in {"nil", "set"} : InitPerfCounter(u)
          \/ ClosePerfCounter
          \/ \E c \in PcCallers : PcIncrSend(c) \/ \E k \in PcKeys : PcIncr(c, k)
          \/ PcTake \/ PcCreate \/ PcLoad \/ PcAdd
          \/ PcTick \/ PcWalkEnds \/ PcUpdate \/ PcList \/ PcSendAll
          \/ \E k \in PcKeys : PcGauge(k)
          \/ \E e \in pcWalk.todo \cap (PcKeys \X (1 .. PcReports + PcCalls)) : PcSwap(e)
          \/ \E i \in DOMAIN pcOut : PcPost(i)

PcSpec == PcInit /\ [][PcNext]_pcVars

(* Every accepted increment is in exactly one place on its way from the      *)
(* channel through the counter and one report to the agent, however handler, *)
(* walk and callers interleave; only keys that a gauge overwrites lose some. *)
PcConserved == \A k \in PcKeys \ PcGauges :
    pcAcc[k] = Cardinality({i \in DOMAIN pcQ : pcQ[i] = k})
               + (IF pcHand.st # "free" /\ pcHand.key = k THEN 1 ELSE 0)
               + pcVal[k] + PcIn(pcWalk.send, k)
               + SumFunction([i \in DOMAIN pcOut |-> PcIn(pcOut[i], k)]) + pcRep[k]

(* The walk calls a nil updater only when one was taken away by another      *)
(* InitPerfCounter between the check and the call (pc.go:262-266).           *)
PcUpdaterChecked == pcWalk.st = "panic" => pcUnset

\* The report tells the truth (pc.go:260-323): no increment is lost or doubled
\* between handler and walk, and a nil updater is called only when one was taken
\* away after the check.
PcExact == PcConserved /\ PcUpdaterChecked
=============================================================================
