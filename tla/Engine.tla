------------------------------- MODULE Engine -------------------------------
(* The engine: Default, Run with its deferred clean-up, and the goroutine     *)
(* that listens for signals. inject, dlog and pc are models of their own;     *)
(* here an injected server is registered, or the registration panics.         *)
EXTENDS Integers, Sequences

CONSTANTS
    EgServers,   \* servers in the order Run registers them
    EgSignals    \* bound: signals the process is sent
ASSUME EgAssumption == EgSignals \in Nat

VARIABLES
    egMain,      \* where the main goroutine is
    egConf,      \* the configuration: the log and its level, toFile, falcon, the servers with a port
    egNext,      \* the index of the server to register
    egOpen,      \* servers that are registered and not closed
    egPerf,      \* the performance counters run
    egLog,       \* the log: "open", "closed"
    egListener,  \* the signal goroutine: "none", "select", "sending"
    egSent       \* signals sent (bound)

egVars == <<egMain, egConf, egNext, egOpen, egPerf, egLog, egListener, egSent>>

EgInit == /\ egMain = "default"
          /\ egConf \in [log : {"off", "level", "noLevel"}, toFile : BOOLEAN, falcon : BOOLEAN, ports : SUBSET {EgServers[i] : i \in DOMAIN EgServers}]
          /\ egNext = 1 /\ egOpen = {} /\ egPerf = FALSE /\ egLog = "open" /\ egListener = "none" /\ egSent = 0

(* initLogConfig accepts four levels; without a configured level initLog     *)
(* hands it the default of the format, and panics on the error.              *)
EgLogConfigured(conf) == conf.log # "noLevel"
EgInitLog(conf) == conf.log = "off" \/ EgLogConfigured(conf)

(* Default, and the start of Run: Signal.                                    *)
EgDefault == /\ egMain = "default"
             /\ IF EgInitLog(egConf) THEN egMain' = "init" /\ egListener' = "select"
                ELSE egMain' = "crashed" /\ UNCHANGED egListener
             /\ UNCHANGED <<egConf, egNext, egOpen, egPerf, egLog, egSent>>

(* initCPUAndMemory panics, and what is deferred so far runs, or goes on;    *)
(* then the counters and statistics.                                         *)
EgInitParts == /\ egMain = "init"
               /\ \/ egMain' = "log" /\ UNCHANGED egPerf
                  \/ egMain' = "register" /\ egPerf' = egConf.falcon
               /\ UNCHANGED <<egConf, egNext, egOpen, egLog, egListener, egSent>>

(* A server with a port is registered and started; RegisterOrFail panics     *)
(* when that fails, and the deferred calls run.                              *)
EgRegister == /\ egMain = "register" /\ egNext \in DOMAIN EgServers
              /\ egNext' = egNext + 1
              /\ IF EgServers[egNext] \in egConf.ports
                 THEN \/ egOpen' = egOpen \union {EgServers[egNext]} /\ UNCHANGED egMain
                      \/ egMain' = "perf" /\ UNCHANGED egOpen
                 ELSE UNCHANGED <<egOpen, egMain>>
              /\ UNCHANGED <<egConf, egPerf, egLog, egListener, egSent>>

(* Close sends on running and waits for a receiver.                          *)
EgServe == /\ egMain = "register" /\ egNext \notin DOMAIN EgServers /\ egMain' = "sending"
           /\ UNCHANGED <<egConf, egNext, egOpen, egPerf, egLog, egListener, egSent>>

\* Faulty variant: the perf counters are closed only when Run returns normally.
EgDeferPerfSkips == /\ egMain = "perf" /\ egMain' = "log"
                    /\ UNCHANGED <<egPerf, egConf, egNext, egOpen, egLog, egListener, egSent>>

(* The deferred calls, last first: the counters, the log, inject.            *)
EgDeferPerf == /\ egMain = "perf" /\ egMain' = "log" /\ egPerf' = FALSE
               /\ UNCHANGED <<egConf, egNext, egOpen, egLog, egListener, egSent>>

EgDeferLog == /\ egMain = "log" /\ egMain' = "inject" /\ egLog' = IF egConf.toFile THEN "closed" ELSE egLog
              /\ UNCHANGED <<egConf, egNext, egOpen, egPerf, egListener, egSent>>

EgDeferInject == /\ egMain = "inject" /\ egMain' = "ended" /\ egOpen' = {}
                 /\ UNCHANGED <<egConf, egNext, egPerf, egLog, egListener, egSent>>

(* A signal: shutdown has no buffer, so that it is dropped unless the        *)
(* goroutine waits for it; it then sends on running, where only another      *)
(* sender waits.                                                             *)
EgSignal == /\ egSent < EgSignals /\ egMain # "crashed" /\ egMain # "ended" /\ egSent' = egSent + 1
            /\ egListener' = IF egListener = "select" THEN "sending" ELSE egListener
            /\ UNCHANGED <<egMain, egConf, egNext, egOpen, egPerf, egLog>>

\* A hang-up is received and ignored.
EgHangup == /\ egSent < EgSignals /\ egListener = "select" /\ egSent' = egSent + 1
            /\ UNCHANGED <<egMain, egConf, egNext, egOpen, egPerf, egLog, egListener>>

EgStep == EgDefault \/ EgInitParts \/ EgRegister \/ EgServe \/ EgDeferPerf \/ EgDeferLog \/ EgDeferInject

EgNext == EgStep \/ EgSignal \/ EgHangup

EgSpec == EgInit /\ [][EgNext]_egVars

(* When Run is over, however it ended, the counters and the servers are      *)
(* closed, and each server that inject still has to close finds its log open *)
(* unless the log goes to a file.                                            *)
EgCleansUp == /\ egMain = "ended" => ~egPerf /\ egOpen = {}
              /\ egMain = "inject" /\ egLog = "closed" => egConf.toFile

(* README.md, "use `control+c` to stop process": a process that has been     *)
(* sent SIGINT while it serves comes to an end.                              *)
EgInterruptStops == (egMain = "sending" /\ egListener = "sending") ~> (egMain = "ended")
=============================================================================
