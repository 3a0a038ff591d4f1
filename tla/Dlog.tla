-------------------------------- MODULE Dlog --------------------------------
(* dlog: loggers that hand records to console, file and socket writers, each  *)
(* a goroutine behind a channel; log file rotation; levels, reconfiguration   *)
(* and Close.                                                                 *)
EXTENDS Integers, Sequences, SequencesExt, FiniteSets

CONSTANTS
    LgRoutines,   \* goroutines that log
    LgLevels,     \* levels that are used, numbers
    LgConfigs,    \* XML configurations: sequences of filter elements
    LgCap,        \* LogBufferLength
    LgMaxLines,   \* maxLines of a file writer
    LgMaxNum,     \* the largest number a backup file may get (999)
    LgDays,       \* bound: days that pass
    LgCalls       \* bound: calls of the package: logging, SetLevel, Rotate, Close
\* A configuration names at most one log file: lgDisk is that file and its backups.
LgElement == [enabled : STRING, tag : STRING, type : STRING, level : Int, props : BOOLEAN]
ASSUME LgAssumption ==
    /\ {LgCap, LgMaxLines} \subseteq Nat \ {0} /\ LgMaxNum \in Nat /\ LgLevels \subseteq Int
    /\ LgConfigs \subseteq Seq(LgElement)
    /\ \A c \in LgConfigs : \A i, j \in DOMAIN c :
          {c[i].type, c[j].type} \subseteq {"file", "xml"} /\ "false" \notin {c[i].enabled, c[j].enabled}
             => i = j

VARIABLES
    lgFilters,    \* the Logger: its filters by tag, each a level and a writer
    lgW,          \* the writers made so far: kind, q, closed, loop, and for a file lines and day
    lgDisk,       \* the log file and its backups: the records in each
    lgAt,         \* where each goroutine is in its call
    lgLoad,       \* where LoadConfiguration is: "none", "closed", "deleted", "done"
    lgNow,        \* the day
    lgEnd,        \* "no", or how the process ended
    lgClosers,    \* the writers that Close or a reload has closed (history)
    lgFault,      \* the writer on whose closed channel a call panicked, 0 if none
    lgCount,      \* calls so far (bound); a record is the number of its call
    lgRec,        \* for each record, the day it was created
    lgWritten     \* the records that were written to the file (history)

lgVars == <<lgFilters, lgW, lgDisk, lgAt, lgLoad, lgNow, lgEnd, lgClosers, lgFault, lgCount,
            lgRec, lgWritten>>
lgCallVars == <<lgAt, lgCount, lgRec>>
lgFileVars == <<lgDisk, lgWritten>>
lgConfVars == <<lgFilters, lgLoad, lgClosers>>
lgEndVars == <<lgEnd, lgFault>>

(* How the functions that log differ: check, IsEnabledFor comes first; eager, *)
(* a closure is run before the levels are looked at.                          *)
LgMethod == [check |-> TRUE, eager |-> FALSE]       \* Logger.Finest .. Logger.Info
LgMethodWarn == [check |-> FALSE, eager |-> TRUE]   \* Logger.Warn .. Logger.Critical
LgGlobal == [check |-> FALSE, eager |-> FALSE]      \* Log .. Logc, Finest .. Info, DebugT .. InfoT
LgGlobalWarn == [check |-> FALSE, eager |-> TRUE]   \* Warn .. CriticalT
LgApis == {LgMethod, LgMethodWarn, LgGlobal, LgGlobalWarn}   \* the functions of gd delegate to them

LgCur == <<"cur", 0, 0>>
LgOut == [st |-> "out"]
LgSkipped(a) == [st |-> "skip", eager |-> a.eager, runs |-> a.runs]   \* a call whose level no filter wants
LgWriter(kind) == [kind |-> kind, q |-> <<>>, closed |-> FALSE, loop |-> "run", lines |-> 0, day |-> lgNow]

LgInit == /\ lgNow = 1 /\ lgLoad = "none" /\ lgEnd = "no" /\ lgClosers = {} /\ lgFault = 0
          /\ lgW = <<LgWriter("console")>>
          /\ lgFilters = [t \in {"stdout"} |-> [lvl |-> 2, w |-> 1]]
          /\ lgDisk = [n \in {LgCur} |-> <<>>] /\ lgWritten = {}
          /\ lgAt = [g \in LgRoutines |-> LgOut] /\ lgCount = 0 /\ lgRec = <<>>

LgEnabledFor(lvl) == \E t \in DOMAIN lgFilters : lvl >= lgFilters[t].lvl

\* One more call of the package.
LgOneMore == lgCount < LgCalls /\ lgCount' = lgCount + 1 /\ lgRec' = Append(lgRec, 0)

\* A call: check is IsEnabledFor; an eager closure runs now.
LgCall(g, lvl, api) ==
    /\ lgAt[g].st \in {"out", "skip"} /\ LgOneMore
    /\ lgAt' = [lgAt EXCEPT ![g] =
                  IF api.check /\ ~LgEnabledFor(lvl) THEN LgOut
                  ELSE [st |-> "test", lvl |-> lvl, eager |-> api.eager, rec |-> lgCount + 1,
                        runs |-> IF api.eager THEN 1 ELSE 0, todo |-> {}, w |-> 0]]
    /\ UNCHANGED <<lgW, lgFileVars, lgConfVars, lgNow, lgEndVars>>

\* intLogc and intLogcTag run the closure once the level is wanted.
LgLazyRuns(a) == IF a.eager THEN a.runs ELSE a.runs + 1

\* intLogf and its relatives: skip, or make the record.
LgTest(g) ==
    /\ lgAt[g].st = "test"
    /\ IF LgEnabledFor(lgAt[g].lvl)
       THEN /\ lgRec' = [lgRec EXCEPT ![lgAt[g].rec] = lgNow]
            /\ lgAt' = [lgAt EXCEPT ![g].st = "send", ![g].todo = DOMAIN lgFilters,
                                    ![g].runs = LgLazyRuns(lgAt[g])]
       ELSE lgAt' = [lgAt EXCEPT ![g] = LgSkipped(@)] /\ UNCHANGED lgRec
    /\ UNCHANGED <<lgCount, lgW, lgFileVars, lgConfVars, lgNow, lgEndVars>>

\* The call returns after the last filter.
LgNextOf(a) == IF a.todo = {} /\ a.w = 0 THEN LgOut ELSE a

\* The writer of a filter that wants the level, 0 if none does.
LgWanted(t, lvl) == IF t \in DOMAIN lgFilters /\ lvl >= lgFilters[t].lvl THEN lgFilters[t].w ELSE 0

LgVisited(a, t) == LgNextOf([a EXCEPT !.todo = @ \ {t}, !.w = LgWanted(t, a.lvl)])

\* One filter of the loop over the logger, in any order; its level is read now.
LgPick(g, t) ==
    /\ lgAt[g].st = "send" /\ lgAt[g].w = 0 /\ t \in lgAt[g].todo
    /\ lgAt' = [lgAt EXCEPT ![g] = LgVisited(@, t)]
    /\ UNCHANGED <<lgW, lgFileVars, lgConfVars, lgNow, lgEndVars, lgCount, lgRec>>

\* Faulty variant: only the 2 ms are waited for, not the stop of the file writer.
LgOnlyWhenFull(w) == lgW[w].kind \in {"file", "console"} /\ ~lgW[w].closed /\ Len(lgW[w].q) = LgCap

\* The 2 ms of LogWrite are over, or the file writer is stopped: the record goes to stderr.
LgGivesUp(w) == \/ lgW[w].kind \in {"file", "console"} /\ ~lgW[w].closed /\ Len(lgW[w].q) = LgCap
                \/ lgW[w].kind = "file" /\ lgW[w].closed

\* LogWrite: what the three kinds of writer may do with a record.
LgOpen(w) == ~lgW[w].closed \/ lgW[w].kind = "file"
LgWrite(g) ==
    LET w == lgAt[g].w
    IN /\ lgAt[g].st = "send" /\ w # 0 /\ lgAt' = [lgAt EXCEPT ![g] = LgNextOf([@ EXCEPT !.w = 0])]
       /\ \/ /\ LgOpen(w) /\ Len(lgW[w].q) < LgCap /\ lgW[w].loop # "nil"
             /\ lgW' = [lgW EXCEPT ![w].q = Append(@, lgAt[g].rec)] /\ UNCHANGED lgEndVars
          \/ LgGivesUp(w) /\ UNCHANGED <<lgW, lgEndVars>>
          \/ \* send on a closed channel
             /\ ~LgOpen(w) /\ lgEnd' = "panic" /\ lgFault' = w /\ UNCHANGED lgW
       /\ UNCHANGED <<lgFileVars, lgConfVars, lgNow, lgCount, lgRec>>
SetLevel(lvl) == /\ LgOneMore /\ UNCHANGED lgAt
                 /\ lgFilters' = [t \in DOMAIN lgFilters |-> [lgFilters[t] EXCEPT !.lvl = lvl]]
                 /\ UNCHANGED <<lgW, lgFileVars, lgLoad, lgClosers, lgNow, lgEndVars>>

\* Logger.Close closes every writer and keeps the filters; a channel that is nil panics.
LgInUse == {lgFilters[t].w : t \in DOMAIN lgFilters}
LgCloseWriters ==
    /\ lgW' = [w \in DOMAIN lgW |-> IF w \in LgInUse THEN [lgW[w] EXCEPT !.closed = TRUE] ELSE lgW[w]]
    /\ lgClosers' = lgClosers \cup LgInUse
    /\ lgEnd' = IF \E w \in LgInUse : lgW[w].loop = "nil" THEN "panic" ELSE lgEnd
    /\ UNCHANGED lgFault
LgClose == /\ \E w \in LgInUse : ~lgW[w].closed
           /\ LgOneMore /\ LgCloseWriters
           /\ UNCHANGED <<lgFilters, lgLoad, lgFileVars, lgAt, lgNow>>

\* Crash, Crashf, Exit and Exitf: the process ends, whatever the writers have left to do.
LgExit == LgOneMore /\ lgEnd' = "exit" /\ UNCHANGED <<lgW, lgFault, lgFileVars, lgConfVars, lgAt, lgNow>>

\* _loadConfiguration: close the writers, then remove the filters ...
LgLoadClose == /\ lgLoad = "none" /\ lgLoad' = "closed" /\ LgCloseWriters
               /\ UNCHANGED <<lgFilters, lgFileVars, lgCallVars, lgNow>>
LgLoadDelete == /\ lgLoad = "closed" /\ lgLoad' = "deleted" /\ lgFilters' = [t \in {} |-> 0]
                /\ UNCHANGED <<lgW, lgClosers, lgFileVars, lgCallVars, lgNow, lgEndVars>>

\* ... then make the new ones; a bad element ends the process, a disabled one is only checked.
\* A file that cannot be opened gives a nil writer, whose SetFormat panics; a socket that
\* cannot be dialled gives a nil channel.
LgBadFilter(x) == \/ x.enabled = "" \/ x.tag = "" \/ x.level \notin LgLevels
                \/ x.type \notin {"console", "file", "xml", "socket"} \/ ~x.props
LgEnabled(c) == {i \in DOMAIN c : c[i].enabled # "false"}
LgMade(x, opened) == [LgWriter(IF x.type = "xml" THEN "file" ELSE x.type)
                        EXCEPT !.loop = IF x.type = "socket" /\ ~opened THEN "nil" ELSE "run"]

\* Writer 1 is the console of the default Logger, i + 1 that of element i.
LgLoadAdd(c, opened) ==
    LET on == LgEnabled(c)
    IN /\ lgLoad = "deleted" /\ lgLoad' = "done"
       /\ IF \E i \in DOMAIN c : LgBadFilter(c[i])
          THEN lgEnd' = "exit" /\ UNCHANGED <<lgW, lgFilters>>
          ELSE IF ~opened /\ \E i \in on : c[i].type \in {"file", "xml"}
          THEN lgEnd' = "panic" /\ UNCHANGED <<lgW, lgFilters>>
          ELSE /\ lgW' = [w \in {1} \cup {i + 1 : i \in on} |->
                            IF w = 1 THEN lgW[1] ELSE LgMade(c[w - 1], opened)]
               /\ lgFilters' = [t \in {c[i].tag : i \in on} |->
                     LET i == CHOOSE i \in on : c[i].tag = t /\ \A j \in on : c[j].tag = t => j <= i
                     IN [lvl |-> c[i].level, w |-> i + 1]]
               /\ UNCHANGED lgEnd
       /\ UNCHANGED <<lgClosers, lgFault, lgFileVars, lgCallVars, lgNow>>

\* Console and socket loops: print, or end; a socket loop also ends when a write fails.
LgPrint(w) == /\ lgW[w].kind # "file" /\ lgW[w].loop = "run" /\ lgW[w].q # <<>>
              /\ \E ok \in BOOLEAN : /\ ok \/ lgW[w].kind = "socket"
                                     /\ lgW' = [lgW EXCEPT ![w].q = Tail(@),
                                                           ![w].loop = IF ok THEN "run" ELSE "ended"]
              /\ UNCHANGED <<lgFileVars, lgConfVars, lgCallVars, lgNow, lgEndVars>>
LgLoopEnds(w) == /\ lgW[w].loop = "run" /\ lgW[w].closed
                 /\ lgW[w].kind = "file" \/ lgW[w].q = <<>>
                 /\ lgW' = [lgW EXCEPT ![w].loop = "ended"]
                 /\ UNCHANGED <<lgFileVars, lgConfVars, lgCallVars, lgNow, lgEndVars>>

\* intRotateTime: the first free backup name, for the day before or for this hour.
LgBackups(w, day) == {<<IF day # lgW[w].day THEN "day" ELSE "hour",
                      IF day # lgW[w].day THEN day - 1 ELSE day, n>> : n \in 0 .. LgMaxNum}

\* Faulty variant: nobody looks whether the name is taken.
LgFreeUnchecked(w, day) == LgBackups(w, day)

LgFree(w, day) == {n \in LgBackups(w, day) : n \notin DOMAIN lgDisk}
LgFirstFree(w, day) == CHOOSE n \in LgFree(w, day) : \A m \in LgFree(w, day) : n[3] <= m[3]

LgRotated(w, day) == [n \in DOMAIN lgDisk \cup {LgFirstFree(w, day)} |->
                      IF n = LgCur THEN <<>> ELSE IF n = LgFirstFree(w, day) THEN lgDisk[LgCur] ELSE lgDisk[n]]

\* The panics of the loop, when no name is free or a call fails.
LgStuck(w) == lgEnd' = "panic" /\ UNCHANGED <<lgW, lgFileVars, lgFault>>

\* The loop of a file writer takes a record, rotates if it must, and writes.
LgFile(w) ==
    LET r == Head(lgW[w].q)
        day == lgRec[r]
        turn == lgW[w].lines >= LgMaxLines \/ day # lgW[w].day
        disk == IF turn THEN LgRotated(w, day) ELSE lgDisk
    IN /\ lgW[w].kind = "file" /\ lgW[w].loop = "run" /\ lgW[w].q # <<>>
       /\ IF turn /\ LgFree(w, day) = {} THEN LgStuck(w)
          ELSE /\ lgDisk' = [disk EXCEPT ![LgCur] = Append(@, r)] /\ lgWritten' = lgWritten \cup {r}
               /\ lgW' = [lgW EXCEPT ![w].q = Tail(@), ![w].lines = IF turn THEN 1 ELSE @ + 1,
                                     ![w].day = IF turn THEN day ELSE @]
               /\ UNCHANGED lgEndVars
       /\ UNCHANGED <<lgConfVars, lgCallVars, lgNow>>

\* Rotate, taken by the loop from the channel rot.
LgRotate(w) == /\ lgW[w].kind = "file" /\ lgW[w].loop = "run" /\ LgOneMore
               /\ IF LgFree(w, lgNow) = {} THEN LgStuck(w)
                  ELSE /\ lgDisk' = LgRotated(w, lgNow) /\ UNCHANGED <<lgWritten, lgEndVars>>
                       /\ lgW' = [lgW EXCEPT ![w].lines = 0, ![w].day = lgNow]
               /\ UNCHANGED <<lgConfVars, lgAt, lgNow>>

LgMidnight == /\ lgNow < LgDays /\ lgNow' = lgNow + 1
              /\ UNCHANGED <<lgW, lgFileVars, lgConfVars, lgCallVars, lgEndVars>>

LgNext == /\ lgEnd = "no"
          /\ \/ \E g \in LgRoutines : \/ \E lvl \in LgLevels, a \in LgApis : LgCall(g, lvl, a)
                                      \/ LgTest(g) \/ LgWrite(g)
                                      \/ \E t \in {"stdout", "file", "sock"} : LgPick(g, t)
             \/ \E lvl \in LgLevels : SetLevel(lvl)
             \/ LgClose \/ LgExit \/ LgLoadClose \/ LgLoadDelete \/ LgMidnight
             \/ \E c \in LgConfigs, d \in BOOLEAN : LgLoadAdd(c, d)
             \/ \E w \in DOMAIN lgW : LgPrint(w) \/ LgLoopEnds(w) \/ LgFile(w) \/ LgRotate(w)

LgSpec == LgInit /\ [][LgNext]_lgVars

(* A record that was written stays in exactly one file through all           *)
(* rotations, by lines, by day and by hand (filelog.go:138-148, 183-290).    *)
LgKept == \A r \in lgWritten : \E n \in DOMAIN lgDisk :
             /\ r \in ToSet(lgDisk[n])
             /\ \A m \in DOMAIN lgDisk \ {n} : r \notin ToSet(lgDisk[m])

(* A closure runs at most once, and a lazy one runs only when some filter    *)
(* wanted the message at the test (log4go.go:525, 597).                      *)
LgClosure == \A g \in LgRoutines : lgAt[g].st # "out" =>
    /\ lgAt[g].runs <= 1
    /\ lgAt[g].st = "skip" /\ ~lgAt[g].eager => lgAt[g].runs = 0

(* A call that logs panics only on a writer that Close or a reload closed:   *)
(* both leave the filters in place, so that whoever logs afterwards, or holds *)
(* a filter meanwhile, sends on it (log4go.go:174-180, config.go:76-79).      *)
LgPanics == lgFault # 0 => lgFault \in lgClosers

LgPending == \E w \in DOMAIN lgW : lgW[w].kind = "file" /\ ~lgW[w].closed /\ lgW[w].q # <<>>

(* A record in the channel of a file writer is written, as long as nobody    *)
(* closes it: a writer that cannot go on ends the process rather than leave  *)
(* its callers to a full channel (the BUG FIX of filelog.go:130-132).        *)
LgDrains == LgPending ~> (~LgPending \/ lgEnd # "no")

(* A call that logs returns, whatever the file and console writers do; only  *)
(* a socket whose loop has ended, or that was never dialled, holds it.       *)
LgReturns == \A g \in LgRoutines : lgAt[g].st = "send" ~>
    \/ lgAt[g].st = "out" \/ lgEnd # "no"
    \/ \E w \in DOMAIN lgW : lgW[w].kind = "socket" /\ lgW[w].loop # "run"

\* Logging is safe (log4go.go:170-353, filelog.go:94-290, config.go:37-80): what
\* was written is kept through rotations, a lazy closure runs only for a level
\* that is logged, and only a Close or a reload makes a logging call panic.
LgSafe == LgKept /\ LgClosure /\ LgPanics

\* Logging goes on (filelog.go:59-134, socklog.go:27-60): a file writer empties its channel or ends the process, and a
\* goroutine that logs returns, but for the sockets named in LgReturns.
LgLive == LgDrains /\ LgReturns
=============================================================================
