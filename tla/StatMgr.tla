------------------------------ MODULE StatMgr ------------------------------
(* runtime/stat/stat.go: timed operations are queued as pointers, added up by *)
(* command and result in one goroutine, and dumped to a file that rotates.    *)
EXTENDS Integers, Sequences, SequencesExt, FiniteSetsExt

CONSTANTS
    StStats,     \* Stat objects
    StCmds,      \* commands
    StCap,       \* places in the channel c
    StFiles,     \* MaxStatFileCount
    StEnds       \* bound: operations that are timed
ASSUME StAssumption == /\ {StCap, StFiles} \subseteq Nat \ {0}
                       /\ IsFiniteSet(StCmds) /\ StCmds # {}

VARIABLES
    stObj,       \* fields of each Stat: cmd, ret, duration class, open (begun, not ended)
    stMgr,       \* "no" (statMgr = nil), "made", "run" (the goroutine runs)
    stQ,         \* the channel c
    stM,         \* m: the entry of a command and a result, a record of counters
    stFile,      \* statFile is usable
    stDisk,      \* the dumps in the file and in .1, .2, ...; each dump a number
    stDumps,     \* dumps written so far (history)
    stEnded,     \* operations that were queued, by command (history)
    stOut,       \* operations that dumps have taken out of m (history)
    stReused     \* a Stat was begun again while it was queued (history)

stVars == <<stObj, stMgr, stQ, stM, stFile, stDisk, stDumps, stEnded, stOut, stReused>>

StRets == {0, -1}
StDurations == {5, 500}   \* a short and a long operation, in the unit of the thresholds
StNone == [total |-> 0, sum |-> 0, max |-> 0, min |-> 0, gt |-> [c \in {10, 100, 500} |-> 0]]

StInit == /\ stObj = [s \in StStats |-> [cmd |-> CHOOSE c \in StCmds : TRUE, ret |-> 0, d |-> 1, open |-> FALSE]]
          /\ stMgr = "no" /\ stQ = <<>> /\ stM = [c \in StCmds \X StRets |-> StNone]
          /\ stFile = FALSE /\ stDisk = [i \in 0 .. StFiles |-> {}] /\ stDumps = 0
          /\ stEnded = [c \in StCmds |-> 0] /\ stOut = 0 /\ stReused = FALSE

\* StatMgrInstance, then Init; without the file there is no goroutine, and nothing else changes.
StInstance == /\ stMgr = "no" /\ stMgr' = "made"
              /\ UNCHANGED <<stObj, stQ, stM, stFile, stDisk, stDumps, stEnded, stOut, stReused>>
StOpen == /\ stMgr = "made"
          /\ stMgr' = "run" /\ stFile' = TRUE
          /\ UNCHANGED <<stObj, stQ, stM, stDisk, stDumps, stEnded, stOut, stReused>>

\* Begin and its variants.
StBegin(s, cmd) == /\ ~stObj[s].open
                   /\ stObj' = [stObj EXCEPT ![s].cmd = cmd, ![s].open = TRUE]
                   /\ stReused' = (stReused \/ s \in ToSet(stQ))
                   /\ UNCHANGED <<stMgr, stQ, stM, stFile, stDisk, stDumps, stEnded, stOut>>

\* End and EndErr: dropped without a manager, blocked while the channel is full.
StEnd(s, ret, d) ==
    /\ stObj[s].open /\ SumFunction(stEnded) < StEnds
    /\ stMgr # "no" => Len(stQ) < StCap
    /\ stObj' = [stObj EXCEPT ![s].ret = ret, ![s].d = d, ![s].open = FALSE]
    /\ IF stMgr = "no" THEN UNCHANGED <<stQ, stEnded>>
       ELSE stQ' = Append(stQ, s) /\ stEnded' = [stEnded EXCEPT ![stObj[s].cmd] = @ + 1]
    /\ UNCHANGED <<stMgr, stM, stFile, stDisk, stDumps, stOut, stReused>>

\* Faulty variant: an entry that exists is replaced.
StEntryReplaced(v, d) == [v EXCEPT !.total = 1, !.sum = d, !.max = d, !.min = d]

\* stat: the entry of the command and the result that the object holds now.
StEntry(v, d) ==
    [total |-> v.total + 1, sum |-> v.sum + d,
     max |-> IF v.total = 0 \/ d > v.max THEN d ELSE v.max,
     min |-> IF v.total = 0 \/ d < v.min THEN d ELSE v.min,
     gt |-> [c \in {10, 100, 500} |->
               v.gt[c] + (IF c <= d /\ (c # 500 => d < (IF c = 10 THEN 100 ELSE 500)) THEN 1 ELSE 0)]]

StStat == /\ stMgr = "run" /\ stQ # <<>> /\ stQ' = Tail(stQ)
          /\ LET o == stObj[Head(stQ)] IN stM' = [stM EXCEPT ![<<o.cmd, o.ret>>] = StEntry(@, o.d)]
          /\ UNCHANGED <<stObj, stMgr, stFile, stDisk, stDumps, stEnded, stOut, stReused>>

\* rotateFile: each file to the next number from the back, then the current to .1.
StRotated(disk) == [i \in 0 .. StFiles |-> IF i = 0 THEN {} ELSE disk[i - 1]]

\* dump empties m; the write may fail, and then the rows are gone; a write may be
\* followed by a rotation, whose reopening may fail.
StDump(writes, rotates, reopens) ==
    LET written == [stDisk EXCEPT ![0] = @ \cup {stDumps + 1}]
    IN /\ stMgr = "run" /\ \E c \in DOMAIN stM : stM[c].total > 0
       /\ stM' = [c \in DOMAIN stM |-> StNone]
       /\ stOut' = stOut + SumFunction([c \in DOMAIN stM |-> stM[c].total])
       /\ IF writes /\ stFile
          THEN /\ stDumps' = stDumps + 1
               /\ stDisk' = IF rotates THEN StRotated(written) ELSE written
               /\ stFile' = (rotates => reopens)
          ELSE UNCHANGED <<stFile, stDisk, stDumps>>
       /\ UNCHANGED <<stObj, stMgr, stQ, stEnded, stReused>>

StNext == \/ StInstance \/ StOpen \/ StStat
          \/ \E s \in StStats : \/ \E c \in StCmds : StBegin(s, c)
                                \/ \E r \in StRets, d \in StDurations : StEnd(s, r, d)
          \/ \E w, r, o \in BOOLEAN : StDump(w, r, o)

StSpec == StInit /\ [][StNext]_stVars

(* Every operation that was queued is in the channel, in m or in a dump, once *)
(* (stat.go:166-168, 260-305), and each of its counters agrees with the others*)
StCounted ==
    /\ SumFunction(stEnded) = Len(stQ) + SumFunction([c \in DOMAIN stM |-> stM[c].total]) + stOut
    /\ \A c \in DOMAIN stM : stM[c].total > 0 =>
          /\ stM[c].min * stM[c].total <= stM[c].sum /\ stM[c].sum <= stM[c].max * stM[c].total
          /\ SumFunction(stM[c].gt) <= stM[c].total

(* An operation is counted under the command it ended with: no command ever  *)
(* has more than it queued, unless its Stat was begun again while queued.    *)
StRightCommand == stReused \/ \A cmd \in StCmds :
    stM[<<cmd, 0>>].total + stM[<<cmd, -1>>].total <= stEnded[cmd]

(* Rotation forgets only the oldest dumps: a newer dump is never missing     *)
(* while an older one is kept, and files with larger numbers are older.      *)
StRotates == LET kept == UNION {stDisk[i] : i \in 0 .. StFiles}
             IN /\ \A n \in 1 .. stDumps : (\E m \in kept : m < n) => n \in kept
                /\ \A i, j \in 0 .. StFiles : i < j => \A a \in stDisk[i], b \in stDisk[j] : b < a

\* The dumps tell the truth (stat.go:166-337): every operation is in them once,
\* under its own command, and rotation forgets the oldest only.
StExact == StCounted /\ StRightCommand /\ StRotates
=============================================================================
