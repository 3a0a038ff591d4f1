----------------------------- MODULE DlogProofs -----------------------------
(* Logging is safe, for any number of goroutines, levels, configurations of   *)
(* one log file, lines per file, backups and days.                            *)
EXTENDS Dlog, SequenceTheorems, NaturalsInduction, WellFoundedInduction, TLAPS

-----------------------------------------------------------------------------
(* The invariant.                                                            *)

LgIsFile(w) == w \in DOMAIN lgW /\ lgW[w].kind = "file"
LgFileTag(t) == t \in DOMAIN lgFilters /\ LgIsFile(lgFilters[t].w)
LgActive(g) == lgAt[g].st \in {"test", "send"}

\* The call of g may still hand its record to the file writer.
LgToFile(g) == \/ lgAt[g].st = "test"
               \/ lgAt[g].st = "send" /\ (LgIsFile(lgAt[g].w) \/ \E t \in lgAt[g].todo : LgFileTag(t))

\* The record is in the channel of a file writer, or has left it for the file.
LgHandedOver(r) == r \in lgWritten \/ \E w \in DOMAIN lgW : LgIsFile(w) /\ r \in ToSet(lgW[w].q)

\* The tags of filters; the default Logger has one, stdout.
LgTags == STRING \cup {"stdout"}

LgWriterType == [kind : {"console", "file", "socket"}, q : Seq(Nat), closed : BOOLEAN,
                 loop : {"run", "nil", "ended"}, lines : Nat, day : Nat]
LgCallType == [st : {"test", "send"}, lvl : Int, eager : BOOLEAN, rec : Nat, runs : {0, 1},
               todo : SUBSET LgTags, w : Nat]
LgSkipType == [st : {"skip"}, eager : BOOLEAN, runs : {0, 1}]

LgTypes ==
    /\ lgCount \in Nat /\ lgNow \in Nat /\ lgRec \in Seq(Nat) /\ Len(lgRec) = lgCount
    /\ DOMAIN lgW \subseteq Nat \ {0} /\ lgW \in [DOMAIN lgW -> LgWriterType]
    /\ DOMAIN lgFilters \subseteq LgTags /\ lgFilters \in [DOMAIN lgFilters -> [lvl : Int, w : DOMAIN lgW]]
    /\ lgAt \in [LgRoutines -> LgCallType \cup LgSkipType \cup {LgOut}]
    /\ lgLoad \in {"none", "closed", "deleted", "done"}
    /\ lgWritten \subseteq 1..lgCount
    /\ LgCur \in DOMAIN lgDisk /\ lgDisk \in [DOMAIN lgDisk -> Seq(Nat)]

\* There is one file writer, under one tag, and none before the configuration is
\* loaded; who closed a writer is remembered.
LgWritersInv ==
    /\ lgLoad # "done" => DOMAIN lgW = {1} /\ lgW[1].kind = "console" /\ lgWritten = {}
    /\ \A w, v \in DOMAIN lgW : LgIsFile(w) /\ LgIsFile(v) => v = w
    /\ \A t, u \in DOMAIN lgFilters : LgFileTag(t) /\ LgFileTag(u) => t = u
    /\ \A w \in DOMAIN lgW : lgW[w].closed => w \in lgClosers

\* A record is in the channel of the file writer once, and not in the file yet.
LgGoodQueue(q) == /\ ToSet(q) \subseteq 1..lgCount /\ ToSet(q) \cap lgWritten = {}
                  /\ \A i, j \in 1..Len(q) : q[i] = q[j] => i = j
LgQueueInv == \A w \in DOMAIN lgW : LgIsFile(w) => LgGoodQueue(lgW[w].q)

\* Calls have records of their own, and hand them to the file writer once.
LgSound(a) == /\ a.w \in DOMAIN lgW \cup {0} /\ (a.st = "test" => a.w = 0)
              /\ LgIsFile(a.w) => \A t \in a.todo : ~LgFileTag(t)
LgCallInv(g) ==
    /\ lgAt[g].rec \in 1..lgCount
    /\ LgToFile(g) => ~LgHandedOver(lgAt[g].rec)
    /\ LgSound(lgAt[g])
LgCallsInv ==
    /\ \A g \in LgRoutines : LgActive(g) => LgCallInv(g)
    /\ \A g, h \in LgRoutines : LgActive(g) /\ LgActive(h) /\ lgAt[h].rec = lgAt[g].rec => h = g

\* The closure has run before the test if it is eager.
LgRunsInv == \A g \in LgRoutines :
    lgAt[g].st \in {"test", "skip"} => lgAt[g].runs = IF lgAt[g].eager THEN 1 ELSE 0

\* The files hold written records only.
LgDiskInv == LgKept /\ \A n \in DOMAIN lgDisk : ToSet(lgDisk[n]) \subseteq lgWritten

LgInv == /\ LgTypes /\ LgWritersInv /\ LgQueueInv /\ LgCallsInv /\ LgRunsInv /\ LgDiskInv
         /\ LgPanics

-----------------------------------------------------------------------------
(* Sequences and records.                                                    *)

\* The members of a sequence.
LEMMA LgMembers ==
    ASSUME NEW S, NEW s \in Seq(S)
    PROVE  /\ \A x : x \in ToSet(s) <=> \E i \in 1..Len(s) : s[i] = x
           /\ ToSet(s) \subseteq S /\ Len(s) \in Nat
  BY DEF ToSet

\* A record is appended.
LEMMA LgAppended ==
    ASSUME NEW s \in Seq(Nat), NEW e \in Nat
    PROVE  /\ Append(s, e) \in Seq(Nat) /\ ToSet(Append(s, e)) = ToSet(s) \cup {e}
           /\ (\A i, j \in 1..Len(s) : s[i] = s[j] => i = j) /\ e \notin ToSet(s) =>
                 \A i, j \in 1..Len(Append(s, e)) : Append(s, e)[i] = Append(s, e)[j] => i = j
  <1> PICK a : a = Append(s, e)
    OBVIOUS
  <1>1. /\ a \in Seq(Nat) /\ Len(a) = Len(s) + 1 /\ Len(s) \in Nat /\ a[Len(s) + 1] = e
        /\ \A i \in 1..Len(s) : a[i] = s[i]
    OBVIOUS
  <1>2. /\ \A x : x \in ToSet(s) <=> \E i \in 1..Len(s) : s[i] = x
        /\ \A x : x \in ToSet(a) <=> \E i \in 1..Len(a) : a[i] = x
    BY <1>1, LgMembers
  <1>3. \A i \in 1..Len(a) : i \in 1..Len(s) \/ i = Len(s) + 1
    BY <1>1
  <1>4. 1..Len(s) \subseteq 1..Len(a) /\ Len(s) + 1 \in 1..Len(a)
    BY <1>1
  <1>5. \A x : x \in ToSet(a) <=> x \in ToSet(s) \cup {e}
    BY <1>1, <1>2, <1>3, <1>4
  <1>6. ASSUME \A i, j \in 1..Len(s) : s[i] = s[j] => i = j, e \notin ToSet(s),
               NEW i \in 1..Len(a), NEW j \in 1..Len(a), a[i] = a[j]
        PROVE  i = j
    BY <1>1, <1>2, <1>3, <1>6
  <1> QED
    BY <1>1, <1>5, <1>6

\* The oldest record is taken.
LEMMA LgTaken ==
    ASSUME NEW s \in Seq(Nat), s # <<>>
    PROVE  /\ Tail(s) \in Seq(Nat) /\ Head(s) \in Nat /\ Head(s) \in ToSet(s) /\ ToSet(Tail(s)) \subseteq ToSet(s)
           /\ (\A i, j \in 1..Len(s) : s[i] = s[j] => i = j) =>
                 /\ Head(s) \notin ToSet(Tail(s))
                 /\ \A i, j \in 1..Len(Tail(s)) : Tail(s)[i] = Tail(s)[j] => i = j
  <1> PICK b, h : b = Tail(s) /\ h = Head(s)
    OBVIOUS
  <1>1. /\ b \in Seq(Nat) /\ h \in Nat /\ Len(s) \in Nat \ {0} /\ Len(b) = Len(s) - 1
        /\ h = s[1] /\ \A i \in 1..Len(b) : b[i] = s[i + 1]
    BY HeadTailProperties, LenProperties, EmptySeq
  <1>2. /\ \A x : x \in ToSet(s) <=> \E i \in 1..Len(s) : s[i] = x
        /\ \A x : x \in ToSet(b) <=> \E i \in 1..Len(b) : b[i] = x
    <2>1. \A x : x \in ToSet(s) <=> \E i \in 1..Len(s) : s[i] = x
      BY LgMembers
    <2>2. \A x : x \in ToSet(b) <=> \E i \in 1..Len(b) : b[i] = x
      <3>1. b \in Seq(Nat)
        BY <1>1
      <3> QED
        BY ONLY <3>1, LgMembers
    <2> QED
      BY <2>1, <2>2
  <1>3. 1 \in 1..Len(s) /\ \A i \in 1..Len(b) : i + 1 \in 1..Len(s) /\ i + 1 # 1
    BY <1>1
  <1>4. h \in ToSet(s) /\ ToSet(b) \subseteq ToSet(s)
    BY <1>1, <1>2, <1>3
  <1>5. ASSUME \A i, j \in 1..Len(s) : s[i] = s[j] => i = j
        PROVE  h \notin ToSet(b)
    BY <1>1, <1>2, <1>3, <1>5
  <1>6. ASSUME \A i, j \in 1..Len(s) : s[i] = s[j] => i = j,
               NEW i \in 1..Len(b), NEW j \in 1..Len(b), b[i] = b[j]
        PROVE  i = j
    <2>1. s[i + 1] = s[j + 1] /\ i + 1 \in 1..Len(s) /\ j + 1 \in 1..Len(s)
      BY <1>1, <1>3, <1>6
    <2>2. i + 1 = j + 1
      BY <1>6, <2>1
    <2> QED
      BY <2>2
  <1> QED
    BY <1>1, <1>4, <1>5, <1>6

\* No record is in an empty channel.
LEMMA LgNothing == ToSet(<<>>) = {} /\ <<>> \in Seq(Nat) /\ Len(<<>>) = 0
  BY DEF ToSet

\* The fields of a call, and after each of its steps.
LEMMA LgCallFields ==
    ASSUME NEW a \in LgCallType
    PROVE  /\ a.st \in {"test", "send"} /\ a.w \in Nat /\ a.rec \in Nat /\ a.todo \subseteq LgTags
           /\ a.runs \in {0, 1} /\ a.eager \in BOOLEAN
           /\ LgSkipped(a) \in LgSkipType /\ LgSkipped(a).st = "skip"
           /\ LgSkipped(a).eager = a.eager /\ LgSkipped(a).runs = a.runs
  BY DEF LgCallType, LgSkipType, LgSkipped

LgTested(a, T) == [a EXCEPT !.st = "send", !.todo = T, !.runs = 1]
LgPicked(a, t, v) == [a EXCEPT !.todo = a.todo \ {t}, !.w = v]
LgSent(a) == [a EXCEPT !.w = 0]

LEMMA LgTestedFields ==
    ASSUME NEW a \in LgCallType, NEW T \in SUBSET LgTags
    PROVE  /\ LgTested(a, T) \in LgCallType /\ LgTested(a, T).st = "send"
           /\ LgTested(a, T).w = a.w /\ LgTested(a, T).rec = a.rec
  BY DEF LgCallType, LgTested

LEMMA LgPickedFields ==
    ASSUME NEW a \in LgCallType, NEW t, NEW v \in Nat
    PROVE  /\ LgPicked(a, t, v) \in LgCallType /\ LgPicked(a, t, v).st = a.st
           /\ LgPicked(a, t, v).todo = a.todo \ {t} /\ LgPicked(a, t, v).w = v
           /\ LgPicked(a, t, v).rec = a.rec
  BY DEF LgCallType, LgPicked

LEMMA LgSentFields ==
    ASSUME NEW a \in LgCallType
    PROVE  /\ LgSent(a) \in LgCallType /\ LgSent(a).st = a.st /\ LgSent(a).todo = a.todo
           /\ LgSent(a).w = 0 /\ LgSent(a).rec = a.rec
  BY DEF LgCallType, LgSent

\* A goroutine that is active has a call.
LEMMA LgActiveCall ==
    ASSUME LgTypes, NEW g \in LgRoutines
    PROVE  /\ LgActive(g) <=> lgAt[g] \in LgCallType
           /\ lgAt[g].st \in {"out", "skip", "test", "send"}
           /\ lgAt[g].st = "skip" => lgAt[g] \in LgSkipType
  <1>1. lgAt[g] \in LgCallType \cup LgSkipType \cup {LgOut}
    BY DEF LgTypes
  <1>2. \A a \in LgCallType : a.st \in {"test", "send"}
    BY DEF LgCallType
  <1>3. \A a \in LgSkipType : a.st = "skip"
    BY DEF LgSkipType
  <1>4. LgOut.st = "out"
    BY DEF LgOut
  <1> QED
    BY <1>1, <1>2, <1>3, <1>4 DEF LgActive

\* The calls are where they were, and no record was handed over.
LEMMA LgCallsStay ==
    ASSUME LgInv, lgAt' = lgAt, lgCount' \in {lgCount, lgCount + 1},
           DOMAIN lgW' = DOMAIN lgW, \A w \in DOMAIN lgW : lgW'[w].kind = lgW[w].kind,
           \A t : LgFileTag(t)' => LgFileTag(t),
           \A r : LgHandedOver(r)' => LgHandedOver(r)
    PROVE  LgCallsInv' /\ LgRunsInv'
  <1>0. LgTypes /\ LgCallsInv /\ LgRunsInv
    BY DEF LgInv
  <1>1. \A w : LgIsFile(w)' <=> LgIsFile(w)
    BY DEF LgIsFile
  <1>2. \A g : LgActive(g)' <=> LgActive(g)
    BY DEF LgActive
  <1>3. \A g : LgToFile(g)' => LgToFile(g)
    BY <1>1 DEF LgToFile
  <1>4. 1..lgCount \subseteq 1..lgCount'
    BY <1>0 DEF LgTypes
  <1>5. ASSUME NEW g \in LgRoutines, LgActive(g)' PROVE LgCallInv(g)'
    <2> PICK a : a = lgAt[g]
      OBVIOUS
    <2>1. LgCallInv(g)
      BY <1>0, <1>2, <1>5 DEF LgCallsInv
    <2>2. a.rec \in 1..lgCount' /\ (LgToFile(g)' => ~LgHandedOver(a.rec)')
      BY <1>3, <1>4, <2>1 DEF LgCallInv
    <2> QED
      BY <1>1, <2>1, <2>2 DEF LgCallInv, LgSound, LgHandedOver
  <1>6. LgRunsInv'
    BY <1>0 DEF LgRunsInv
  <1> QED
    BY <1>0, <1>2, <1>5, <1>6 DEF LgCallsInv

\* One call moves; the others are where they were. If it hands its record over,
\* it will not do so again.
LEMMA LgCallMoves ==
    ASSUME LgInv, NEW g \in LgRoutines, lgCount' = lgCount, lgFilters' = lgFilters,
           \A h \in LgRoutines \ {g} : lgAt'[h] = lgAt[h],
           DOMAIN lgW' = DOMAIN lgW, \A w \in DOMAIN lgW : lgW'[w].kind = lgW[w].kind,
           LgActive(g), LgActive(g)' => lgAt'[g].rec = lgAt[g].rec,
           \A r : LgHandedOver(r)' => LgHandedOver(r) \/ r = lgAt[g].rec,
           LgActive(g)' /\ LgToFile(g)' => LgToFile(g) /\ ~LgHandedOver(lgAt[g].rec)',
           LgActive(g)' => LgSound(lgAt'[g])
    PROVE  LgCallsInv'
  <1>0. LgTypes /\ LgCallsInv
    BY DEF LgInv
  <1>1. \A w : LgIsFile(w)' <=> LgIsFile(w)
    BY DEF LgIsFile
  <1>2. \A h \in LgRoutines : LgActive(h)' => LgActive(h) /\ lgAt'[h].rec = lgAt[h].rec
    BY DEF LgActive
  <1>3. \A t : LgFileTag(t)' <=> LgFileTag(t)
    BY <1>1 DEF LgFileTag
  <1>4. ASSUME NEW h \in LgRoutines \ {g}, LgActive(h)' PROVE LgCallInv(h)'
    <2> PICK a, b : a = lgAt[h] /\ b = lgAt[g]
      OBVIOUS
    <2>1. LgCallInv(h) /\ a = lgAt'[h] /\ a.rec # b.rec
      BY <1>0, <1>2, <1>4 DEF LgCallsInv
    <2>2. LgToFile(h)' => LgToFile(h)
      BY <1>1, <1>3, <2>1 DEF LgToFile
    <2>3. LgToFile(h)' => ~LgHandedOver(a.rec)'
      BY <2>1, <2>2 DEF LgCallInv
    <2>4. LgToFile(h)' => ~LgHandedOver(lgAt[h].rec)'
      BY <2>1, <2>3 DEF LgHandedOver
    <2> QED
      BY <1>1, <1>3, <2>1, <2>4 DEF LgCallInv, LgSound
  <1>5. ASSUME LgActive(g)' PROVE LgCallInv(g)'
    <2>1. LgCallInv(g)
      BY <1>0 DEF LgCallsInv
    <2>2. LgToFile(g)' => ~LgHandedOver(lgAt[g].rec)'
      BY <1>5
    <2> QED
      BY <1>1, <1>3, <1>5, <2>1, <2>2 DEF LgCallInv, LgSound
  <1> QED
    BY <1>0, <1>2, <1>4, <1>5 DEF LgCallsInv

-----------------------------------------------------------------------------
(* The calls.                                                                *)

\* A step of the calls that leaves the writers, the files and the filters alone.
LEMMA LgOthersStay ==
    ASSUME LgInv, LgTypes', lgCount' \in {lgCount, lgCount + 1},
           UNCHANGED <<lgW, lgFileVars, lgConfVars, lgEndVars>>
    PROVE  LgWritersInv' /\ LgQueueInv' /\ LgDiskInv' /\ LgPanics'
  <1> USE DEF lgFileVars, lgConfVars, lgEndVars
  <1>0. LgTypes /\ LgWritersInv /\ LgQueueInv /\ LgDiskInv /\ LgPanics
    BY DEF LgInv
  <1>1. (\A w : LgIsFile(w)' <=> LgIsFile(w)) /\ (\A t : LgFileTag(t)' <=> LgFileTag(t))
    BY DEF LgIsFile, LgFileTag
  <1>2. 1..lgCount \subseteq 1..lgCount'
    BY <1>0 DEF LgTypes
  <1>3. LgWritersInv'
    BY <1>0, <1>1 DEF LgWritersInv
  <1>4. LgQueueInv'
    <2>1. \A q : LgGoodQueue(q) => LgGoodQueue(q)'
      BY <1>2 DEF LgGoodQueue
    <2> SUFFICES ASSUME NEW w \in DOMAIN lgW, LgIsFile(w) PROVE LgGoodQueue(lgW[w].q)'
      BY <1>1 DEF LgQueueInv
    <2> PICK q : q = lgW[w].q
      OBVIOUS
    <2>2. LgGoodQueue(q)
      BY <1>0 DEF LgQueueInv
    <2>3. LgGoodQueue(q)'
      BY <2>1, <2>2
    <2> QED
      BY <2>3 DEF LgGoodQueue
  <1>5. LgDiskInv' /\ LgPanics'
    BY <1>0 DEF LgDiskInv, LgKept, LgPanics
  <1> QED
    BY <1>3, <1>4, <1>5

\* A new call: its record is new.
LEMMA LgCallStep ==
    ASSUME LgInv, NEW g \in LgRoutines, NEW lvl \in LgLevels, NEW api \in LgApis, LgCall(g, lvl, api)
    PROVE  LgInv'
  <1> USE DEF lgFileVars, lgConfVars, lgEndVars
  <1>0. LgTypes /\ LgQueueInv /\ LgCallsInv /\ LgRunsInv
    BY DEF LgInv
  <1>1. /\ lgCount \in Nat /\ lgCount' = lgCount + 1 /\ lgRec' = Append(lgRec, 0)
        /\ UNCHANGED <<lgW, lgFileVars, lgConfVars, lgNow, lgEndVars>>
    BY <1>0 DEF LgCall, LgOneMore, LgTypes
  <1>2. api.eager \in BOOLEAN
    <2>1. LgMethod.eager = FALSE /\ LgMethodWarn.eager = TRUE /\ LgGlobal.eager = FALSE /\ LgGlobalWarn.eager = TRUE
      BY DEF LgMethod, LgMethodWarn, LgGlobal, LgGlobalWarn
    <2>2. api = LgMethod \/ api = LgMethodWarn \/ api = LgGlobal \/ api = LgGlobalWarn
      BY DEF LgApis
    <2> QED
      BY <2>1, <2>2
  <1> PICK a : a = [st |-> "test", lvl |-> lvl, eager |-> api.eager, rec |-> lgCount + 1,
                    runs |-> IF api.eager THEN 1 ELSE 0, todo |-> {}, w |-> 0]
    OBVIOUS
  <1>3. lgAt' = [lgAt EXCEPT ![g] = a] \/ lgAt' = [lgAt EXCEPT ![g] = LgOut]
    BY DEF LgCall
  <1>4. /\ a \in LgCallType /\ a.st = "test" /\ a.rec = lgCount + 1 /\ a.w = 0 /\ a.todo = {}
        /\ a.runs = IF a.eager THEN 1 ELSE 0
    BY <1>1, <1>2, LgAssumption DEF LgCallType
  <1>5. \A h \in LgRoutines : h # g => lgAt'[h] = lgAt[h]
    BY <1>0, <1>3 DEF LgTypes
  <1>6. lgAt'[g] = a \/ lgAt'[g] = LgOut
    BY <1>0, <1>3 DEF LgTypes
  <1>7. LgTypes'
    <2>1. lgRec' \in Seq(Nat) /\ Len(lgRec') = lgCount'
      BY <1>0, <1>1 DEF LgTypes
    <2>2. lgAt' \in [LgRoutines -> LgCallType \cup LgSkipType \cup {LgOut}]
      BY <1>0, <1>3, <1>4 DEF LgTypes
    <2>3. lgWritten' \subseteq 1..lgCount'
      BY <1>0, <1>1 DEF LgTypes
    <2> QED
      BY <1>0, <1>1, <2>1, <2>2, <2>3 DEF LgTypes
  <1>8. \A r : LgHandedOver(r)' => LgHandedOver(r) /\ r \in 1..lgCount
    BY <1>0, <1>1 DEF LgHandedOver, LgIsFile, LgQueueInv, LgGoodQueue, LgTypes
  <1>9. (\A w : LgIsFile(w)' <=> LgIsFile(w)) /\ (\A t : LgFileTag(t)' <=> LgFileTag(t))
    BY <1>1 DEF LgIsFile, LgFileTag
  <1>10. ~LgIsFile(0)
    BY <1>0 DEF LgIsFile, LgTypes
  <1>11. \A h \in LgRoutines : LgActive(h)' => (h = g /\ lgAt'[g] = a) \/ (h # g /\ LgActive(h) /\ lgAt[h].rec \in 1..lgCount)
    <2>1. LgOut.st = "out"
      BY DEF LgOut
    <2>2. LgActive(g)' => lgAt'[g] = a
      BY <1>6, <2>1 DEF LgActive
    <2>3. \A h \in LgRoutines : h # g /\ LgActive(h)' => LgActive(h)
      BY <1>5 DEF LgActive
    <2>4. \A h \in LgRoutines : LgActive(h) => lgAt[h].rec \in 1..lgCount
      BY <1>0 DEF LgCallsInv, LgCallInv
    <2> QED
      BY <2>2, <2>3, <2>4
  <1>12. ASSUME NEW h \in LgRoutines, h # g, LgActive(h)' PROVE LgCallInv(h)'
    <2> PICK b : b = lgAt[h]
      OBVIOUS
    <2>1. LgCallInv(h) /\ lgAt'[h] = b
      BY <1>0, <1>5, <1>11, <1>12 DEF LgCallsInv
    <2>2. LgToFile(h)' => LgToFile(h)
      BY <1>9, <2>1 DEF LgToFile
    <2>3. LgToFile(h)' => ~LgHandedOver(b.rec)'
      BY <1>8, <2>1, <2>2 DEF LgCallInv
    <2>4. LgToFile(h)' => ~LgHandedOver(lgAt[h].rec)'
      BY <2>1, <2>3 DEF LgHandedOver
    <2>5. b.rec \in 1..lgCount'
      BY <1>1, <2>1 DEF LgCallInv
    <2> QED
      BY <1>1, <1>9, <2>1, <2>4, <2>5 DEF LgCallInv, LgSound
  <1>13. ASSUME LgActive(g)' PROVE LgCallInv(g)'
    <2>1. lgAt'[g] = a
      BY <1>11, <1>13
    <2>2. a.rec \notin 1..lgCount /\ a.rec \in 1..lgCount'
      BY <1>1, <1>4
    <2>3. ~LgHandedOver(a.rec)'
      BY <1>8, <2>2
    <2>4. ~LgHandedOver(lgAt[g].rec)'
      BY <2>1, <2>3 DEF LgHandedOver
    <2> QED
      BY <1>4, <1>9, <1>10, <2>1, <2>2, <2>4 DEF LgCallInv, LgSound
  <1>14. LgCallsInv'
    <2>1. lgCount + 1 \notin 1..lgCount
      BY <1>1
    <2>2. ASSUME NEW f \in LgRoutines, NEW h \in LgRoutines, LgActive(f)', LgActive(h)',
                 lgAt'[h].rec = lgAt'[f].rec
          PROVE  h = f
      BY <1>0, <1>4, <1>5, <1>11, <2>1, <2>2 DEF LgCallsInv
    <2> QED
      BY <1>12, <1>13, <2>2 DEF LgCallsInv
  <1>15. LgRunsInv'
    <2>1. LgOut.st = "out"
      BY DEF LgOut
    <2> QED
      BY <1>0, <1>4, <1>5, <1>6, <2>1 DEF LgRunsInv
  <1> QED
    BY <1>1, <1>7, <1>14, <1>15, LgOthersStay DEF LgInv

\* The test: the level is not wanted, or the record is made and the filters are to be visited.
LEMMA LgTestStep ==
    ASSUME LgInv, NEW g \in LgRoutines, LgTest(g)
    PROVE  LgInv'
  <1> USE DEF lgFileVars, lgConfVars, lgEndVars
  <1>0. LgTypes /\ LgCallsInv /\ LgRunsInv
    BY DEF LgInv
  <1> PICK a : a = lgAt[g]
    OBVIOUS
  <1>1. /\ UNCHANGED <<lgCount, lgW, lgFileVars, lgConfVars, lgNow, lgEndVars>>
        /\ a.st = "test" /\ LgActive(g) /\ a \in LgCallType /\ LgCallInv(g) /\ a.w = 0 /\ LgToFile(g)
    BY <1>0, LgActiveCall DEF LgTest, LgActive, LgCallsInv, LgCallInv, LgSound, LgToFile
  <1>2. a.runs = (IF a.eager THEN 1 ELSE 0) /\ LgLazyRuns(a) = 1
    <2>1. a.runs = IF a.eager THEN 1 ELSE 0
      BY <1>0, <1>1 DEF LgRunsInv
    <2>2. a.eager \in BOOLEAN
      BY <1>1, LgCallFields
    <2>3. CASE a.eager
      BY <2>1, <2>3 DEF LgLazyRuns
    <2>4. CASE ~a.eager
      BY <2>1, <2>4 DEF LgLazyRuns
    <2> QED
      BY <2>1, <2>3, <2>4
  <1> PICK b : b = LgTested(a, DOMAIN lgFilters)
    OBVIOUS
  <1>3. b \in LgCallType /\ b.st = "send" /\ b.w = 0 /\ b.rec = a.rec
    <2>1. DOMAIN lgFilters \in SUBSET LgTags
      BY <1>0 DEF LgTypes
    <2> QED
      BY <1>1, <2>1, LgTestedFields
  <1>4. \/ lgAt' = [lgAt EXCEPT ![g] = b] /\ lgRec' = [lgRec EXCEPT ![a.rec] = lgNow]
        \/ lgAt' = [lgAt EXCEPT ![g] = LgSkipped(a)] /\ lgRec' = lgRec
    BY <1>2 DEF LgTest, LgTested
  <1>5. /\ LgSkipped(a) \in LgSkipType /\ LgSkipped(a).st = "skip" /\ LgSkipped(a).eager = a.eager
        /\ LgSkipped(a).runs = a.runs
    BY <1>1, LgCallFields
  <1>6. /\ \A h \in LgRoutines \ {g} : lgAt'[h] = lgAt[h]
        /\ lgAt'[g] = b \/ lgAt'[g] = LgSkipped(a)
    BY <1>0, <1>4 DEF LgTypes
  <1>7. LgTypes'
    <2>1. lgAt' \in [LgRoutines -> LgCallType \cup LgSkipType \cup {LgOut}]
      BY <1>0, <1>3, <1>4, <1>5 DEF LgTypes
    <2>2. lgRec' \in Seq(Nat) /\ Len(lgRec') = lgCount
      <3>1. lgRec \in Seq(Nat) /\ lgNow \in Nat /\ Len(lgRec) = lgCount /\ a.rec \in 1..Len(lgRec)
        BY <1>0, <1>1 DEF LgTypes, LgCallInv
      <3>2. LET s == [lgRec EXCEPT ![a.rec] = lgNow] IN s \in Seq(Nat) /\ Len(s) = Len(lgRec)
        BY <3>1, ExceptSeq
      <3> QED
        BY <1>4, <3>1, <3>2
    <2> QED
      BY <1>0, <1>1, <2>1, <2>2 DEF LgTypes
  <1>8. \A r : LgHandedOver(r)' <=> LgHandedOver(r)
    BY <1>1 DEF LgHandedOver, LgIsFile
  <1>9. LgCallsInv'
    <2>1. LgActive(g)' => lgAt'[g] = b
      BY <1>5, <1>6 DEF LgActive
    <2>2. ~LgIsFile(0)
      BY <1>0 DEF LgIsFile, LgTypes
    <2>3. ~LgHandedOver(a.rec)'
      BY <1>1, <1>8 DEF LgCallInv
    <2>4. LgActive(g)' => ~LgHandedOver(lgAt[g].rec)'
      BY <1>3, <2>1, <2>3 DEF LgHandedOver
    <2> QED
      <3>1. LgActive(g)' => LgSound(lgAt'[g])
        BY <1>3, <2>1, <2>2 DEF LgSound
      <3> QED
        BY <1>1, <1>3, <1>6, <1>8, <2>1, <2>4, <3>1, LgCallMoves
  <1>10. LgRunsInv'
    BY <1>0, <1>2, <1>3, <1>5, <1>6 DEF LgRunsInv
  <1> QED
    BY <1>1, <1>7, <1>9, <1>10, LgOthersStay DEF LgInv

\* LgNextOf ends a call or leaves it as it is.
LEMMA LgEnds == \A a : LgNextOf(a) \in {a, LgOut}
  BY DEF LgNextOf

\* A filter of the loop: its writer is used next if it wants the level.
LEMMA LgPickStep ==
    ASSUME LgInv, NEW g \in LgRoutines, NEW t, LgPick(g, t)
    PROVE  LgInv'
  <1> USE DEF lgFileVars, lgConfVars, lgEndVars
  <1>0. LgTypes /\ LgCallsInv /\ LgRunsInv /\ LgWritersInv
    BY DEF LgInv
  <1> PICK a : a = lgAt[g]
    OBVIOUS
  <1>1. /\ UNCHANGED <<lgCount, lgRec, lgW, lgFileVars, lgConfVars, lgNow, lgEndVars>>
        /\ a.st = "send" /\ LgActive(g) /\ a \in LgCallType /\ LgCallInv(g) /\ a.w = 0 /\ t \in a.todo
    BY <1>0, LgActiveCall DEF LgPick, LgActive, LgCallsInv
  <1>2. PICK v : v = LgWanted(t, a.lvl)
    OBVIOUS
  <1>3. v \in DOMAIN lgW \cup {0} /\ v \in Nat /\ (LgIsFile(v) => LgFileTag(t))
    BY <1>0, <1>2 DEF LgTypes, LgIsFile, LgFileTag, LgWanted
  <1> PICK b : b = LgPicked(a, t, v)
    OBVIOUS
  <1>4. b \in LgCallType /\ b.st = "send" /\ b.todo = a.todo \ {t} /\ b.w = v /\ b.rec = a.rec
    BY <1>1, <1>3, LgPickedFields
  <1>5. lgAt' = [lgAt EXCEPT ![g] = LgNextOf(b)]
    <2>1. lgAt' = [lgAt EXCEPT ![g] = LgNextOf(LgPicked(lgAt[g], t, LgWanted(t, lgAt[g].lvl)))]
      BY DEF LgPick, LgVisited, LgPicked
    <2> QED
      BY <1>2, <2>1
  <1>6. /\ \A h \in LgRoutines \ {g} : lgAt'[h] = lgAt[h]
        /\ lgAt'[g] = b \/ lgAt'[g] = LgOut
    BY <1>0, <1>5, LgEnds DEF LgTypes
  <1>7. LgTypes'
    <2>1. LgNextOf(b) \in LgCallType \cup LgSkipType \cup {LgOut}
      BY <1>4, LgEnds
    <2>2. lgAt' \in [LgRoutines -> LgCallType \cup LgSkipType \cup {LgOut}]
      BY <1>0, <1>5, <2>1 DEF LgTypes
    <2> QED
      BY <1>0, <1>1, <2>2 DEF LgTypes
  <1>8. \A r : LgHandedOver(r)' <=> LgHandedOver(r)
    BY <1>1 DEF LgHandedOver, LgIsFile
  <1>9. LgOut.st = "out"
    BY DEF LgOut
  <1>10. LgActive(g)' => lgAt'[g] = b
    BY <1>6, <1>9 DEF LgActive
  <1>11. (\A w : LgIsFile(w)' <=> LgIsFile(w)) /\ (\A u : LgFileTag(u)' <=> LgFileTag(u))
    BY <1>1 DEF LgIsFile, LgFileTag
  <1>12. LgActive(g)' /\ LgToFile(g)' => LgToFile(g)
    BY <1>1, <1>3, <1>4, <1>10, <1>11 DEF LgToFile
  <1>13. LgIsFile(v) => \A u \in a.todo \ {t} : ~LgFileTag(u)
    BY <1>0, <1>3 DEF LgWritersInv, LgFileTag
  <1>14. LgToFile(g) => ~LgHandedOver(a.rec)'
    BY <1>1, <1>8 DEF LgCallInv
  <1>15. LgActive(g)' /\ LgToFile(g)' => ~LgHandedOver(lgAt[g].rec)'
    BY <1>4, <1>10, <1>12, <1>14 DEF LgHandedOver
  <1>16. LgCallsInv'
    <2>1. LgActive(g)' => LgSound(lgAt'[g])
      BY <1>3, <1>4, <1>10, <1>13 DEF LgSound
    <2> QED
      BY <1>1, <1>4, <1>6, <1>8, <1>10, <1>12, <1>15, <2>1, LgCallMoves
  <1>17. LgRunsInv'
    BY <1>0, <1>4, <1>6, <1>9 DEF LgRunsInv
  <1> QED
    BY <1>1, <1>7, <1>16, <1>17, LgOthersStay DEF LgInv

\* A writer after each of its steps.
LgWithQueue(x, q) == [x EXCEPT !.q = q]
LEMMA LgQueueFields ==
    ASSUME NEW x \in LgWriterType, NEW q \in Seq(Nat)
    PROVE  /\ LgWithQueue(x, q) \in LgWriterType /\ LgWithQueue(x, q).kind = x.kind
           /\ LgWithQueue(x, q).q = q /\ (LgWithQueue(x, q).closed <=> x.closed)
  BY DEF LgWriterType, LgWithQueue

\* Every writer keeps its kind, what it holds for a file, and that it was closed by someone.
LEMMA LgWritersStay ==
    ASSUME LgInv, DOMAIN lgW' = DOMAIN lgW, lgLoad' = lgLoad \/ lgLoad' # "done",
           lgLoad' # "done" => lgLoad # "done" /\ lgWritten' = lgWritten,
           \A w \in DOMAIN lgW : lgW'[w].kind = lgW[w].kind /\ (lgW'[w].closed => lgW[w].closed \/ w \in lgClosers'),
           lgClosers \subseteq lgClosers', DOMAIN lgFilters' \subseteq DOMAIN lgFilters,
           \A t \in DOMAIN lgFilters' : lgFilters'[t].w = lgFilters[t].w
    PROVE  /\ LgWritersInv' /\ (\A w : LgIsFile(w)' <=> LgIsFile(w))
           /\ \A t : LgFileTag(t)' => LgFileTag(t)
  <1>0. LgWritersInv /\ LgTypes
    BY DEF LgInv
  <1>1. \A w : LgIsFile(w)' <=> LgIsFile(w)
    BY DEF LgIsFile
  <1>2. \A t : LgFileTag(t)' => LgFileTag(t)
    BY <1>1 DEF LgFileTag
  <1> QED
    BY <1>0, <1>1, <1>2 DEF LgWritersInv

\* LogWrite: the record enters the channel, or not.
LEMMA LgWriteStep ==
    ASSUME LgInv, NEW g \in LgRoutines, LgWrite(g)
    PROVE  LgInv'
  <1> USE DEF lgFileVars, lgConfVars, lgEndVars
  <1>0. LgTypes /\ LgCallsInv /\ LgRunsInv /\ LgWritersInv /\ LgQueueInv /\ LgDiskInv /\ LgPanics
    BY DEF LgInv
  <1> PICK a, w : a = lgAt[g] /\ w = a.w
    OBVIOUS
  <1>1. /\ UNCHANGED <<lgCount, lgRec, lgFileVars, lgConfVars, lgNow>>
        /\ a.st = "send" /\ LgActive(g) /\ a \in LgCallType /\ LgCallInv(g) /\ w \in DOMAIN lgW
    BY <1>0, LgActiveCall DEF LgWrite, LgActive, LgCallsInv, LgCallInv, LgSound
  <1> PICK b : b = LgSent(a)
    OBVIOUS
  <1>2. b \in LgCallType /\ b.st = "send" /\ b.todo = a.todo /\ b.w = 0 /\ b.rec = a.rec
    BY <1>1, LgSentFields
  <1>3. lgAt' = [lgAt EXCEPT ![g] = LgNextOf(b)]
    BY DEF LgWrite, LgSent
  <1>4. /\ \A h \in LgRoutines \ {g} : lgAt'[h] = lgAt[h]
        /\ lgAt'[g] = b \/ lgAt'[g] = LgOut
    BY <1>0, <1>3, LgEnds DEF LgTypes
  <1>5. LgOut.st = "out"
    BY DEF LgOut
  <1>6. LgActive(g)' => lgAt'[g] = b
    BY <1>4, <1>5 DEF LgActive
  <1>7. LgRunsInv'
    BY <1>0, <1>2, <1>4, <1>5 DEF LgRunsInv
  <1>8. lgAt' \in [LgRoutines -> LgCallType \cup LgSkipType \cup {LgOut}]
    <2>1. LgNextOf(b) \in LgCallType \cup LgSkipType \cup {LgOut}
      BY <1>2, LgEnds
    <2> QED
      BY <1>0, <1>3, <2>1 DEF LgTypes
  <1>9. LgActive(g)' => LgSound(lgAt'[g])
    <2>1. ~LgIsFile(0)
      BY <1>0 DEF LgIsFile, LgTypes
    <2> QED
      BY <1>2, <1>6, <2>1 DEF LgSound
  <1>10. \/ lgW' = [lgW EXCEPT ![w] = LgWithQueue(lgW[w], Append(lgW[w].q, a.rec))] /\ UNCHANGED lgEndVars
         \/ lgW' = lgW /\ UNCHANGED lgEndVars
         \/ lgW' = lgW /\ ~LgOpen(w) /\ lgFault' = w
    BY DEF LgWrite, LgWithQueue
  <1>11. LgDiskInv'
    BY <1>0, <1>1 DEF LgDiskInv, LgKept
  <1>12. LgPanics'
    BY <1>0, <1>1, <1>10 DEF LgPanics, LgOpen, LgWritersInv
  <1>13. a.rec \in Nat /\ a.rec \in 1..lgCount
    BY <1>1, LgCallFields DEF LgCallInv
  <1>14. lgW[w] \in LgWriterType /\ lgW[w].q \in Seq(Nat)
    BY <1>0, <1>1 DEF LgTypes, LgWriterType
  <1> PICK x : x = LgWithQueue(lgW[w], Append(lgW[w].q, a.rec))
    OBVIOUS
  <1>15. x \in LgWriterType /\ x.kind = lgW[w].kind /\ x.q = Append(lgW[w].q, a.rec) /\ (x.closed <=> lgW[w].closed)
    <2>1. Append(lgW[w].q, a.rec) \in Seq(Nat)
      BY <1>13, <1>14
    <2>2. PICK y, q : y = lgW[w] /\ q = Append(lgW[w].q, a.rec)
      OBVIOUS
    <2>3. y \in LgWriterType /\ q \in Seq(Nat) /\ x = LgWithQueue(y, q)
      BY <1>14, <2>1, <2>2
    <2>4. /\ LgWithQueue(y, q) \in LgWriterType /\ LgWithQueue(y, q).kind = y.kind
          /\ LgWithQueue(y, q).q = q /\ (LgWithQueue(y, q).closed <=> y.closed)
      BY ONLY <2>3, LgQueueFields
    <2> QED
      BY <2>2, <2>3, <2>4
  <1>16. /\ DOMAIN lgW' = DOMAIN lgW /\ lgW' \in [DOMAIN lgW -> LgWriterType]
         /\ \A v \in DOMAIN lgW : /\ lgW'[v].kind = lgW[v].kind /\ (lgW'[v].closed <=> lgW[v].closed)
                                  /\ lgW'[v].q = lgW[v].q \/ (v = w /\ lgW'[v].q = Append(lgW[w].q, a.rec))
    <2>1. CASE lgW' = lgW
      BY <1>0, <2>1 DEF LgTypes
    <2>2. CASE lgW' = [lgW EXCEPT ![w] = x]
      <3>1. DOMAIN lgW' = DOMAIN lgW /\ lgW' \in [DOMAIN lgW -> LgWriterType]
        BY <1>0, <1>15, <2>2 DEF LgTypes
      <3>2. lgW'[w] = x /\ \A v \in DOMAIN lgW : v # w => lgW'[v] = lgW[v]
        BY <1>0, <1>1, <2>2 DEF LgTypes
      <3> QED
        BY <1>15, <3>1, <3>2
    <2> QED
      BY <1>10, <2>1, <2>2
  <1>17. LgTypes'
    BY <1>0, <1>1, <1>8, <1>16 DEF LgTypes
  <1>18. LgWritersInv' /\ (\A v : LgIsFile(v)' <=> LgIsFile(v)) /\ (\A t : LgFileTag(t)' => LgFileTag(t))
    BY <1>1, <1>16, LgWritersStay
  <1>19. ToSet(Append(lgW[w].q, a.rec)) = ToSet(lgW[w].q) \cup {a.rec}
    BY <1>13, <1>14, LgAppended
  <1>20. \A r : LgHandedOver(r)' => LgHandedOver(r) \/ (r = a.rec /\ LgIsFile(w))
    <2> SUFFICES ASSUME NEW r, LgHandedOver(r)', ~LgHandedOver(r) PROVE r = a.rec /\ LgIsFile(w)
      OBVIOUS
    <2>1. PICK v \in DOMAIN lgW : LgIsFile(v) /\ r \in ToSet(lgW'[v].q)
      BY <1>1, <1>16, <1>18 DEF LgHandedOver
    <2>2. r \notin ToSet(lgW[v].q)
      BY <2>1 DEF LgHandedOver
    <2>3. v = w /\ r \in ToSet(Append(lgW[w].q, a.rec))
      BY <1>16, <2>1, <2>2
    <2> QED
      BY <1>19, <2>1, <2>2, <2>3
  <1>21. LgCallsInv'
    <2>1. LgActive(g)' /\ LgToFile(g)' => LgToFile(g) /\ ~LgIsFile(w)
      <3>1. ~LgIsFile(0)
        BY <1>0 DEF LgIsFile, LgTypes
      <3>2. ASSUME LgActive(g)', LgToFile(g)' PROVE \E t \in a.todo : LgFileTag(t)
        BY <1>2, <1>6, <1>18, <3>1, <3>2 DEF LgToFile
      <3>3. LgIsFile(w) => \A t \in a.todo : ~LgFileTag(t)
        BY <1>1 DEF LgCallInv, LgSound
      <3> QED
        BY <1>1, <3>2, <3>3 DEF LgToFile
    <2>2. LgToFile(g) => ~LgHandedOver(a.rec)
      BY <1>1 DEF LgCallInv
    <2>3. LgActive(g)' /\ LgToFile(g)' => ~LgHandedOver(a.rec)'
      BY <1>20, <2>1, <2>2
    <2>4. LgActive(g)' /\ LgToFile(g)' => ~LgHandedOver(lgAt[g].rec)'
      BY <1>2, <1>6, <2>3 DEF LgHandedOver
    <2> QED
      BY <1>1, <1>2, <1>4, <1>6, <1>9, <1>16, <1>20, <2>1, <2>4, LgCallMoves
  <1>22. LgQueueInv'
    <2> SUFFICES ASSUME NEW v \in DOMAIN lgW, LgIsFile(v) PROVE LgGoodQueue(lgW[v].q)'
      BY <1>16, <1>18 DEF LgQueueInv
    <2> PICK q : q = lgW[v].q
      OBVIOUS
    <2>1. LgGoodQueue(q)
      BY <1>0 DEF LgQueueInv
    <2>2. CASE lgW'[v].q = q
      BY <1>1, <2>1, <2>2 DEF LgGoodQueue
    <2>3. CASE v = w /\ lgW'[v].q = Append(q, a.rec)
      <3>1. LgToFile(g)
        BY <1>1, <2>3 DEF LgToFile
      <3>2. a.rec \notin lgWritten /\ a.rec \notin ToSet(q)
        BY <1>1, <2>3, <3>1 DEF LgCallInv, LgHandedOver
      <3>3. /\ ToSet(Append(q, a.rec)) = ToSet(q) \cup {a.rec}
            /\ \A i, j \in 1..Len(Append(q, a.rec)) : Append(q, a.rec)[i] = Append(q, a.rec)[j] => i = j
        <4>1. q \in Seq(Nat) /\ \A i, j \in 1..Len(q) : q[i] = q[j] => i = j
          BY <1>14, <2>1, <2>3 DEF LgGoodQueue
        <4> QED
          BY <1>13, <3>2, <4>1, LgAppended
      <3> QED
        BY <1>1, <1>13, <2>1, <2>3, <3>2, <3>3 DEF LgGoodQueue
    <2> QED
      BY <1>16, <2>2, <2>3
  <1> QED
    BY <1>7, <1>11, <1>12, <1>17, <1>18, <1>21, <1>22 DEF LgInv

-----------------------------------------------------------------------------
(* The package as a whole: levels, Close and the configuration.              *)

\* A step that leaves the calls alone, and of the writers what they hold for the file.
LEMMA LgFilesStay ==
    ASSUME LgInv, LgTypes', lgAt' = lgAt, lgCount' \in {lgCount, lgCount + 1},
           UNCHANGED lgFileVars, lgLoad' = lgLoad \/ (lgLoad # "done" /\ lgLoad' # "done"),
           DOMAIN lgW' = DOMAIN lgW,
           \A w \in DOMAIN lgW : /\ lgW'[w].kind = lgW[w].kind /\ (lgW[w].kind = "file" => lgW'[w].q = lgW[w].q)
                                 /\ lgW'[w].closed => lgW[w].closed \/ w \in lgClosers',
           lgClosers \subseteq lgClosers', DOMAIN lgFilters' \subseteq DOMAIN lgFilters,
           \A t \in DOMAIN lgFilters' : lgFilters'[t].w = lgFilters[t].w, lgFault' = lgFault
    PROVE  LgInv'
  <1> USE DEF lgFileVars
  <1>0. LgTypes /\ LgWritersInv /\ LgQueueInv /\ LgDiskInv /\ LgPanics
    BY DEF LgInv
  <1>1. LgWritersInv' /\ (\A w : LgIsFile(w)' <=> LgIsFile(w)) /\ (\A t : LgFileTag(t)' => LgFileTag(t))
    BY LgWritersStay
  <1>2. \A w : LgIsFile(w) => lgW'[w].q = lgW[w].q
    BY DEF LgIsFile
  <1>3. \A r : LgHandedOver(r)' => LgHandedOver(r)
    BY <1>1, <1>2 DEF LgHandedOver
  <1>4. LgCallsInv' /\ LgRunsInv'
    BY <1>1, <1>3, LgCallsStay
  <1>5. LgQueueInv'
    <2>1. 1..lgCount \subseteq 1..lgCount'
      BY <1>0 DEF LgTypes
    <2>2. \A q : LgGoodQueue(q) => LgGoodQueue(q)'
      BY <2>1 DEF LgGoodQueue
    <2> SUFFICES ASSUME NEW w \in DOMAIN lgW, LgIsFile(w) PROVE LgGoodQueue(lgW[w].q)'
      BY <1>1 DEF LgQueueInv
    <2> PICK q : q = lgW[w].q
      OBVIOUS
    <2>3. LgGoodQueue(q)
      BY <1>0 DEF LgQueueInv
    <2>4. LgGoodQueue(q)' /\ lgW'[w].q = q
      BY <1>2, <2>2, <2>3
    <2> QED
      BY <2>4 DEF LgGoodQueue
  <1>6. LgDiskInv'
    BY <1>0 DEF LgDiskInv, LgKept
  <1>7. LgPanics'
    BY <1>0 DEF LgPanics
  <1> QED
    BY <1>1, <1>4, <1>5, <1>6, <1>7 DEF LgInv

\* One more call of the package keeps the types of what counts the calls.
LEMMA LgOneMoreTypes ==
    ASSUME LgTypes, LgOneMore
    PROVE  /\ lgCount' = lgCount + 1 /\ lgCount' \in Nat /\ lgRec' \in Seq(Nat) /\ Len(lgRec') = lgCount'
           /\ 1..lgCount \subseteq 1..lgCount'
  BY DEF LgTypes, LgOneMore

\* SetLevel.
LEMMA LgSetLevelStep == ASSUME LgInv, NEW lvl \in LgLevels, SetLevel(lvl) PROVE LgInv'
  <1> USE DEF lgFileVars, lgConfVars, lgEndVars
  <1>0. LgTypes
    BY DEF LgInv
  <1>1. /\ lgFilters' = [t \in DOMAIN lgFilters |-> [lgFilters[t] EXCEPT !.lvl = lvl]]
        /\ UNCHANGED <<lgAt, lgW, lgFileVars, lgLoad, lgClosers, lgNow, lgEndVars>> /\ LgOneMore
    BY DEF SetLevel
  <1>2. /\ DOMAIN lgFilters' = DOMAIN lgFilters
        /\ \A t \in DOMAIN lgFilters : lgFilters'[t] \in [lvl : Int, w : DOMAIN lgW] /\ lgFilters'[t].w = lgFilters[t].w
    <2>1. \A f \in [lvl : Int, w : DOMAIN lgW] :
             [f EXCEPT !.lvl = lvl] \in [lvl : Int, w : DOMAIN lgW] /\ [f EXCEPT !.lvl = lvl].w = f.w
      BY LgAssumption
    <2> QED
      BY <1>0, <1>1, <2>1 DEF LgTypes
  <1>3. lgFilters' \in [DOMAIN lgFilters' -> [lvl : Int, w : DOMAIN lgW]]
    BY <1>1, <1>2
  <1>4. LgTypes'
    BY <1>0, <1>1, <1>2, <1>3, LgOneMoreTypes DEF LgTypes
  <1> QED
    BY <1>0, <1>1, <1>2, <1>4, LgOneMoreTypes, LgFilesStay

\* Exit and the change of day.
LEMMA LgQuietStep == ASSUME LgInv, LgExit \/ LgMidnight \/ UNCHANGED lgVars PROVE LgInv'
  <1> USE DEF lgFileVars, lgConfVars, lgEndVars, lgCallVars
  <1>0. LgTypes
    BY DEF LgInv
  <1>1. UNCHANGED <<lgAt, lgW, lgFileVars, lgConfVars, lgFault>>
    BY DEF LgExit, LgMidnight, lgVars
  <1>2. (LgOneMore /\ lgNow' = lgNow) \/ (UNCHANGED <<lgCount, lgRec>> /\ lgNow' \in {lgNow, lgNow + 1})
    BY DEF LgExit, LgMidnight, lgVars
  <1>3. lgCount' \in {lgCount, lgCount + 1} /\ LgTypes'
    BY <1>0, <1>1, <1>2, LgOneMoreTypes DEF LgTypes
  <1> QED
    BY <1>1, <1>3, LgFilesStay

\* Close, and the first step of a reload.
LEMMA LgCloseStep == ASSUME LgInv, LgClose \/ LgLoadClose PROVE LgInv'
  <1> USE DEF lgFileVars, lgConfVars, lgEndVars, lgCallVars
  <1>0. LgTypes
    BY DEF LgInv
  <1>1. /\ LgCloseWriters /\ UNCHANGED <<lgAt, lgFilters, lgFileVars, lgNow>>
        /\ lgLoad' = lgLoad \/ (lgLoad = "none" /\ lgLoad' = "closed")
        /\ LgOneMore \/ UNCHANGED <<lgCount, lgRec>>
    BY DEF LgClose, LgLoadClose
  <1>2. /\ lgW' = [w \in DOMAIN lgW |-> IF w \in LgInUse THEN [lgW[w] EXCEPT !.closed = TRUE] ELSE lgW[w]]
        /\ lgClosers' = lgClosers \cup LgInUse /\ lgFault' = lgFault
    BY <1>1 DEF LgCloseWriters
  <1>3. \A x \in LgWriterType : /\ [x EXCEPT !.closed = TRUE] \in LgWriterType
                                /\ [x EXCEPT !.closed = TRUE].kind = x.kind /\ [x EXCEPT !.closed = TRUE].q = x.q
    BY DEF LgWriterType
  <1>4. /\ DOMAIN lgW' = DOMAIN lgW
        /\ \A w \in DOMAIN lgW : /\ lgW'[w] \in LgWriterType /\ lgW'[w].kind = lgW[w].kind /\ lgW'[w].q = lgW[w].q
                                 /\ w \in LgInUse \/ lgW'[w] = lgW[w]
    BY <1>0, <1>2, <1>3 DEF LgTypes
  <1>5. lgW' \in [DOMAIN lgW' -> LgWriterType]
    BY <1>2, <1>4
  <1>6. lgCount' \in {lgCount, lgCount + 1} /\ LgTypes'
    BY <1>0, <1>1, <1>4, <1>5, LgOneMoreTypes DEF LgTypes
  <1> QED
    BY <1>1, <1>2, <1>4, <1>6, LgFilesStay

\* The filters are removed.
LEMMA LgDeleteStep == ASSUME LgInv, LgLoadDelete PROVE LgInv'
  <1> USE DEF lgFileVars, lgConfVars, lgEndVars, lgCallVars
  <1>0. LgTypes
    BY DEF LgInv
  <1>1. UNCHANGED <<lgW, lgClosers, lgFileVars, lgCallVars, lgNow, lgEndVars>> /\ lgLoad = "closed" /\ lgLoad' = "deleted"
    BY DEF LgLoadDelete
  <1>2. DOMAIN lgFilters' = {} /\ lgFilters' \in [DOMAIN lgFilters' -> [lvl : Int, w : DOMAIN lgW]]
    BY DEF LgLoadDelete
  <1>3. LgTypes'
    BY <1>0, <1>1, <1>2 DEF LgTypes
  <1> QED
    BY <1>1, <1>2, <1>3, LgFilesStay

\* A set of numbers has a least one, and one of the numbers up to n a greatest.
LEMMA LgLeast == ASSUME NEW S \in SUBSET Nat, S # {} PROVE \E m \in S : \A k \in S : m <= k
  <1>1. PICK m \in S : \A k \in S : ~(<<k, m>> \in OpToRel(<, Nat))
    BY NatLessThanWellFounded, WFMin
  <1>2. ASSUME NEW k \in S PROVE m <= k
    <2>1. ~(k < m)
      BY <1>1 DEF OpToRel
    <2> QED
      BY <2>1
  <1> QED
    BY <1>2

\* The greatest.
LEMMA LgGreatest == ASSUME NEW n \in Nat, NEW S \in SUBSET (1..n), S # {} PROVE \E m \in S : \A k \in S : k <= m
  <1> PICK T : T = {n - k : k \in S}
    OBVIOUS
  <1>1. T \in SUBSET Nat /\ T # {}
    <2>1. \A k \in S : n - k \in Nat
      OBVIOUS
    <2>2. PICK k \in S : TRUE
      OBVIOUS
    <2>3. n - k \in T
      OBVIOUS
    <2> QED
      BY <2>1, <2>3
  <1>2. PICK t \in T : \A k \in T : t <= k
    BY <1>1, LgLeast
  <1>3. PICK m \in S : t = n - m
    BY <1>2
  <1>4. ASSUME NEW k \in S PROVE k <= m
    <2>1. t <= n - k
      BY <1>2
    <2> QED
      BY <1>3, <2>1
  <1> QED
    BY <1>4

\* The element of a configuration that gives a tag its filter: the last one.
LgLast(c, t) == CHOOSE i \in LgEnabled(c) :
                   c[i].tag = t /\ \A j \in LgEnabled(c) : c[j].tag = t => j <= i
LEMMA LgLastIs ==
    ASSUME NEW c \in LgConfigs, NEW t \in {c[i].tag : i \in LgEnabled(c)}
    PROVE  LgLast(c, t) \in LgEnabled(c) /\ c[LgLast(c, t)].tag = t
  <1> PICK S : S = {i \in LgEnabled(c) : c[i].tag = t}
    OBVIOUS
  <1>1. DOMAIN c = 1..Len(c) /\ Len(c) \in Nat
    BY LgAssumption
  <1>2. S \in SUBSET (1..Len(c)) /\ S # {}
    BY <1>1 DEF LgEnabled
  <1>3. PICK m \in S : \A k \in S : k <= m
    BY <1>1, <1>2, LgGreatest
  <1>4. m \in LgEnabled(c) /\ c[m].tag = t /\ \A j \in LgEnabled(c) : c[j].tag = t => j <= m
    BY <1>3
  <1> QED
    BY <1>4 DEF LgLast

\* A writer whose loop is set.
LgWithLoop(x, l) == [x EXCEPT !.loop = l]
LEMMA LgLoopFields ==
    ASSUME NEW x \in LgWriterType, NEW l \in {"run", "nil", "ended"}
    PROVE  /\ LgWithLoop(x, l) \in LgWriterType /\ LgWithLoop(x, l).kind = x.kind
           /\ LgWithLoop(x, l).q = x.q /\ (LgWithLoop(x, l).closed <=> x.closed)
  BY DEF LgWriterType, LgWithLoop

\* A new writer.
LEMMA LgWriterFields ==
    ASSUME NEW k \in {"console", "file", "socket"}, lgNow \in Nat
    PROVE  /\ LgWriter(k) \in LgWriterType /\ LgWriter(k).kind = k /\ LgWriter(k).q = <<>>
           /\ ~LgWriter(k).closed
  <1>1. <<>> \in Seq(Nat)
    OBVIOUS
  <1> QED
    BY <1>1 DEF LgWriter, LgWriterType

\* The writers of a configuration.
LEMMA LgMadeFields ==
    ASSUME NEW x \in LgElement, ~LgBadFilter(x), NEW opened \in BOOLEAN, lgNow \in Nat
    PROVE  /\ LgMade(x, opened) \in LgWriterType /\ LgMade(x, opened).q = <<>>
           /\ LgMade(x, opened).kind = "file" => x.type \in {"file", "xml"}
           /\ ~LgMade(x, opened).closed
  <1> PICK k, l : k = (IF x.type = "xml" THEN "file" ELSE x.type)
                    /\ l = (IF x.type = "socket" /\ ~opened THEN "nil" ELSE "run")
    OBVIOUS
  <1>1. k \in {"console", "file", "socket"} /\ l \in {"run", "nil"} /\ (k = "file" => x.type \in {"file", "xml"})
    BY DEF LgBadFilter
  <1>2. LgMade(x, opened) = LgWithLoop(LgWriter(k), l)
    BY DEF LgMade, LgWithLoop
  <1>3. PICK y : y = LgWriter(k)
    OBVIOUS
  <1>4. y \in LgWriterType /\ y.kind = k /\ y.q = <<>> /\ ~y.closed
    BY <1>1, <1>3, LgWriterFields
  <1>5. /\ LgWithLoop(y, l) \in LgWriterType /\ LgWithLoop(y, l).kind = y.kind
        /\ LgWithLoop(y, l).q = y.q /\ (LgWithLoop(y, l).closed <=> y.closed)
    BY ONLY <1>1, <1>4, LgLoopFields
  <1> QED
    BY <1>1, <1>2, <1>3, <1>4, <1>5

\* The new filters and their writers.
LEMMA LgAddStep ==
    ASSUME LgInv, NEW c \in LgConfigs, NEW opened \in BOOLEAN, LgLoadAdd(c, opened)
    PROVE  LgInv'
  <1> USE DEF lgFileVars, lgConfVars, lgEndVars, lgCallVars
  <1>0. LgTypes /\ LgWritersInv /\ LgCallsInv /\ LgRunsInv /\ LgDiskInv /\ LgPanics
    BY DEF LgInv
  <1>1. /\ UNCHANGED <<lgClosers, lgFault, lgFileVars, lgCallVars, lgNow>> /\ lgLoad = "deleted" /\ lgLoad' = "done"
        /\ DOMAIN lgW = {1} /\ lgW[1].kind = "console" /\ lgWritten = {} /\ lgW[1] \in LgWriterType
    BY <1>0 DEF LgLoadAdd, LgWritersInv, LgTypes
  <1>2. \A w : ~LgIsFile(w)
    BY <1>1 DEF LgIsFile
  <1>3. LgDiskInv' /\ LgPanics' /\ LgRunsInv'
    BY <1>0, <1>1 DEF LgDiskInv, LgKept, LgPanics, LgRunsInv
  <1>4. CASE UNCHANGED <<lgW, lgFilters>>
    <2>1. LgTypes'
      BY <1>0, <1>1, <1>4 DEF LgTypes
    <2>2. (\A w : ~LgIsFile(w)') /\ \A t : ~LgFileTag(t)'
      BY <1>2, <1>4 DEF LgIsFile, LgFileTag
    <2>3. LgWritersInv' /\ LgQueueInv'
      BY <1>0, <1>1, <1>4, <2>2 DEF LgWritersInv, LgQueueInv
    <2>4. \A r : ~LgHandedOver(r)'
      BY <1>1, <2>2 DEF LgHandedOver
    <2>5. LgCallsInv'
      BY <1>1, <1>4, <2>2, <2>4, LgCallsStay
    <2> QED
      BY <1>3, <2>1, <2>3, <2>5 DEF LgInv
  <1>5. CASE /\ \A i \in DOMAIN c : ~LgBadFilter(c[i])
             /\ lgW' = [w \in {1} \cup {i + 1 : i \in LgEnabled(c)} |->
                          IF w = 1 THEN lgW[1] ELSE LgMade(c[w - 1], opened)]
             /\ lgFilters' = [t \in {c[i].tag : i \in LgEnabled(c)} |->
                                [lvl |-> c[LgLast(c, t)].level, w |-> LgLast(c, t) + 1]]
    <2>1. /\ DOMAIN c = 1..Len(c) /\ Len(c) \in Nat /\ LgEnabled(c) \subseteq 1..Len(c)
          /\ \A i \in DOMAIN c : c[i] \in LgElement
      BY LgAssumption DEF LgEnabled
    <2>2. \A i \in LgEnabled(c) : i \in Nat \ {0} /\ i + 1 # 1 /\ (i + 1) - 1 = i /\ i + 1 \in DOMAIN lgW'
      BY <1>5, <2>1
    <2>3. DOMAIN lgW' = {1} \cup {i + 1 : i \in LgEnabled(c)} /\ lgW'[1] = lgW[1]
      BY <1>5
    <2>4. \A i \in LgEnabled(c) : lgW'[i + 1] = LgMade(c[i], opened)
      BY <1>5, <2>2, <2>3
    <2>5. ASSUME NEW i \in LgEnabled(c)
          PROVE  /\ lgW'[i + 1] \in LgWriterType /\ lgW'[i + 1].q = <<>> /\ ~lgW'[i + 1].closed
                 /\ lgW'[i + 1].kind = "file" => c[i].type \in {"file", "xml"}
      <3>1. c[i] \in LgElement /\ ~LgBadFilter(c[i]) /\ lgNow \in Nat
        BY <1>0, <1>5, <2>1 DEF LgTypes
      <3>2. lgW'[i + 1] = LgMade(c[i], opened)
        BY <2>4
      <3> QED
        BY <3>1, <3>2, LgMadeFields
    <2>6. \A w \in DOMAIN lgW' : w = 1 \/ \E i \in LgEnabled(c) : w = i + 1
      BY <2>3
    <2>7. \A w : LgIsFile(w)' => \E i \in LgEnabled(c) : w = i + 1 /\ c[i].type \in {"file", "xml"}
      BY <1>1, <2>3, <2>5, <2>6 DEF LgIsFile
    <2>8. \A i, j \in LgEnabled(c) : c[i].type \in {"file", "xml"} /\ c[j].type \in {"file", "xml"} => i = j
      BY LgAssumption DEF LgEnabled
    <2>9. /\ DOMAIN lgFilters' = {c[i].tag : i \in LgEnabled(c)}
          /\ \A t \in DOMAIN lgFilters' : /\ lgFilters'[t].w = LgLast(c, t) + 1 /\ c[LgLast(c, t)].tag = t
                                          /\ LgLast(c, t) \in LgEnabled(c)
                                          /\ lgFilters'[t].lvl = c[LgLast(c, t)].level
                                          /\ lgFilters'[t] = [lvl |-> c[LgLast(c, t)].level, w |-> LgLast(c, t) + 1]
      BY <1>5, LgLastIs
    <2>10. LgTypes'
      <3>1. DOMAIN lgW' \subseteq Nat \ {0} /\ lgW' \in [DOMAIN lgW' -> LgWriterType]
        <4>1. \A w \in DOMAIN lgW' : w \in Nat \ {0} /\ lgW'[w] \in LgWriterType
          BY <1>1, <2>2, <2>3, <2>5, <2>6
        <4> QED
          BY <1>5, <4>1
      <3>2. DOMAIN lgFilters' \subseteq LgTags
        BY <2>1, <2>9 DEF LgElement, LgTags
      <3>3. lgFilters' \in [DOMAIN lgFilters' -> [lvl : Int, w : DOMAIN lgW']]
        <4>1. \A t \in DOMAIN lgFilters' : lgFilters'[t] \in [lvl : Int, w : DOMAIN lgW']
          <5> SUFFICES ASSUME NEW t \in DOMAIN lgFilters' PROVE lgFilters'[t] \in [lvl : Int, w : DOMAIN lgW']
            OBVIOUS
          <5>1. LgLast(c, t) \in LgEnabled(c)
            BY <2>9
          <5>2. c[LgLast(c, t)].level \in Int /\ LgLast(c, t) + 1 \in DOMAIN lgW'
            BY <2>1, <2>2, <5>1 DEF LgElement
          <5>3. PICK v, n : v = c[LgLast(c, t)].level /\ n = LgLast(c, t) + 1
            OBVIOUS
          <5>4. lgFilters'[t] = [lvl |-> v, w |-> n] /\ v \in Int /\ n \in DOMAIN lgW'
            BY <2>9, <5>2, <5>3
          <5> QED
            BY <5>4
        <4> QED
          BY <1>5, <4>1
      <3> QED
        BY <1>0, <1>1, <3>1, <3>2, <3>3 DEF LgTypes
    <2>11. LgWritersInv'
      <3>1. \A w, v \in DOMAIN lgW' : LgIsFile(w)' /\ LgIsFile(v)' => v = w
        BY <2>7, <2>8
      <3>2. ASSUME NEW t \in DOMAIN lgFilters', NEW u \in DOMAIN lgFilters', LgFileTag(t)', LgFileTag(u)' PROVE t = u
        <4>1. lgFilters'[t].w = lgFilters'[u].w
          BY <3>1, <3>2 DEF LgFileTag, LgIsFile
        <4>2. LgLast(c, t) = LgLast(c, u)
          <5>1. PICK m, n : m = LgLast(c, t) /\ n = LgLast(c, u)
            OBVIOUS
          <5>2. m \in LgEnabled(c) /\ n \in LgEnabled(c) /\ m + 1 = n + 1
            BY <2>9, <4>1, <5>1
          <5>3. m \in Nat /\ n \in Nat
            BY <2>2, <5>2
          <5>4. m = n
            BY <5>2, <5>3
          <5> QED
            BY <5>1, <5>4
        <4> QED
          BY <2>9, <4>2
      <3>3. \A w \in DOMAIN lgW' : lgW'[w].closed => w \in lgClosers'
        BY <1>0, <1>1, <2>3, <2>5, <2>6 DEF LgWritersInv
      <3> QED
        BY <1>1, <3>1, <3>2, <3>3 DEF LgWritersInv
    <2>12. \A w \in DOMAIN lgW' : LgIsFile(w)' => lgW'[w].q = <<>>
      BY <2>5, <2>7
    <2>13. LgQueueInv'
      BY <2>12, LgNothing DEF LgQueueInv, LgGoodQueue
    <2>14. \A r : ~LgHandedOver(r)'
      BY <1>1, <2>12, LgNothing DEF LgHandedOver
    <2>15. LgCallsInv'
      <3>1. \A g : (LgActive(g)' <=> LgActive(g)) /\ lgAt'[g] = lgAt[g]
        BY <1>1 DEF LgActive
      <3>2. ASSUME NEW g \in LgRoutines, LgActive(g) PROVE LgCallInv(g)'
        <4>1. LgCallInv(g)
          BY <1>0, <3>2 DEF LgCallsInv
        <4>2. lgAt[g].w \in {0, 1} /\ (lgAt[g].st = "test" => lgAt[g].w = 0)
          BY <1>1, <4>1 DEF LgCallInv, LgSound
        <4>3. ~LgIsFile(0)' /\ ~LgIsFile(1)'
          BY <1>1, <2>3, <2>10 DEF LgIsFile, LgTypes
        <4>4. LgSound(lgAt[g])'
          BY <1>1, <2>3, <4>2, <4>3 DEF LgSound
        <4>5. ~LgHandedOver(lgAt[g].rec)'
          BY <2>14
        <4> QED
          BY <1>1, <4>1, <4>4, <4>5 DEF LgCallInv
      <3> QED
        BY <1>0, <3>1, <3>2 DEF LgCallsInv
    <2> QED
      BY <1>3, <2>10, <2>11, <2>13, <2>15 DEF LgInv
  <1> QED
    BY <1>4, <1>5 DEF LgLoadAdd, LgLast

-----------------------------------------------------------------------------
(* The loops of the writers, and the files.                                *)

\* Every written record is in one of the files d, and they hold no others.
LgKeeps(d, W) == /\ LgCur \in DOMAIN d /\ d \in [DOMAIN d -> Seq(Nat)]
                 /\ \A n \in DOMAIN d : ToSet(d[n]) \subseteq W
                 /\ \A r \in W : \E n \in DOMAIN d : /\ r \in ToSet(d[n])
                                                     /\ \A m \in DOMAIN d \ {n} : r \notin ToSet(d[m])

\* The log file gets a name that was free, and a new one is begun.
LgMoved(d, f) == [n \in DOMAIN d \cup {f} |-> IF n = LgCur THEN <<>> ELSE IF n = f THEN d[LgCur] ELSE d[n]]
LEMMA LgMovedKeeps ==
    ASSUME NEW d, NEW W, NEW f, LgKeeps(d, W), f \notin DOMAIN d
    PROVE  LgKeeps(LgMoved(d, f), W)
  <1> PICK e : e = LgMoved(d, f)
    OBVIOUS
  <1>1. LgCur \in DOMAIN d /\ f # LgCur
    BY DEF LgKeeps
  <1>2. /\ DOMAIN e = DOMAIN d \cup {f} /\ e[LgCur] = <<>> /\ e[f] = d[LgCur]
        /\ \A n \in DOMAIN d : n # LgCur => e[n] = d[n]
    BY <1>1 DEF LgMoved
  <1>3. e \in [DOMAIN e -> Seq(Nat)]
    <2>1. \A n \in DOMAIN e : e[n] \in Seq(Nat)
      BY <1>1, <1>2, LgNothing DEF LgKeeps
    <2>2. e = [n \in DOMAIN e |-> e[n]]
      BY DEF LgMoved
    <2> QED
      BY <2>1, <2>2
  <1>4. \A n \in DOMAIN e : ToSet(e[n]) \subseteq W
    BY <1>1, <1>2, LgNothing DEF LgKeeps
  <1>5. ASSUME NEW r \in W
        PROVE  \E n \in DOMAIN e : r \in ToSet(e[n]) /\ \A m \in DOMAIN e \ {n} : r \notin ToSet(e[m])
    <2>1. PICK n \in DOMAIN d : r \in ToSet(d[n]) /\ \A m \in DOMAIN d \ {n} : r \notin ToSet(d[m])
      BY DEF LgKeeps
    <2>2. CASE n = LgCur
      <3>1. r \in ToSet(e[f]) /\ \A m \in DOMAIN e \ {f} : r \notin ToSet(e[m])
        BY <1>1, <1>2, <2>1, <2>2, LgNothing
      <3> QED
        BY <1>2, <3>1
    <2>3. CASE n # LgCur
      <3>1. r \in ToSet(e[n]) /\ \A m \in DOMAIN e \ {n} : r \notin ToSet(e[m])
        BY <1>1, <1>2, <2>1, <2>3, LgNothing
      <3> QED
        BY <1>2, <2>1, <3>1
    <2> QED
      BY <2>2, <2>3
  <1> QED
    BY <1>1, <1>2, <1>3, <1>4, <1>5 DEF LgKeeps

\* A record is written to the log file.
LgGrown(d, r) == [d EXCEPT ![LgCur] = Append(d[LgCur], r)]
LEMMA LgGrownKeeps ==
    ASSUME NEW d, NEW W, NEW r \in Nat, LgKeeps(d, W), r \notin W
    PROVE  LgKeeps(LgGrown(d, r), W \cup {r})
  <1> PICK e : e = LgGrown(d, r)
    OBVIOUS
  <1>1. LgCur \in DOMAIN d /\ d[LgCur] \in Seq(Nat)
    BY DEF LgKeeps
  <1>2. Append(d[LgCur], r) \in Seq(Nat) /\ ToSet(Append(d[LgCur], r)) = ToSet(d[LgCur]) \cup {r}
    BY <1>1, LgAppended
  <1>3. /\ DOMAIN e = DOMAIN d /\ e[LgCur] = Append(d[LgCur], r)
        /\ \A n \in DOMAIN d : n # LgCur => e[n] = d[n]
    BY <1>1 DEF LgGrown
  <1>4. e \in [DOMAIN e -> Seq(Nat)]
    BY <1>2 DEF LgGrown, LgKeeps
  <1>5. \A n \in DOMAIN e : ToSet(e[n]) \subseteq W \cup {r}
    BY <1>1, <1>2, <1>3 DEF LgKeeps
  <1>6. ASSUME NEW x \in W
        PROVE  \E n \in DOMAIN e : x \in ToSet(e[n]) /\ \A m \in DOMAIN e \ {n} : x \notin ToSet(e[m])
    <2>1. PICK n \in DOMAIN d : x \in ToSet(d[n]) /\ \A m \in DOMAIN d \ {n} : x \notin ToSet(d[m])
      BY DEF LgKeeps
    <2>2. x # r
      OBVIOUS
    <2>3. \A m \in DOMAIN d : x \in ToSet(e[m]) <=> x \in ToSet(d[m])
      <3>1. x \in ToSet(e[LgCur]) <=> x \in ToSet(d[LgCur])
        BY <1>2, <1>3, <2>2
      <3> QED
        BY <1>3, <3>1
    <2> QED
      BY <1>3, <2>1, <2>3
  <1>7. r \in ToSet(e[LgCur]) /\ \A m \in DOMAIN e \ {LgCur} : r \notin ToSet(e[m])
    BY <1>1, <1>2, <1>3 DEF LgKeeps
  <1>8. \A x \in W \cup {r} :
           \E n \in DOMAIN e : x \in ToSet(e[n]) /\ \A m \in DOMAIN e \ {n} : x \notin ToSet(e[m])
    <2>1. \E n \in DOMAIN e : r \in ToSet(e[n]) /\ \A m \in DOMAIN e \ {n} : r \notin ToSet(e[m])
      BY <1>1, <1>3, <1>7
    <2> QED
      BY <1>6, <2>1
  <1> QED
    BY <1>1, <1>3, <1>4, <1>5, <1>8 DEF LgKeeps

\* A backup name that is chosen is free.
LEMMA LgFirstFreeIs ==
    ASSUME NEW w, NEW day, LgFree(w, day) # {}
    PROVE  LgFirstFree(w, day) \notin DOMAIN lgDisk
  <1> PICK F : F = LgFree(w, day)
    OBVIOUS
  <1>1. \A n \in F : n[3] \in Nat
    BY LgAssumption DEF LgFree, LgBackups
  <1>2. {n[3] : n \in F} \in SUBSET Nat /\ {n[3] : n \in F} # {}
    BY <1>1
  <1>3. PICK m \in {n[3] : n \in F} : \A k \in {n[3] : n \in F} : m <= k
    BY <1>2, LgLeast
  <1>4. PICK n \in F : n[3] = m
    OBVIOUS
  <1>5. n \in LgFree(w, day) /\ \A k \in LgFree(w, day) : n[3] <= k[3]
    BY <1>3, <1>4
  <1>6. LgFirstFree(w, day) \in LgFree(w, day)
    BY <1>5 DEF LgFirstFree
  <1> QED
    BY <1>6 DEF LgFree

\* What LgKeeps says of the state.
LEMMA LgKeepsIs == ASSUME LgTypes PROVE LgDiskInv <=> LgKeeps(lgDisk, lgWritten)
  BY DEF LgKeeps, LgDiskInv, LgKept, LgTypes

\* One writer changes.
LEMMA LgOneWriter ==
    ASSUME LgTypes, NEW w \in DOMAIN lgW, NEW x \in LgWriterType, lgW' = [lgW EXCEPT ![w] = x]
    PROVE  /\ DOMAIN lgW' = DOMAIN lgW /\ lgW' \in [DOMAIN lgW -> LgWriterType] /\ lgW'[w] = x
           /\ \A v \in DOMAIN lgW : v # w => lgW'[v] = lgW[v]
  BY DEF LgTypes

LgPrinted(x, l) == [x EXCEPT !.q = Tail(x.q), !.loop = l]
LgFiled(x, n, d) == [x EXCEPT !.q = Tail(x.q), !.lines = n, !.day = d]
LgTurned(x, d) == [x EXCEPT !.lines = 0, !.day = d]

\* A record is printed.
LEMMA LgPrintedFields ==
    ASSUME NEW x \in LgWriterType, NEW l \in {"run", "nil", "ended"}, x.q # <<>>
    PROVE  /\ LgPrinted(x, l) \in LgWriterType /\ LgPrinted(x, l).kind = x.kind
           /\ (LgPrinted(x, l).closed <=> x.closed)
  <1>1. Tail(x.q) \in Seq(Nat)
    BY LgTaken DEF LgWriterType
  <1> QED
    BY <1>1 DEF LgWriterType, LgPrinted

\* A record is taken for the file.
LEMMA LgFiledFields ==
    ASSUME NEW x \in LgWriterType, NEW n \in Nat, NEW d \in Nat, x.q # <<>>
    PROVE  /\ LgFiled(x, n, d) \in LgWriterType /\ LgFiled(x, n, d).kind = x.kind
           /\ LgFiled(x, n, d).q = Tail(x.q) /\ (LgFiled(x, n, d).closed <=> x.closed)
  <1>1. Tail(x.q) \in Seq(Nat)
    BY LgTaken DEF LgWriterType
  <1> QED
    BY <1>1 DEF LgWriterType, LgFiled

\* The file is turned over.
LEMMA LgTurnedFields ==
    ASSUME NEW x \in LgWriterType, NEW d \in Nat
    PROVE  /\ LgTurned(x, d) \in LgWriterType /\ LgTurned(x, d).kind = x.kind
           /\ LgTurned(x, d).q = x.q /\ (LgTurned(x, d).closed <=> x.closed)
  BY DEF LgWriterType, LgTurned

\* Console and socket loops, and the end of a loop.
LEMMA LgPrintStep == ASSUME LgInv, NEW w \in DOMAIN lgW, LgPrint(w) \/ LgLoopEnds(w) PROVE LgInv'
  <1> USE DEF lgFileVars, lgConfVars, lgEndVars, lgCallVars
  <1>0. LgTypes
    BY DEF LgInv
  <1>1. UNCHANGED <<lgFileVars, lgConfVars, lgCallVars, lgNow, lgEndVars>>
    BY DEF LgPrint, LgLoopEnds
  <1>2. PICK y : y = lgW[w]
    OBVIOUS
  <1>3. y \in LgWriterType
    BY <1>0, <1>2 DEF LgTypes
  <1>4. \E x : /\ x \in LgWriterType /\ lgW' = [lgW EXCEPT ![w] = x] /\ x.kind = y.kind
              /\ (x.closed <=> y.closed) /\ (y.kind = "file" => x.q = y.q)
    <2>1. CASE LgPrint(w)
      <3>1. PICK l \in {"run", "ended"} : lgW' = [lgW EXCEPT ![w].q = Tail(@), ![w].loop = l]
        BY <2>1 DEF LgPrint
      <3>2. lgW' = [lgW EXCEPT ![w] = LgPrinted(lgW[w], l)]
        BY <3>1 DEF LgPrinted
      <3>3. y.q # <<>> /\ y.kind # "file"
        BY <1>2, <2>1 DEF LgPrint
      <3>4. /\ LgPrinted(y, l) \in LgWriterType /\ LgPrinted(y, l).kind = y.kind
            /\ (LgPrinted(y, l).closed <=> y.closed)
        BY ONLY <1>3, <3>1, <3>3, LgPrintedFields
      <3> QED
        BY <1>2, <3>2, <3>3, <3>4
    <2>2. CASE LgLoopEnds(w)
      <3>1. lgW' = [lgW EXCEPT ![w] = LgWithLoop(lgW[w], "ended")]
        BY <2>2 DEF LgLoopEnds, LgWithLoop
      <3>2. /\ LgWithLoop(y, "ended") \in LgWriterType /\ LgWithLoop(y, "ended").kind = y.kind
            /\ LgWithLoop(y, "ended").q = y.q /\ (LgWithLoop(y, "ended").closed <=> y.closed)
        BY ONLY <1>3, LgLoopFields
      <3> QED
        BY <1>2, <3>1, <3>2
    <2> QED
      BY <2>1, <2>2
  <1>5. PICK x : /\ x \in LgWriterType /\ lgW' = [lgW EXCEPT ![w] = x] /\ x.kind = y.kind
                 /\ (x.closed <=> y.closed) /\ (y.kind = "file" => x.q = y.q)
    BY <1>4
  <1>6. /\ DOMAIN lgW' = DOMAIN lgW /\ lgW' \in [DOMAIN lgW -> LgWriterType] /\ lgW'[w] = x
        /\ \A v \in DOMAIN lgW : v # w => lgW'[v] = lgW[v]
    <2>1. lgW' = [lgW EXCEPT ![w] = x] /\ x \in LgWriterType
      BY <1>5
    <2> QED
      BY <1>0, <2>1, LgOneWriter
  <1>7. ASSUME NEW v \in DOMAIN lgW
        PROVE  /\ lgW'[v].kind = lgW[v].kind /\ (lgW[v].kind = "file" => lgW'[v].q = lgW[v].q)
               /\ lgW'[v].closed => lgW[v].closed \/ v \in lgClosers'
    <2>1. CASE v = w
      BY <1>2, <1>5, <1>6, <2>1
    <2>2. CASE v # w
      BY <1>6, <2>2
    <2> QED
      BY <2>1, <2>2
  <1>8. LgTypes'
    BY <1>0, <1>1, <1>6 DEF LgTypes
  <1> QED
    BY <1>1, <1>6, <1>7, <1>8, LgFilesStay

\* The panics of the loop change nothing but how the process ended.
LEMMA LgStuckStep ==
    ASSUME LgInv, NEW w, LgStuck(w), UNCHANGED <<lgConfVars, lgAt, lgNow>>, LgOneMore \/ UNCHANGED <<lgCount, lgRec>>
    PROVE  LgInv'
  <1> USE DEF lgFileVars, lgConfVars, lgEndVars, lgCallVars
  <1>0. LgTypes
    BY DEF LgInv
  <1>1. UNCHANGED <<lgW, lgFileVars, lgFault>>
    BY DEF LgStuck
  <1>2. lgCount' \in {lgCount, lgCount + 1} /\ LgTypes'
    BY <1>0, <1>1, LgOneMoreTypes DEF LgTypes
  <1> QED
    BY <1>1, <1>2, LgFilesStay

\* The log file after a rotation.
LEMMA LgRotatedKeeps ==
    ASSUME LgInv, NEW w, NEW day, LgFree(w, day) # {}
    PROVE  LgKeeps(LgRotated(w, day), lgWritten)
  <1>1. LgKeeps(lgDisk, lgWritten)
    BY LgKeepsIs DEF LgInv
  <1>2. PICK d, W, f : d = lgDisk /\ W = lgWritten /\ f = LgFirstFree(w, day)
    OBVIOUS
  <1>3. LgKeeps(d, W) /\ f \notin DOMAIN d
    BY <1>1, <1>2, LgFirstFreeIs
  <1>4. LgKeeps(LgMoved(d, f), W)
    BY ONLY <1>3, LgMovedKeeps
  <1>5. LgRotated(w, day) = LgMoved(d, f)
    BY <1>2 DEF LgRotated, LgMoved
  <1> QED
    BY <1>2, <1>4, <1>5

\* Rotate.
LEMMA LgRotateStep == ASSUME LgInv, NEW w \in DOMAIN lgW, LgRotate(w) PROVE LgInv'
  <1> USE DEF lgFileVars, lgConfVars, lgEndVars, lgCallVars
  <1>0. LgTypes /\ LgQueueInv
    BY DEF LgInv
  <1>1. UNCHANGED <<lgConfVars, lgAt, lgNow>> /\ LgOneMore
    BY DEF LgRotate
  <1>2. CASE LgFree(w, lgNow) = {}
    BY <1>1, <1>2, LgStuckStep DEF LgRotate
  <1>3. CASE LgFree(w, lgNow) # {}
    <2>1. /\ lgDisk' = LgRotated(w, lgNow) /\ UNCHANGED <<lgWritten, lgEndVars>>
          /\ lgW' = [lgW EXCEPT ![w] = LgTurned(lgW[w], lgNow)]
      BY <1>3 DEF LgRotate, LgTurned
    <2>2. PICK y, n : y = lgW[w] /\ n = lgNow
      OBVIOUS
    <2>3. y \in LgWriterType /\ n \in Nat
      BY <1>0, <2>2 DEF LgTypes
    <2>4. PICK x : x = LgTurned(y, n)
      OBVIOUS
    <2>5. x \in LgWriterType /\ x.kind = y.kind /\ x.q = y.q /\ (x.closed <=> y.closed)
      BY ONLY <2>3, <2>4, LgTurnedFields
    <2>6. lgW' = [lgW EXCEPT ![w] = x]
      BY <2>1, <2>2, <2>4
    <2>7. /\ DOMAIN lgW' = DOMAIN lgW /\ lgW' \in [DOMAIN lgW -> LgWriterType] /\ lgW'[w] = x
          /\ \A v \in DOMAIN lgW : v # w => lgW'[v] = lgW[v]
      BY <1>0, <2>5, <2>6, LgOneWriter
    <2>8. ASSUME NEW v \in DOMAIN lgW
          PROVE  lgW'[v].kind = lgW[v].kind /\ lgW'[v].q = lgW[v].q /\ (lgW'[v].closed => lgW[v].closed)
      <3>1. CASE v = w
        BY <2>2, <2>5, <2>7, <3>1
      <3>2. CASE v # w
        BY <2>7, <3>2
      <3> QED
        BY <3>1, <3>2
    <2>9. LgKeeps(lgDisk, lgWritten)'
      BY <1>3, <2>1, LgRotatedKeeps DEF LgKeeps
    <2>10. LgTypes'
      BY <1>0, <1>1, <2>1, <2>7, <2>9, LgOneMoreTypes DEF LgTypes, LgKeeps
    <2>11. LgDiskInv'
      BY <2>9 DEF LgKeeps, LgDiskInv, LgKept
    <2>12. LgWritersInv' /\ (\A v : LgIsFile(v)' <=> LgIsFile(v)) /\ (\A t : LgFileTag(t)' => LgFileTag(t))
      BY <1>1, <2>1, <2>7, <2>8, LgWritersStay
    <2>13. \A v : LgIsFile(v) => lgW'[v].q = lgW[v].q
      BY <2>8 DEF LgIsFile
    <2>14. \A r : LgHandedOver(r)' => LgHandedOver(r)
      BY <2>1, <2>7, <2>12, <2>13 DEF LgHandedOver
    <2>15. LgCallsInv' /\ LgRunsInv'
      <3>1. lgAt' = lgAt /\ lgCount' \in {lgCount, lgCount + 1}
        BY <1>0, <1>1, LgOneMoreTypes
      <3> QED
        BY <2>7, <2>8, <2>12, <2>14, <3>1, LgCallsStay
    <2>16. LgQueueInv'
      <3>1. 1..lgCount \subseteq 1..lgCount'
        BY <1>0, <1>1, LgOneMoreTypes
      <3>2. \A q : LgGoodQueue(q) => LgGoodQueue(q)'
        BY <2>1, <3>1 DEF LgGoodQueue
      <3> SUFFICES ASSUME NEW v \in DOMAIN lgW, LgIsFile(v) PROVE LgGoodQueue(lgW[v].q)'
        BY <2>7, <2>12 DEF LgQueueInv
      <3> PICK q : q = lgW[v].q
        OBVIOUS
      <3>3. LgGoodQueue(q)
        BY <1>0 DEF LgQueueInv
      <3>4. LgGoodQueue(q)' /\ lgW'[v].q = q
        BY <2>13, <3>2, <3>3
      <3> QED
        BY <3>4 DEF LgGoodQueue
    <2>17. LgPanics'
      BY <1>1, <2>1 DEF LgPanics, LgInv
    <2> QED
      BY <2>10, <2>11, <2>12, <2>15, <2>16, <2>17 DEF LgInv
  <1> QED
    BY <1>2, <1>3

\* The loop of the file writer takes a record, rotates if it must, and writes it.
LEMMA LgFileStep == ASSUME LgInv, NEW w \in DOMAIN lgW, LgFile(w) PROVE LgInv'
  <1> USE DEF lgFileVars, lgConfVars, lgEndVars, lgCallVars
  <1>0. LgTypes /\ LgQueueInv /\ LgWritersInv
    BY DEF LgInv
  <1>1. UNCHANGED <<lgConfVars, lgCallVars, lgNow>> /\ lgW[w].kind = "file" /\ lgW[w].q # <<>> /\ LgIsFile(w)
    BY DEF LgFile, LgIsFile
  <1>2. PICK y, r, day, turn : /\ y = lgW[w] /\ r = Head(lgW[w].q) /\ day = lgRec[r]
                               /\ turn = (lgW[w].lines >= LgMaxLines \/ day # lgW[w].day)
    OBVIOUS
  <1>3. CASE turn /\ LgFree(w, day) = {}
    <2>1. LgStuck(w)
      BY <1>2, <1>3 DEF LgFile
    <2> QED
      BY <1>1, <2>1, LgStuckStep
  <1>4. CASE ~turn \/ LgFree(w, day) # {}
    <2>1. PICK D, n, d : /\ D = (IF turn THEN LgRotated(w, day) ELSE lgDisk)
                         /\ n = (IF turn THEN 1 ELSE lgW[w].lines + 1)
                         /\ d = (IF turn THEN day ELSE lgW[w].day)
      OBVIOUS
    <2>2. /\ lgDisk' = [D EXCEPT ![LgCur] = Append(@, r)] /\ lgWritten' = lgWritten \cup {r}
          /\ lgW' = [lgW EXCEPT ![w].q = Tail(@), ![w].lines = n, ![w].day = d] /\ UNCHANGED lgEndVars
      BY <1>2, <1>4, <2>1 DEF LgFile
    <2>3. y \in LgWriterType /\ y.q # <<>> /\ y.q \in Seq(Nat) /\ LgGoodQueue(y.q) /\ y.kind = "file"
      BY <1>0, <1>1, <1>2 DEF LgTypes, LgWriterType, LgQueueInv
    <2>4. /\ r \in Nat /\ r \in ToSet(y.q) /\ ToSet(Tail(y.q)) \subseteq ToSet(y.q) /\ r \notin ToSet(Tail(y.q))
          /\ \A i, j \in 1..Len(Tail(y.q)) : Tail(y.q)[i] = Tail(y.q)[j] => i = j
      BY <1>2, <2>3, LgTaken DEF LgGoodQueue
    <2>5. r \in 1..lgCount /\ r \notin lgWritten /\ day \in Nat
      <3>1. r \in 1..lgCount /\ r \notin lgWritten
        BY <2>3, <2>4 DEF LgGoodQueue
      <3>2. lgRec \in Seq(Nat) /\ r \in 1..Len(lgRec)
        BY <1>0, <3>1 DEF LgTypes
      <3>3. lgRec[r] \in Nat
        BY <3>2
      <3> QED
        BY <1>2, <3>1, <3>3
    <2>6. n \in Nat /\ d \in Nat
      BY <1>0, <1>2, <2>1, <2>3, <2>5 DEF LgWriterType
    <2>7. lgW' = [lgW EXCEPT ![w] = LgFiled(lgW[w], n, d)]
      BY <2>2 DEF LgFiled
    <2>8. PICK x : x = LgFiled(y, n, d)
      OBVIOUS
    <2>9. x \in LgWriterType /\ x.kind = y.kind /\ x.q = Tail(y.q) /\ (x.closed <=> y.closed)
      BY ONLY <2>3, <2>6, <2>8, LgFiledFields
    <2>10. lgW' = [lgW EXCEPT ![w] = x]
      BY <1>2, <2>7, <2>8
    <2>11. /\ DOMAIN lgW' = DOMAIN lgW /\ lgW' \in [DOMAIN lgW -> LgWriterType] /\ lgW'[w] = x
           /\ \A v \in DOMAIN lgW : v # w => lgW'[v] = lgW[v]
      BY <1>0, <2>9, <2>10, LgOneWriter
    <2>12. ASSUME NEW v \in DOMAIN lgW
           PROVE  lgW'[v].kind = lgW[v].kind /\ (lgW'[v].closed => lgW[v].closed)
      <3>1. CASE v = w
        BY <1>2, <2>9, <2>11, <3>1
      <3>2. CASE v # w
        BY <2>11, <3>2
      <3> QED
        BY <3>1, <3>2
    <2>13. LgKeeps(D, lgWritten)
      BY <1>0, <1>4, <2>1, LgRotatedKeeps, LgKeepsIs DEF LgInv
    <2>14. LgKeeps(lgDisk, lgWritten)'
      <3>1. PICK W : W = lgWritten
        OBVIOUS
      <3>2. LgKeeps(D, W) /\ r \in Nat /\ r \notin W
        BY <2>4, <2>5, <2>13, <3>1
      <3>3. LgKeeps(LgGrown(D, r), W \cup {r})
        BY ONLY <3>2, LgGrownKeeps
      <3>4. lgDisk' = LgGrown(D, r) /\ lgWritten' = W \cup {r}
        BY <2>2, <3>1 DEF LgGrown
      <3> QED
        BY <3>3, <3>4 DEF LgKeeps
    <2>15. LgTypes'
      BY <1>0, <1>1, <2>2, <2>5, <2>11, <2>14 DEF LgTypes, LgKeeps
    <2>16. LgDiskInv'
      BY <2>14 DEF LgKeeps, LgDiskInv, LgKept
    <2>17. LgWritersInv' /\ (\A v : LgIsFile(v)' <=> LgIsFile(v)) /\ (\A t : LgFileTag(t)' => LgFileTag(t))
      <3>1. lgLoad = "done"
        BY <1>0, <1>1 DEF LgWritersInv
      <3> QED
        BY <1>1, <2>11, <2>12, <3>1, LgWritersStay
    <2>18. \A v : LgIsFile(v) => v = w
      BY <1>0, <1>1 DEF LgWritersInv, LgIsFile
    <2>19. \A e : LgHandedOver(e)' => LgHandedOver(e)
      <3> SUFFICES ASSUME NEW e, LgHandedOver(e)' PROVE LgHandedOver(e)
        OBVIOUS
      <3>1. r \in ToSet(lgW[w].q) /\ \A z \in ToSet(lgW'[w].q) : z \in ToSet(lgW[w].q)
        BY <1>2, <2>4, <2>9, <2>11
      <3>2. e \in lgWritten \/ e = r \/ e \in ToSet(lgW'[w].q)
        BY <2>2, <2>11, <2>17, <2>18 DEF LgHandedOver
      <3> QED
        BY <1>1, <3>1, <3>2 DEF LgHandedOver
    <2>20. LgCallsInv' /\ LgRunsInv'
      BY <1>1, <2>11, <2>12, <2>17, <2>19, LgCallsStay
    <2>21. LgQueueInv'
      <3> PICK q : q = Tail(y.q)
        OBVIOUS
      <3>1. lgW'[w].q = q
        BY <2>9, <2>11
      <3>2. LgGoodQueue(q)'
        BY <1>1, <2>2, <2>3, <2>4 DEF LgGoodQueue
      <3>3. LgGoodQueue(lgW[w].q)'
        BY <3>1, <3>2 DEF LgGoodQueue
      <3> QED
        BY <2>11, <2>17, <2>18, <3>3 DEF LgQueueInv
    <2>22. LgPanics'
      BY <1>1, <2>2 DEF LgPanics, LgInv
    <2> QED
      BY <2>15, <2>16, <2>17, <2>20, <2>21, <2>22 DEF LgInv
  <1> QED
    BY <1>3, <1>4

\* The invariant holds at first.
LEMMA LgInitInv == ASSUME LgInit PROVE LgInv
  <1>1. /\ lgNow = 1 /\ lgLoad = "none" /\ lgFault = 0 /\ lgClosers = {} /\ lgW = <<LgWriter("console")>>
        /\ lgFilters = [t \in {"stdout"} |-> [lvl |-> 2, w |-> 1]] /\ lgDisk = [n \in {LgCur} |-> <<>>]
        /\ lgWritten = {} /\ lgAt = [g \in LgRoutines |-> LgOut] /\ lgCount = 0 /\ lgRec = <<>>
    BY DEF LgInit
  <1>2. PICK y : y = LgWriter("console")
    OBVIOUS
  <1>3. y \in LgWriterType /\ y.kind = "console" /\ y.q = <<>> /\ ~y.closed
    BY <1>1, <1>2, LgWriterFields
  <1>4. DOMAIN lgW = {1} /\ lgW[1] = y /\ lgW \in [{1} -> LgWriterType]
    BY <1>1, <1>2, <1>3
  <1>5. \A w : ~LgIsFile(w)
    BY <1>3, <1>4 DEF LgIsFile
  <1>6. LgTypes
    <2>1. lgFilters \in [{"stdout"} -> [lvl : Int, w : {1}]]
      BY <1>1
    <2>2. lgRec \in Seq(Nat) /\ Len(lgRec) = lgCount
      BY <1>1
    <2>3. LgCur \in DOMAIN lgDisk /\ lgDisk \in [DOMAIN lgDisk -> Seq(Nat)]
      BY <1>1, LgNothing
    <2>4. DOMAIN lgFilters = {"stdout"}
      BY <1>1
    <2>5. lgAt \in [LgRoutines -> LgCallType \cup LgSkipType \cup {LgOut}]
      BY <1>1
    <2>6. DOMAIN lgW \subseteq Nat \ {0} /\ lgW \in [DOMAIN lgW -> LgWriterType]
      BY <1>4
    <2>7. DOMAIN lgFilters \subseteq LgTags /\ lgFilters \in [DOMAIN lgFilters -> [lvl : Int, w : DOMAIN lgW]]
      <3>1. DOMAIN lgFilters \subseteq LgTags
        BY <2>4 DEF LgTags
      <3>2. lgFilters \in [DOMAIN lgFilters -> [lvl : Int, w : {1}]]
        BY <2>1, <2>4, Zenon
      <3>3. DOMAIN lgW = {1}
        BY <1>4
      <3>4. lgFilters \in [DOMAIN lgFilters -> [lvl : Int, w : DOMAIN lgW]]
        BY <3>2, <3>3, Zenon
      <3> QED
        BY <3>1, <3>4
    <2> QED
      BY <1>1, <2>2, <2>3, <2>5, <2>6, <2>7 DEF LgTypes
  <1>7. LgOut.st = "out"
    BY DEF LgOut
  <1>8. \A g \in LgRoutines : ~LgActive(g) /\ lgAt[g].st \notin {"test", "skip"}
    BY <1>1, <1>7 DEF LgActive
  <1>9. LgWritersInv
    BY <1>1, <1>3, <1>4, <1>5 DEF LgWritersInv, LgFileTag
  <1>10. LgQueueInv /\ LgCallsInv /\ LgRunsInv /\ LgPanics
    BY <1>1, <1>5, <1>8 DEF LgQueueInv, LgCallsInv, LgRunsInv, LgPanics
  <1>11. LgDiskInv
    BY <1>1, LgNothing DEF LgDiskInv, LgKept
  <1> QED
    BY <1>6, <1>9, <1>10, <1>11 DEF LgInv

\* Every step keeps it.
LEMMA LgStepInv == ASSUME LgInv, [LgNext]_lgVars PROVE LgInv'
  <1>1. CASE UNCHANGED lgVars
    BY <1>1, LgQuietStep
  <1>2. CASE LgNext
    <2>1. ASSUME NEW g \in LgRoutines, NEW lvl \in LgLevels, NEW a \in LgApis, LgCall(g, lvl, a) PROVE LgInv'
      BY <2>1, LgCallStep
    <2>2. ASSUME NEW g \in LgRoutines, LgTest(g) \/ LgWrite(g) PROVE LgInv'
      BY <2>2, LgTestStep, LgWriteStep
    <2>3. ASSUME NEW g \in LgRoutines, NEW t, LgPick(g, t) PROVE LgInv'
      BY <2>3, LgPickStep
    <2>4. ASSUME NEW lvl \in LgLevels, SetLevel(lvl) PROVE LgInv'
      BY <2>4, LgSetLevelStep
    <2>5. ASSUME LgClose \/ LgExit \/ LgLoadClose \/ LgLoadDelete \/ LgMidnight PROVE LgInv'
      BY <2>5, LgCloseStep, LgQuietStep, LgDeleteStep
    <2>6. ASSUME NEW c \in LgConfigs, NEW d \in BOOLEAN, LgLoadAdd(c, d) PROVE LgInv'
      BY <2>6, LgAddStep
    <2>7. ASSUME NEW w \in DOMAIN lgW, LgPrint(w) \/ LgLoopEnds(w) \/ LgFile(w) \/ LgRotate(w) PROVE LgInv'
      BY <2>7, LgPrintStep, LgFileStep, LgRotateStep
    <2> QED
      BY <1>2, <2>1, <2>2, <2>3, <2>4, <2>5, <2>6, <2>7 DEF LgNext
  <1> QED
    BY <1>1, <1>2

\* The invariant says what LgSafe says.
LEMMA LgInvSafe == ASSUME LgInv PROVE LgSafe
  <1>1. LgClosure
    <2> SUFFICES ASSUME NEW g \in LgRoutines, lgAt[g].st # "out"
                 PROVE  lgAt[g].runs <= 1 /\ (lgAt[g].st = "skip" /\ ~lgAt[g].eager => lgAt[g].runs = 0)
      BY DEF LgClosure
    <2>1. LgTypes /\ LgRunsInv
      BY DEF LgInv
    <2>2. lgAt[g] \in LgCallType \/ lgAt[g] \in LgSkipType
      BY <2>1, LgActiveCall DEF LgActive
    <2>3. lgAt[g].runs \in {0, 1}
      BY <2>2 DEF LgCallType, LgSkipType
    <2>4. lgAt[g].st = "skip" /\ ~lgAt[g].eager => lgAt[g].runs = 0
      BY <2>1 DEF LgRunsInv
    <2> QED
      BY <2>3, <2>4
  <1> QED
    BY <1>1 DEF LgInv, LgDiskInv, LgSafe

\* Logging is safe (filelog.go:94-290, log4go.go:170-353, 525-597): whatever the
\* goroutines log, at whatever levels, while the configuration is loaded, files
\* turn over by lines, day or hand and days pass, a record that was written stays
\* in exactly one file, a closure runs at most once and only for a level that is
\* wanted, and a logging call panics only on a writer that Close or a reload closed.
THEOREM LoggingIsSafe == LgSpec => []LgSafe
  <1>1. LgInit => LgInv
    BY LgInitInv
  <1>2. LgInv /\ [LgNext]_lgVars => LgInv'
    BY LgStepInv
  <1>3. LgInv => LgSafe
    BY LgInvSafe
  <1> QED
    BY <1>1, <1>2, <1>3, PTL DEF LgSpec
=============================================================================
