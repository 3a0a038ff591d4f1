--------------------------- MODULE ServiceProofs ---------------------------
(* Proofs about the registration and the discovery of services and about the *)
(* engine, for every number of processes, addresses, retries, lives and       *)
(* sessions.                                                                  *)
EXTENDS Registry, Engine, Discovery, FiniteSetTheorems, SequenceTheorems, TLAPS

-----------------------------------------------------------------------------
(* Registration in etcd: the keep-alive goroutine of a client that is open    *)
(* revokes only a lease that is lost already.                                 *)
RgInv == RgPublished /\ (rgConn = "closed" => rgClose = "done")

\* Start, Close, the keep-alive goroutine, leases that run out and crashes
\* keep the address published.
LEMMA RgStep == RgInv /\ [RgNext]_rgVars => RgInv'
<1> SUFFICES ASSUME RgInv, [RgNext]_rgVars PROVE RgInv'
  OBVIOUS
<1>1. CASE RgBegin
  BY <1>1 DEF RgBegin, RgInv, RgPublished
<1>2. CASE RgGrant
  BY <1>2 DEF RgGrant, RgInv, RgPublished
<1>3. CASE RgPut
  <2>1. CASE rgGrant \in rgLive /\ RgStored(rgNode') /\ rgStart' = "ok"
    BY <1>3, <2>1 DEF RgPut, RgStored, RgInv, RgPublished
  <2>2. CASE RgPutFails
    <3>1. rgStart' = "ok" => rgTry' = RgRetries
      BY <1>3, <2>2 DEF RgPut, RgPutFails
    <3> QED
      BY <1>3, <3>1, RegAssumption DEF RgPut, RgInv, RgPublished
  <2> QED
    BY <1>3, <2>1, <2>2 DEF RgPut
<1>4. CASE RgKeeperEnds
  <2>1. rgClose = "no" /\ rgGrant \in rgLive => UNCHANGED <<rgLive, rgNode>>
    BY <1>4 DEF RgKeeperEnds, RgInv
  <2>2. rgLive' \subseteq rgLive
    BY <1>4 DEF RgKeeperEnds, RgRevoke
  <2> QED
    BY <1>4, <2>1, <2>2 DEF RgKeeperEnds, RgInv, RgPublished
<1>5. CASE RgCloseExit
  BY <1>5 DEF RgCloseExit, RgInv, RgPublished
<1>6. CASE RgCloseRevoke
  BY <1>6 DEF RgCloseRevoke, RgInv, RgPublished
<1>7. CASE RgCloseClient
  BY <1>7 DEF RgCloseClient, RgInv, RgPublished
<1>8. CASE RgCrash
  BY <1>8 DEF RgCrash, RgInv, RgPublished
<1>9. ASSUME NEW l \in rgLive, RgExpire(l) PROVE RgInv'
  BY <1>9 DEF RgExpire, RgInv, RgPublished, rgApp
<1>10. CASE UNCHANGED rgVars
  BY <1>10 DEF rgVars, rgApp, RgInv, RgPublished
<1> QED
  BY <1>1, <1>2, <1>3, <1>4, <1>5, <1>6, <1>7, <1>8, <1>9, <1>10 DEF RgNext

-----------------------------------------------------------------------------
(* Registration in zookeeper: a session belongs to one client, and the one    *)
(* that comes next to none yet.                                               *)
ZrTypes == /\ zrPc \in [ZrProcs -> {"new", "exists", "create", "run", "ok", "err", "closed"}]
           /\ zrNext \in Nat \ {0}
           /\ zrConn \in [ZrProcs -> 0..(zrNext - 1)] /\ zrFirst \in [ZrProcs -> 0..(zrNext - 1)]
           /\ DOMAIN zrNode = ZrProcs /\ zrNode = [i \in ZrProcs |-> zrNode[i]]

ZrInv == /\ ZrTypes /\ ZrOwn
         /\ \A i, j \in ZrProcs : zrConn[i] = zrConn[j] /\ zrConn[i] # 0 => i = j
         /\ \A i \in ZrProcs : zrPc[i] \in {"exists", "create", "run", "ok"} => zrConn[i] # 0

\* Start, Close, sessions that expire and crashes leave a registered process
\* its node.
LEMMA ZrStep == ZrInv /\ [ZrNext]_zrVars => ZrInv'
<1> SUFFICES ASSUME ZrInv, [ZrNext]_zrVars PROVE ZrInv'
  OBVIOUS
<1>t. ZrTypes
  BY DEF ZrInv
<1>1. ASSUME NEW i \in ZrProcs, ZrStart(i) PROVE ZrInv'
  <2>1. CASE ZrGoto(i, "err") /\ UNCHANGED <<zrConn, zrNext>>
    BY <1>1, <2>1, <1>t DEF ZrStart, ZrGoto, ZrInv, ZrTypes, ZrOwn
  <2>2. CASE ZrGoto(i, "exists") /\ zrConn' = [zrConn EXCEPT ![i] = zrNext] /\ zrNext' = zrNext + 1
    <3>1. zrConn'[i] = zrNext /\ \A j \in ZrProcs : j # i => zrConn'[j] = zrConn[j]
      BY <2>2, <1>t DEF ZrTypes
    <3>2. zrPc'[i] = "exists" /\ \A j \in ZrProcs : j # i => zrPc'[j] = zrPc[j]
      BY <2>2, <1>t DEF ZrTypes, ZrGoto
    <3>3. zrFirst' = zrFirst /\ zrNode' = zrNode
      BY <1>1 DEF ZrStart
    <3>4. ZrTypes'
      BY <2>2, <3>3, <1>t DEF ZrTypes, ZrGoto
    <3>5. \A j \in ZrProcs : zrConn[j] # zrNext
      BY <1>t DEF ZrTypes
    <3>6. zrNext # 0
      BY <1>t DEF ZrTypes
    <3> QED
      BY <3>1, <3>2, <3>3, <3>4, <3>5, <3>6 DEF ZrInv, ZrOwn
  <2> QED
    BY <1>1, <2>1, <2>2 DEF ZrStart
<1>2. ASSUME NEW i \in ZrProcs, ZrExists(i) PROVE ZrInv'
  <2>1. PICK pc \in {"err", "run", "create"} : ZrGoto(i, pc)
    BY <1>2 DEF ZrExists
  <2>2. ZrTypes'
    BY <1>2, <2>1, <1>t DEF ZrExists, ZrGoto, ZrTypes
  <2> QED
    BY <1>2, <2>1, <2>2, <1>t DEF ZrExists, ZrGoto, ZrInv, ZrTypes, ZrOwn
<1>3. ASSUME NEW i \in ZrProcs, ZrCreate(i) PROVE ZrInv'
  <2>1. PICK pc \in {"err", "run", "create"} : ZrGoto(i, pc)
    BY <1>3 DEF ZrCreate
  <2>2. ZrTypes'
    BY <1>3, <2>1, <1>t DEF ZrCreate, ZrGoto, ZrTypes
  <2>3. zrConn' = zrConn /\ zrFirst' = zrFirst /\ zrNode' = zrNode /\ zrPc[i] = "create"
    BY <1>3 DEF ZrCreate
  <2> QED
    BY <2>1, <2>2, <2>3, <1>t DEF ZrGoto, ZrInv, ZrTypes, ZrOwn
<1>4. ASSUME NEW i \in ZrProcs, ZrRun(i) PROVE ZrInv'
  <2>0. zrConn' = zrConn /\ zrNext' = zrNext /\ zrPc[i] = "run"
    BY <1>4 DEF ZrRun
  <2>1. CASE zrNode' = [zrNode EXCEPT ![i] = zrConn[i]] /\ ZrGoto(i, "ok") /\ zrFirst' = [zrFirst EXCEPT ![i] = zrConn[i]]
    <3>1. ZrTypes'
      BY <2>0, <2>1, <1>t DEF ZrTypes, ZrGoto
    <3> QED
      BY <2>0, <2>1, <3>1, <1>t DEF ZrInv, ZrTypes, ZrGoto, ZrOwn
  <2>2. CASE zrNode' = [zrNode EXCEPT ![i] = zrConn[i]] /\ ZrGoto(i, "err") /\ UNCHANGED zrFirst
    <3>1. ZrTypes'
      BY <2>0, <2>2, <1>t DEF ZrTypes, ZrGoto
    <3> QED
      BY <2>0, <2>2, <3>1, <1>t DEF ZrInv, ZrTypes, ZrGoto, ZrOwn
  <2>3. CASE ZrGoto(i, "err") /\ UNCHANGED <<zrNode, zrFirst>>
    BY <2>0, <2>3, <1>t DEF ZrInv, ZrTypes, ZrGoto, ZrOwn
  <2> QED
    BY <1>4, <2>1, <2>2, <2>3 DEF ZrRun
<1>5. ASSUME NEW i \in ZrProcs, ZrClose(i) PROVE ZrInv'
  <2>1. ZrTypes'
    BY <1>5, <1>t DEF ZrClose, ZrGoto, ZrTypes
  <2>2. /\ zrPc'[i] = "closed" /\ zrConn'[i] = 0 /\ zrConn[i] # 0 /\ zrFirst' = zrFirst
        /\ \A j \in ZrProcs : j # i => zrPc'[j] = zrPc[j] /\ zrConn'[j] = zrConn[j]
        /\ \A j \in ZrProcs : zrNode'[j] = IF zrNode[j] = zrConn[i] THEN 0 ELSE zrNode[j]
    BY <1>5, <1>t DEF ZrClose, ZrGoto, ZrTypes
  <2> QED
    BY <2>1, <2>2 DEF ZrInv, ZrOwn
<1>6. ASSUME NEW i \in ZrProcs, ZrCrash(i) PROVE ZrInv'
  <2>1. ZrTypes'
    BY <1>6, <1>t DEF ZrCrash, ZrGoto, ZrTypes
  <2>2. /\ zrPc'[i] = "new" /\ zrConn'[i] = 0 /\ zrNode' = zrNode
        /\ \A j \in ZrProcs : j # i => zrPc'[j] = zrPc[j] /\ zrConn'[j] = zrConn[j] /\ zrFirst'[j] = zrFirst[j]
    BY <1>6, <1>t DEF ZrCrash, ZrGoto, ZrTypes
  <2> QED
    BY <2>1, <2>2 DEF ZrInv, ZrOwn
<1>7. ASSUME NEW s \in 1..ZrSessions, ZrExpire(s) PROVE ZrInv'
  <2>1. ZrTypes'
    BY <1>7, <1>t DEF ZrExpire, ZrTypes
  <2>2. /\ zrPc' = zrPc /\ zrFirst' = zrFirst /\ s # 0 /\ zrNext # 0
        /\ \A j \in ZrProcs : zrConn'[j] = IF zrConn[j] = s THEN zrNext ELSE zrConn[j]
        /\ \A j \in ZrProcs : zrNode'[j] = IF zrNode[j] = s THEN 0 ELSE zrNode[j]
    BY <1>7, <1>t DEF ZrExpire, ZrTypes
  <2>3. \A j \in ZrProcs : zrConn[j] # zrNext /\ zrFirst[j] # zrNext
    BY <1>t DEF ZrTypes
  <2> QED
    BY <2>1, <2>2, <2>3 DEF ZrInv, ZrOwn
<1>8. CASE UNCHANGED zrVars
  BY <1>8 DEF zrVars, ZrInv, ZrTypes, ZrOwn
<1> QED
  BY <1>1, <1>2, <1>3, <1>4, <1>5, <1>6, <1>7, <1>8 DEF ZrNext

(* A process whose Start has succeeded owns the node of its address, in etcd *)
(* while its lease lives and in zookeeper while its session does, whatever   *)
(* crashes and expiries come before or after (etcd.go:161-236,               *)
(* zk.go:129-161).                                                           *)
THEOREM RegisteredIsOwned == RegSpec => []RegOwned
<1>1. RgInit => RgInv
  BY DEF RgInit, RgInv, RgPublished
<1>2. ZrInit => ZrInv
  BY DEF ZrInit, ZrInv, ZrTypes, ZrOwn
<1>3. RgInv /\ ZrInv => RegOwned
  BY DEF RgInv, ZrInv, RegOwned
<1> QED
  BY <1>1, <1>2, <1>3, RgStep, ZrStep, PTL DEF RegSpec

-----------------------------------------------------------------------------
(* The engine: the counters run only between their start and their deferred  *)
(* Close, and a log that is closed goes to a file.                           *)
EgInv == /\ egPerf => egMain \in {"register", "sending", "perf"}
         /\ egMain = "ended" => egOpen = {}
         /\ egLog = "closed" => egConf.toFile

\* Run, its deferred calls and the signals keep the invariant.
LEMMA EgKeeps == EgInv /\ [EgNext]_egVars => EgInv'
<1> SUFFICES ASSUME EgInv, [EgNext]_egVars PROVE EgInv'
  OBVIOUS
<1>1. CASE EgDefault
  BY <1>1 DEF EgDefault, EgInv
<1>2. CASE EgInitParts
  BY <1>2 DEF EgInitParts, EgInv
<1>3. CASE EgRegister
  BY <1>3 DEF EgRegister, EgInv
<1>4. CASE EgServe
  BY <1>4 DEF EgServe, EgInv
<1>5. CASE EgDeferPerf
  BY <1>5 DEF EgDeferPerf, EgInv
<1>6. CASE EgDeferLog
  BY <1>6 DEF EgDeferLog, EgInv
<1>7. CASE EgDeferInject
  BY <1>7 DEF EgDeferInject, EgInv
<1>8. CASE EgSignal \/ EgHangup
  BY <1>8 DEF EgSignal, EgHangup, EgInv
<1>9. CASE UNCHANGED egVars
  BY <1>9 DEF egVars, EgInv
<1> QED
  BY <1>1, <1>2, <1>3, <1>4, <1>5, <1>6, <1>7, <1>8, <1>9 DEF EgNext, EgStep

(* However Run ends, by a panic of a registration or of the set-up, its      *)
(* deferred calls leave no counter running and no server open, and a log     *)
(* that goes elsewhere than to a file is still open for the servers that     *)
(* close.                                                                    *)
THEOREM EngineCleansUp == EgSpec => []EgCleansUp
<1>1. EgInit => EgInv
  BY DEF EgInit, EgInv
<1>2. EgInv => EgCleansUp
  BY DEF EgInv, EgCleansUp
<1> QED
  BY <1>1, <1>2, EgKeeps, PTL DEF EgSpec

-----------------------------------------------------------------------------
(* Discovery. What a list may hold: addresses, the nil of a value that does   *)
(* not parse, and the marks of an entry that is not a list.                   *)
DsElems == DsAddrs \cup {NoInfo, "absent", "nothing", "untyped nil"}

\* What AddNode appends is an element, and none of the marks.
LEMMA InfoTyped == ASSUME NEW a \in DsAddrs
                   PROVE  EdInfo(a) \in DsElems /\ EdInfo(a) \notin {"absent", "nothing", "untyped nil"}
  BY DsAssumption DEF EdInfo, DsElems, NoInfo

\* The elements of two lists, one after the other.
LEMMA RangeConcat ==
    ASSUME NEW S, NEW s \in Seq(S), NEW t \in Seq(S)
    PROVE  s \o t \in Seq(S) /\ Range(s) \subseteq Range(s \o t) /\ Range(t) \subseteq Range(s \o t)
<1>1. /\ s \o t \in Seq(S) /\ DOMAIN (s \o t) = 1..(Len(s) + Len(t)) /\ DOMAIN s = 1..Len(s) /\ DOMAIN t = 1..Len(t)
      /\ Len(s) \in Nat /\ Len(t) \in Nat
      /\ \A i \in 1..Len(s) : (s \o t)[i] = s[i]
      /\ \A i \in 1..Len(t) : (s \o t)[Len(s) + i] = t[i]
  OBVIOUS
<1>2. ASSUME NEW x \in Range(s) PROVE x \in Range(s \o t)
  <2>1. PICK i \in 1..Len(s) : x = s[i]
    BY <1>1, <1>2 DEF Range
  <2>2. i \in DOMAIN (s \o t) /\ (s \o t)[i] = x
    BY <1>1, <2>1
  <2> QED
    BY <2>2 DEF Range
<1>3. ASSUME NEW x \in Range(t) PROVE x \in Range(s \o t)
  <2>1. PICK i \in 1..Len(t) : x = t[i]
    BY <1>1, <1>3 DEF Range
  <2>2. Len(s) + i \in DOMAIN (s \o t) /\ (s \o t)[Len(s) + i] = x
    BY <1>1, <2>1
  <2> QED
    BY <2>2 DEF Range
<1> QED
  BY <1>1, <1>2, <1>3

\* The elements of a list and one more.
LEMMA RangeAppend ==
    ASSUME NEW S, NEW s \in Seq(S), NEW e \in S
    PROVE  /\ Append(s, e) \in Seq(S) /\ e \in Range(Append(s, e)) /\ Range(s) \subseteq Range(Append(s, e))
           /\ \A x : Append(s, e) = <<x>> => e = x
<1>1. /\ Append(s, e) \in Seq(S) /\ Len(s) \in Nat /\ DOMAIN s = 1..Len(s)
      /\ DOMAIN Append(s, e) = 1..(Len(s) + 1) /\ Len(Append(s, e)) = Len(s) + 1
      /\ Append(s, e)[Len(s) + 1] = e /\ \A i \in 1..Len(s) : Append(s, e)[i] = s[i]
  OBVIOUS
<1>2. e \in Range(Append(s, e))
  BY <1>1 DEF Range
<1>3. ASSUME NEW x \in Range(s) PROVE x \in Range(Append(s, e))
  <2>1. PICK i \in 1..Len(s) : x = s[i]
    BY <1>1, <1>3 DEF Range
  <2>2. i \in DOMAIN Append(s, e) /\ Append(s, e)[i] = x
    BY <1>1, <2>1
  <2> QED
    BY <2>2 DEF Range
<1>4. ASSUME NEW x, Append(s, e) = <<x>> PROVE e = x
  <2>1. Len(<<x>>) = 1 /\ <<x>>[1] = x
    OBVIOUS
  <2>2. Len(s) + 1 = 1
    BY <1>1, <1>4, <2>1
  <2>3. Append(s, e)[1] = e
    BY <1>1, <2>2
  <2> QED
    BY <1>4, <2>1, <2>3
<1> QED
  BY <1>1, <1>2, <1>3, <1>4

\* A list to which AddNode has appended an address.
LEMMA AddedTyped ==
    ASSUME NEW s \in Seq(DsElems), NEW a \in DsAddrs
    PROVE  /\ EdAdded(s, a) \in Seq(DsElems) /\ EdInfo(a) \in Range(EdAdded(s, a))
           /\ Range(s) \subseteq Range(EdAdded(s, a))
           /\ EdAdded(s, a) # EdNothing /\ EdAdded(s, a) # EdAbsent /\ EdAdded(s, a) # <<"untyped nil">>
  BY InfoTyped, RangeAppend DEF EdAdded, EdNothing, EdAbsent

\* A set of positions has a first one.
LEMMA FirstOne ==
    ASSUME NEW I \in SUBSET Nat, I # {}
    PROVE  Min(I) \in I
<1>1. \E x \in I : \A y \in I : ~(<<y, x>> \in OpToRel(<, Nat))
  BY NatLessThanWellFounded, WFMin
<1>2. PICK x \in I : \A y \in I : ~(<<y, x>> \in OpToRel(<, Nat))
  BY <1>1
<1>3. ASSUME NEW y \in I PROVE x =< y
  <2>1. <<y, x>> \in Nat \X Nat /\ <<y, x>>[1] = y /\ <<y, x>>[2] = x
    OBVIOUS
  <2>2. ~(<<y, x>>[1] < <<y, x>>[2])
    BY <1>2, <2>1 DEF OpToRel
  <2> QED
    BY <2>1, <2>2
<1> QED
  BY <1>2, <1>3 DEF Min

\* A list without one of its elements.
LEMMA RemovedTyped ==
    ASSUME NEW S, NEW s \in Seq(S), NEW m \in 1..Len(s)
    PROVE  RemoveAt(s, m) \in Seq(S)
<1>1. /\ m - 1 \in Int /\ m + 1 \in Int /\ 1 \in Int /\ Len(s) \in Int
      /\ \A i \in 1..(m - 1) : s[i] \in S
      /\ \A i \in (m + 1)..Len(s) : s[i] \in S
  OBVIOUS
<1>2. SubSeq(s, 1, m - 1) \in Seq(S) /\ SubSeq(s, m + 1, Len(s)) \in Seq(S)
  BY <1>1, SubSeqProperties
<1> QED
  BY <1>2 DEF RemoveAt

\* The list without the first element that equals e.
LEMMA RemoveFirstTyped ==
    ASSUME NEW S, NEW s \in Seq(S), NEW e
    PROVE  RemoveFirst(s, e) \in Seq(S)
<1>1. CASE ~\E i \in 1..Len(s) : s[i] = e
  BY <1>1 DEF RemoveFirst
<1>2. CASE \E i \in 1..Len(s) : s[i] = e
  <2> DEFINE I == {i \in 1..Len(s) : s[i] = e}
  <2>1. Len(s) \in Nat /\ I # {} /\ I \in SUBSET Nat
    BY <1>2
  <2>2. Min(I) \in 1..Len(s)
    BY <2>1, FirstOne
  <2>3. SelectInSeq(s, LAMBDA v : v = e) = Min(I)
    BY <2>1 DEF SelectInSeq
  <2>4. RemoveFirst(s, e) = RemoveAt(s, Min(I))
    BY <1>2, <2>3 DEF RemoveFirst
  <2> QED
    BY <2>2, <2>4, RemovedTyped
<1> QED
  BY <1>1, <1>2

\* DelNode leaves a list.
LEMMA DeletedTyped ==
    ASSUME NEW s \in Seq(DsElems), NEW e
    PROVE  EdDeleted(s, e) \in Seq(DsElems)
  BY RemoveFirstTyped DEF EdDeleted

\* Get returns every address that is registered.
LEMMA GetsAll ==
    ASSUME NEW S \in SUBSET DsAddrs, NEW order \in SetToSeqs(S)
    PROVE  LET l == [i \in DOMAIN order |-> EdInfo(order[i])]
           IN  l \in Seq(DsElems) /\ \A a \in S : EdInfo(a) \in Range(l)
<1> DEFINE n == Cardinality(S)
<1>1. IsFiniteSet(S) /\ n \in Nat
  BY DsAssumption, FS_Subset, FS_CardinalityType
<1>2. order \in [1..n -> S] /\ \A i, j \in 1..n : i # j => order[i] # order[j]
  BY DEF SetToSeqs
<1>3. order \in Injection(1..n, S)
  BY <1>2 DEF Injection, IsInjective
<1>4. Cardinality(1..n) = n
  BY <1>1, FS_Interval
<1>5. order \in Surjection(1..n, S)
  BY <1>1, <1>3, <1>4, FS_Injection
<1>6. \A a \in S : \E i \in 1..n : order[i] = a
  BY <1>5 DEF Surjection
<1> DEFINE l == [i \in DOMAIN order |-> EdInfo(order[i])]
<1>7. \A i \in 1..n : EdInfo(order[i]) \in DsElems
  BY <1>2, InfoTyped
<1>8. l \in [1..n -> DsElems]
  BY <1>2, <1>7
<1>9. l \in Seq(DsElems)
  BY <1>1, <1>8
<1>10. \A a \in S : EdInfo(a) \in Range(l)
  BY <1>2, <1>6 DEF Range
<1> QED
  BY <1>9, <1>10

(* Discovery through etcd: once Get has returned, an address that is          *)
(* registered is in the list, or excused, or in what the watching goroutine   *)
(* holds, or in an event that it has not taken yet.                           *)
EdTypes == /\ edList \in Seq(DsElems) /\ edStore \in SUBSET DsAddrs
           /\ edEvents \in Seq([type : {"put", "delete"}, addr : DsAddrs])
           /\ edHand \in [{"watch", "user"} -> Seq(DsElems)]

EdKnown(x) == x \in Range(edList) \cup edExcused
EdHeld(x) == edHand["watch"] # EdNothing /\ x \in Range(edHand["watch"])
EdComes(x) == \E i \in DOMAIN edEvents : edEvents[i].type = "put" /\ EdInfo(edEvents[i].addr) = x

EdInv == /\ EdTypes
         /\ edWatch \in {"gap", "loop"} =>
              \A a \in edStore : EdKnown(EdInfo(a)) \/ EdHeld(EdInfo(a)) \/ EdComes(EdInfo(a))

\* The marks are lists of their own.
LEMMA MarksTyped == /\ EdNothing \in Seq(DsElems) /\ EdAbsent \in Seq(DsElems)
                    /\ <<"untyped nil">> \in Seq(DsElems) /\ <<>> \in Seq(DsElems)
<1>1. \A S : <<>> \in Seq(S) /\ \A x \in S : <<x>> \in Seq(S)
  OBVIOUS
<1>2. "nothing" \in DsElems /\ "absent" \in DsElems /\ "untyped nil" \in DsElems
  BY DEF DsElems
<1> QED
  BY <1>1, <1>2 DEF EdNothing, EdAbsent

\* Before Watch there is no list.
LEMMA EdInitHolds == EdInit => EdInv
<1> SUFFICES ASSUME EdInit PROVE EdInv
  OBVIOUS
<1>1. edHand \in [{"watch", "user"} -> Seq(DsElems)]
  BY MarksTyped DEF EdInit
<1>2. edEvents \in Seq([type : {"put", "delete"}, addr : DsAddrs])
  BY DEF EdInit
<1> QED
  BY <1>1, <1>2, MarksTyped DEF EdInit, EdInv, EdTypes

\* Get, and the changes that come before the watch begins.
LEMMA EdGetStep == EdInv /\ EdGet => EdInv'
<1> SUFFICES ASSUME EdInv, EdGet PROVE EdInv'
  OBVIOUS
<1>1. EdTypes /\ edHand' = edHand /\ edStore' = edStore /\ edEvents' = edEvents
  BY DEF EdGet, EdInv
<1>2. CASE edWatch' = "dead" /\ UNCHANGED <<edList, edExcused>>
  BY <1>1, <1>2 DEF EdInv, EdTypes
<1>3. ASSUME NEW order \in SetToSeqs(edStore),
             edList' = edList \o [i \in DOMAIN order |-> EdInfo(order[i])]
      PROVE  EdInv'
  <2> PICK l : l = [i \in DOMAIN order |-> EdInfo(order[i])]
    OBVIOUS
  <2>1. l \in Seq(DsElems) /\ \A a \in edStore : EdInfo(a) \in Range(l)
    BY <1>1, GetsAll DEF EdTypes
  <2>2. edList' \in Seq(DsElems) /\ Range(l) \subseteq Range(edList')
    BY <1>1, <1>3, <2>1, RangeConcat DEF EdTypes
  <2>3. \A a \in edStore' : EdKnown(EdInfo(a))'
    BY <1>1, <2>1, <2>2 DEF EdKnown
  <2> QED
    BY <1>1, <2>2, <2>3 DEF EdInv, EdTypes
<1> QED
  BY <1>2, <1>3 DEF EdGet

\* A change in etcd is noticed by the watch, or comes before it.
LEMMA EdChangeStep ==
    ASSUME EdInv, NEW a \in DsAddrs, NEW type \in {"put", "delete"}, EdChange(a, type)
    PROVE  EdInv'
<1> DEFINE E == [type : {"put", "delete"}, addr : DsAddrs]
<1> PICK ev : ev = [type |-> type, addr |-> a]
  OBVIOUS
<1>1. EdTypes /\ edHand' = edHand /\ edList' = edList /\ edWatch' = edWatch
  BY DEF EdChange, EdInv
<1>2. ev \in E /\ ev.type = type /\ ev.addr = a
  OBVIOUS
<1>3. edStore' \in SUBSET DsAddrs /\ edStore' \subseteq edStore \cup {a}
      /\ (type = "delete" => edStore' \subseteq edStore) /\ edExcused \subseteq edExcused'
  BY <1>1 DEF EdChange, EdTypes
<1>4. edEvents' = IF edWatch = "loop" THEN Append(edEvents, ev) ELSE edEvents
  BY DEF EdChange
<1>5. /\ edEvents' \in Seq(E)
      /\ \A i \in DOMAIN edEvents : i \in DOMAIN edEvents' /\ edEvents'[i] = edEvents[i]
      /\ edWatch = "loop" => \E i \in DOMAIN edEvents' : edEvents'[i] = ev
  <2>1. edEvents \in Seq(E)
    BY <1>1 DEF EdTypes
  <2>2. \A S : \A s \in Seq(S) : \A e \in S :
          /\ Append(s, e) \in Seq(S) /\ DOMAIN s = 1..Len(s) /\ DOMAIN Append(s, e) = 1..(Len(s) + 1)
          /\ Len(s) \in Nat /\ Append(s, e)[Len(s) + 1] = e /\ \A i \in 1..Len(s) : Append(s, e)[i] = s[i]
    OBVIOUS
  <2>3. /\ Append(edEvents, ev) \in Seq(E) /\ DOMAIN edEvents = 1..Len(edEvents)
        /\ DOMAIN Append(edEvents, ev) = 1..(Len(edEvents) + 1) /\ Len(edEvents) \in Nat
        /\ Append(edEvents, ev)[Len(edEvents) + 1] = ev
        /\ \A i \in 1..Len(edEvents) : Append(edEvents, ev)[i] = edEvents[i]
    BY <1>2, <2>1, <2>2
  <2>4. CASE edWatch = "loop"
    <3>1. edEvents' = Append(edEvents, ev)
      BY <1>4, <2>4
    <3>2. Len(edEvents) + 1 \in 1..(Len(edEvents) + 1) /\ 1..Len(edEvents) \subseteq 1..(Len(edEvents) + 1)
      BY <2>3
    <3> QED
      BY <2>3, <3>1, <3>2
  <2>5. CASE edWatch # "loop"
    BY <1>4, <2>1, <2>5
  <2> QED
    BY <2>4, <2>5
<1>6. \A x : EdKnown(x) => EdKnown(x)'
  BY <1>1, <1>3 DEF EdKnown
<1>7. \A x : EdHeld(x) => EdHeld(x)'
  BY <1>1 DEF EdHeld
<1>8. \A x : EdComes(x) => EdComes(x)'
  BY <1>5 DEF EdComes
<1>9. type = "put" /\ edWatch = "loop" => EdComes(EdInfo(a))'
  BY <1>2, <1>5 DEF EdComes
<1>10. edWatch = "gap" => EdKnown(EdInfo(a))'
  BY <1>1 DEF EdChange, EdKnown
<1>11. EdTypes'
  BY <1>1, <1>3, <1>5 DEF EdTypes
<1>12. ASSUME edWatch' \in {"gap", "loop"}, NEW b \in edStore'
       PROVE  (EdKnown(EdInfo(b)) \/ EdHeld(EdInfo(b)) \/ EdComes(EdInfo(b)))'
  <2>1. CASE b \in edStore
    BY <1>1, <1>6, <1>7, <1>8, <1>12, <2>1 DEF EdInv
  <2>2. CASE b \notin edStore
    <3>1. b = a /\ type = "put"
      BY <1>3, <1>12, <2>2
    <3> QED
      BY <1>1, <1>9, <1>10, <1>12, <3>1
  <2> QED
    BY <2>1, <2>2
<1> QED
  BY <1>11, <1>12 DEF EdInv

\* The first of a sequence of events and the others.
LEMMA TailEvents ==
    ASSUME NEW S, NEW s \in Seq(S), s # <<>>
    PROVE  /\ Head(s) \in S /\ Tail(s) \in Seq(S) /\ Head(s) = s[1]
           /\ \A i \in DOMAIN s : i = 1 \/ (i - 1 \in DOMAIN Tail(s) /\ Tail(s)[i - 1] = s[i])
<1>1. /\ Len(s) \in Nat \ {0} /\ DOMAIN s = 1..Len(s) /\ Head(s) = s[1] /\ Head(s) \in S
      /\ Tail(s) \in Seq(S) /\ DOMAIN Tail(s) = 1..(Len(s) - 1)
      /\ \A i \in 1..(Len(s) - 1) : Tail(s)[i] = s[i + 1]
  OBVIOUS
<1>2. ASSUME NEW i \in 1..Len(s), i # 1
      PROVE  i - 1 \in 1..(Len(s) - 1) /\ (i - 1) + 1 = i
  BY <1>1, <1>2
<1>3. ASSUME NEW i \in DOMAIN s, i # 1
      PROVE  i - 1 \in DOMAIN Tail(s) /\ Tail(s)[i - 1] = s[i]
  BY <1>1, <1>2, <1>3
<1> QED
  BY <1>1, <1>3

\* The watching goroutine takes an event.
LEMMA EdTakeStep == EdInv /\ EdTake => EdInv'
<1> SUFFICES ASSUME EdInv, EdTake PROVE EdInv'
  OBVIOUS
<1> PICK ev : ev = Head(edEvents)
  OBVIOUS
<1> PICK h : h = EdHandled(ev)
  OBVIOUS
<1>1. /\ EdTypes /\ edList' = edList /\ edStore' = edStore /\ edExcused' = edExcused
      /\ edEvents # <<>> /\ edEvents' = Tail(edEvents) /\ edWatch = "loop" /\ edHand["watch"] = EdNothing
  BY DEF EdTake, EdInv
<1>2. /\ ev \in [type : {"put", "delete"}, addr : DsAddrs] /\ ev = edEvents[1]
      /\ edEvents' \in Seq([type : {"put", "delete"}, addr : DsAddrs])
      /\ \A i \in DOMAIN edEvents : i = 1 \/ (i - 1 \in DOMAIN edEvents' /\ edEvents'[i - 1] = edEvents[i])
  BY <1>1, TailEvents DEF EdTypes
<1>3. CASE edWatch' = "dead" /\ UNCHANGED edHand
  BY <1>1, <1>2, <1>3 DEF EdInv, EdTypes
<1>4. CASE edHand' = [edHand EXCEPT !["watch"] = h]
  <2>1. h \in Seq(DsElems)
    BY <1>1, <1>2, AddedTyped, DeletedTyped DEF EdHandled, EdTypes
  <2>2. edHand' \in [{"watch", "user"} -> Seq(DsElems)] /\ edHand'["watch"] = h
    BY <1>1, <1>4, <2>1 DEF EdTypes
  <2>3. EdTypes'
    BY <1>1, <1>2, <2>2 DEF EdTypes
  <2>4. ev.type = "put" => h # EdNothing /\ EdInfo(ev.addr) \in Range(h)
    BY <1>1, <1>2, AddedTyped DEF EdHandled, EdTypes
  <2>5. \A x : EdKnown(x) => EdKnown(x)'
    BY <1>1 DEF EdKnown
  <2>6. \A x : ~EdHeld(x)
    BY <1>1 DEF EdHeld
  <2>7. ASSUME NEW x, EdComes(x) PROVE EdComes(x)' \/ EdHeld(x)'
    <3>1. PICK i \in DOMAIN edEvents : edEvents[i].type = "put" /\ EdInfo(edEvents[i].addr) = x
      BY <2>7 DEF EdComes
    <3>2. CASE i = 1
      BY <1>2, <2>2, <2>4, <3>1, <3>2 DEF EdHeld
    <3>3. CASE i # 1
      BY <1>2, <3>1, <3>3 DEF EdComes
    <3> QED
      BY <3>2, <3>3
  <2> QED
    BY <1>1, <2>3, <2>5, <2>6, <2>7 DEF EdInv
<1> QED
  BY <1>3, <1>4 DEF EdTake

\* A list is stored; what it overwrites is excused.
LEMMA EdPutStep == ASSUME EdInv, NEW p \in DOMAIN edHand, EdPut(p) PROVE EdInv'
<1>1. /\ EdTypes /\ edStore' = edStore /\ edEvents' = edEvents /\ edWatch' = edWatch
      /\ edList' = edHand[p] /\ edHand' = [edHand EXCEPT ![p] = EdNothing]
      /\ edExcused' = (edExcused \cup Range(edList)) \ Range(edHand[p])
  BY DEF EdPut, EdInv
<1>2. p \in {"watch", "user"} /\ edList' \in Seq(DsElems)
  BY <1>1 DEF EdTypes
<1>3. edHand' \in [{"watch", "user"} -> Seq(DsElems)] /\ (p # "watch" => edHand'["watch"] = edHand["watch"])
  BY <1>1, <1>2, MarksTyped DEF EdTypes
<1>4. EdTypes'
  BY <1>1, <1>2, <1>3 DEF EdTypes
<1>5. \A x : EdKnown(x) => EdKnown(x)'
  BY <1>1 DEF EdKnown
<1>6. \A x : EdHeld(x) => EdKnown(x)' \/ EdHeld(x)'
  BY <1>1, <1>3 DEF EdKnown, EdHeld
<1>7. \A x : EdComes(x) => EdComes(x)'
  BY <1>1 DEF EdComes
<1> QED
  BY <1>1, <1>4, <1>5, <1>6, <1>7 DEF EdInv

\* AddNode and DelNode of the user load the list and make their own.
LEMMA EdUserStep == ASSUME EdInv, NEW a \in DsAddrs, EdUser(a) PROVE EdInv'
<1>1. /\ EdTypes /\ edStore' = edStore /\ edEvents' = edEvents /\ edWatch' = edWatch
      /\ edList' = edList /\ edExcused' = edExcused
  BY DEF EdUser, EdInv
<1>2. PICK h \in Seq(DsElems) : edHand' = [edHand EXCEPT !["user"] = h]
  BY <1>1, AddedTyped, DeletedTyped DEF EdUser, EdTypes
<1>3. edHand' \in [{"watch", "user"} -> Seq(DsElems)] /\ edHand'["watch"] = edHand["watch"]
  BY <1>1, <1>2 DEF EdTypes
<1> QED
  BY <1>1, <1>3 DEF EdInv, EdTypes, EdKnown, EdHeld, EdComes

\* Every step of the watch, of the user and of etcd keeps the invariant.
LEMMA EdStep == EdInv /\ [EdNext]_edVars => EdInv'
<1> SUFFICES ASSUME EdInv, [EdNext]_edVars PROVE EdInv'
  OBVIOUS
<1>1. CASE EdWatch
  BY <1>1, MarksTyped DEF EdWatch, EdInv, EdTypes
<1>2. CASE EdWatchFrom \/ EdClose \/ EdStopped \/ UNCHANGED edVars
  <2>1. /\ edList' = edList /\ edStore' = edStore /\ edEvents' = edEvents /\ edHand' = edHand
        /\ edExcused' = edExcused /\ (edWatch' \in {"gap", "loop"} => edWatch \in {"gap", "loop"})
    BY <1>2 DEF EdWatchFrom, EdClose, EdStopped, edVars
  <2> QED
    BY <2>1 DEF EdInv, EdTypes, EdKnown, EdHeld, EdComes
<1>3. ASSUME NEW a \in DsAddrs, EdChange(a, "put") \/ EdChange(a, "delete") PROVE EdInv'
  BY <1>3, EdChangeStep
<1> QED
  BY <1>1, <1>2, <1>3, EdGetStep, EdTakeStep, EdPutStep, EdUserStep DEF EdNext

(* While the watch runs and has handled its events, the list holds every     *)
(* address that is registered, whatever was put, put again or deleted and    *)
(* however AddNode and DelNode of the user interleave with it, except what   *)
(* fell between Get and Watch or was lost to a concurrent store              *)
(* (discovery/etcd.go:177-283).                                              *)
THEOREM EtcdWatchKnows == EdSpec => []EdKnows
<1>1. EdInv => EdKnows
  <2> SUFFICES ASSUME EdInv, edWatch = "loop", edEvents = <<>>, edHand["watch"] = EdNothing, NEW a \in edStore
               PROVE  EdInfo(a) \in Range(edList) \cup edExcused
    BY DEF EdKnows
  <2>1. ~EdHeld(EdInfo(a)) /\ ~EdComes(EdInfo(a))
    BY DEF EdHeld, EdComes
  <2> QED
    BY <2>1 DEF EdInv, EdKnown
<1> QED
  BY <1>1, EdInitHolds, EdStep, PTL DEF EdSpec

-----------------------------------------------------------------------------
(* Discovery through zookeeper: the entry is the nil of a reload exactly     *)
(* after one has begun, and until then holds the children read so far.       *)
ZdInv == /\ zdEntry \in Seq(DsElems) /\ zdKids \in SUBSET DsAddrs /\ zdReloads \in Nat /\ zdSteps \in Nat
         /\ zdReloads > 0 <=> zdEntry = ZdNil
         /\ zdWatch \in {"none", "begin", "children"} => zdReloads = 0
         /\ zdWatch = "reload" => zdReloads > 0
         /\ zdPanics => zdReloads > 0 \/ zdStop
         /\ zdWatch \in {"children", "armed"} /\ zdReloads = 0 /\ zdSteps = 0
              => \A a \in zdKids : a \in zdTodo \/ EdInfo(a) \in Range(zdEntry)
         /\ zdWatch = "armed" => zdTodo = {}

\* Loading, the reload, changes in zookeeper, readers and Close keep it.
LEMMA ZdStep == ZdInv /\ [ZdNext]_zdVars => ZdInv'
<1> SUFFICES ASSUME ZdInv, [ZdNext]_zdVars PROVE ZdInv'
  OBVIOUS
<1>0. ZdNil # EdAbsent /\ ZdNil # <<>>
  BY DEF ZdNil, EdAbsent
<1>1. CASE ZdWatch
  BY <1>0, <1>1, MarksTyped DEF ZdWatch, ZdInv
<1>2. CASE ZdChildren
  <2>1. CASE zdWatch' = "dead" /\ UNCHANGED <<zdTodo, zdEntry, zdReloads>>
    BY <1>2, <2>1 DEF ZdChildren, ZdInv
  <2>2. CASE zdWatch = "begin" /\ zdTodo' = zdKids /\ zdWatch' = "children" /\ UNCHANGED <<zdEntry, zdReloads>>
    BY <1>2, <2>2 DEF ZdChildren, ZdInv
  <2>3. CASE zdWatch # "begin" /\ zdWatch' = "reload" /\ zdEntry' = ZdNil /\ zdReloads' = zdReloads + 1
    <3>1. zdEntry' \in Seq(DsElems)
      BY <2>3, MarksTyped DEF ZdNil
    <3> QED
      BY <1>2, <2>3, <3>1 DEF ZdChildren, ZdInv
  <2> QED
    BY <1>2, <2>1, <2>2, <2>3 DEF ZdChildren
<1>3. ASSUME NEW a \in DsAddrs, ZdChild(a) PROVE ZdInv'
  <2>1. CASE a \in zdKids /\ zdWatch = "children"
    <3>1. zdEntry' = EdAdded(zdEntry, a) /\ zdWatch' = zdWatch /\ zdTodo' = zdTodo \ {a}
      BY <1>3, <2>1 DEF ZdChild, EdAdded
    <3>2. /\ zdEntry' \in Seq(DsElems) /\ EdInfo(a) \in Range(zdEntry') /\ Range(zdEntry) \subseteq Range(zdEntry')
          /\ zdEntry' # ZdNil
      BY <3>1, AddedTyped DEF ZdInv, ZdNil
    <3>3. zdReloads = 0
      BY <2>1 DEF ZdInv
    <3> QED
      BY <1>3, <2>1, <3>1, <3>2, <3>3 DEF ZdChild, ZdInv
  <2>2. CASE ~(a \in zdKids /\ zdWatch = "children")
    BY <1>3, <2>2 DEF ZdChild, ZdInv
  <2> QED
    BY <2>1, <2>2
<1>4. CASE ZdArm
  BY <1>4 DEF ZdArm, ZdInv
<1>5. CASE ZdFired \/ ZdStopped
  BY <1>5 DEF ZdFired, ZdStopped, ZdInv
<1>6. ASSUME NEW a \in DsAddrs, ZdChange(a) PROVE ZdInv'
  BY <1>6 DEF ZdChange, ZdInv
<1>7. CASE ZdRead
  BY <1>7 DEF ZdRead, ZdInv
<1>8. CASE ZdClose
  BY <1>8 DEF ZdClose, ZdInv
<1>9. CASE UNCHANGED zdVars
  BY <1>9 DEF zdVars, ZdInv
<1> QED
  BY <1>1, <1>2, <1>3, <1>4, <1>5, <1>6, <1>7, <1>8, <1>9 DEF ZdNext

(* The first load of the children is complete, and a reader or Close panics  *)
(* only once a reload has replaced the list or when Close is repeated        *)
(* (discovery/zk.go:157-258).                                                *)
THEOREM ZkWatchKnows == ZdSpec => []ZdKnows
<1>0. ZdNil # EdAbsent
  BY DEF ZdNil, EdAbsent
<1>1. ASSUME ZdInit PROVE ZdInv
  <2>1. zdEntry \in Seq(DsElems) /\ zdEntry # ZdNil
    BY <1>0, <1>1, MarksTyped DEF ZdInit
  <2> QED
    BY <1>1, <2>1 DEF ZdInit, ZdInv
<1>2. ZdInv => ZdKnows
  BY DEF ZdInv, ZdKnows, ZdFirstLoad, ZdPanicsLate
<1> QED
  BY <1>1, <1>2, ZdStep, PTL DEF ZdSpec
=============================================================================
