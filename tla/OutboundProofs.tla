--------------------------- MODULE OutboundProofs ---------------------------
(* Proofs about the clients of other systems, for every number of callers,    *)
(* servers, requests and retries.                                             *)
EXTENDS RedisPool, RedisCluster, HttpClient, MysqlClient, FiniteSetTheorems, NaturalsInduction, TLAPS

-----------------------------------------------------------------------------
(* The redis pool. *)

RpAttempts == [st : {"idle", "get", "do", "done"}, turn : Nat, used : SUBSET RpAddrs,
               conn : RpAddrs \cup {"none", "failing", "nil"}, err : BOOLEAN]

RpTypes == /\ rpServers \in SUBSET RpAddrs
           /\ rpAt \in [RpParties -> RpAttempts]
           /\ rpActive \in [RpAddrs -> Int]
           /\ rpTried \in [RpParties -> [RpAddrs -> {0, 1}]]
           /\ rpBatch \in [st : {"idle", "round", "returned"}, turn : Nat, todo : SUBSET RpReqs,
                           run : SUBSET RpReqs, errs : SUBSET RpReqs]
           /\ rpReplies \in [RpReqs -> Nat]

\* The attempts of a Do: a is its state and tried the attempts on each server.
\* What it has used are servers, each tried once, one for each turn that is over.
RpDoGood(a, tried) ==
    /\ a.st # "do" => a.conn = "none"
    /\ a.st # "idle" => /\ a.used \subseteq rpServers /\ IsFiniteSet(a.used) /\ a.turn \in 1..RpRetry
                        /\ \A s \in RpAddrs : tried[s] = IF s \in a.used THEN 1 ELSE 0
    /\ a.st = "get" => Cardinality(a.used) = a.turn - 1
    /\ a.st = "do" => IF a.conn = "nil" THEN Cardinality(a.used) = a.turn - 1 /\ rpServers \subseteq a.used
                                        ELSE Cardinality(a.used) = a.turn

RpDos == \A g \in RpParties : /\ RpDoGood(rpAt[g], rpTried[g])
                              /\ rpAt[g].st # "idle" => RpStarted

\* The attempts that hold a connection of a server are what its pool counts.
RpHolders(s) == {g \in RpParties : rpAt[g].conn = s}
RpExact == \A s \in RpAddrs : rpActive[s] = Cardinality(RpHolders(s))

\* A request of a batch runs only while it is in the goroutine pool, and is
\* answered exactly when the round has no more to do with it.
RpOpen == rpBatch.todo \cup rpBatch.run \cup rpBatch.errs
RpRounds == /\ \A r \in RpReqs : rpAt[r].st # "idle" => rpBatch.st = "round" /\ r \in rpBatch.run
            /\ rpBatch.st # "idle" => RpStarted
            /\ rpBatch.st = "round" =>
                 /\ rpBatch.todo \cap rpBatch.run = {} /\ rpBatch.todo \cap rpBatch.errs = {}
                 /\ rpBatch.run \cap rpBatch.errs = {}
                 /\ \A r \in RpReqs : rpReplies[r] = IF r \in RpOpen THEN 0 ELSE 1
            /\ rpBatch.st = "returned" => \A r \in RpReqs : rpReplies[r] = 1

RpInv == RpTypes /\ RpDos /\ RpExact /\ RpRounds

\* There are finitely many callers and requests.
LEMMA RpPartiesFinite == IsFiniteSet(RpParties) /\ \A s : IsFiniteSet(RpHolders(s)) /\ Cardinality(RpHolders(s)) \in Nat
<1>1. IsFiniteSet(RpParties)
  BY RpAssumption, FS_Union DEF RpParties
<1>2. \A s : RpHolders(s) \in SUBSET RpParties
  BY DEF RpHolders
<1> QED
  BY <1>1, <1>2, FS_Subset, FS_CardinalityType

\* One attempt takes or gives back a connection: how many hold one of a server.
LEMMA RpHoldersStep ==
    ASSUME RpTypes, NEW g \in RpParties, NEW s \in RpAddrs,
           \A h \in RpParties : h # g => rpAt'[h].conn = rpAt[h].conn
    PROVE  Cardinality(RpHolders(s))' = Cardinality(RpHolders(s))
             + (IF rpAt'[g].conn = s THEN 1 ELSE 0) - (IF rpAt[g].conn = s THEN 1 ELSE 0)
<1> PICK P, Q : P = RpHolders(s) /\ Q = RpHolders(s)'
  OBVIOUS
<1>0. IsFiniteSet(P) /\ Cardinality(P) \in Nat
  BY RpPartiesFinite
<1>1. CASE rpAt'[g].conn = s /\ rpAt[g].conn # s
  <2>1. Q = P \cup {g} /\ g \notin P
    BY <1>1 DEF RpHolders
  <2>2. Cardinality(Q) = Cardinality(P) + 1
    BY <1>0, <2>1, FS_AddElement
  <2> QED
    BY <1>0, <1>1, <2>2
<1>2. CASE rpAt'[g].conn # s /\ rpAt[g].conn = s
  <2>1. Q = P \ {g} /\ g \in P
    BY <1>2 DEF RpHolders
  <2>2. Cardinality(Q) = Cardinality(P) - 1
    BY <1>0, <2>1, FS_RemoveElement
  <2> QED
    BY <1>0, <1>2, <2>2
<1>3. CASE (rpAt'[g].conn = s) <=> (rpAt[g].conn = s)
  <2>1. Q = P
    BY <1>3 DEF RpHolders
  <2> QED
    BY <1>0, <1>3, <2>1
<1> QED
  BY <1>1, <1>2, <1>3

\* Nothing is in use before Start.
LEMMA RpInitHolds == RpInit => RpInv
<1> SUFFICES ASSUME RpInit PROVE RpInv
  OBVIOUS
<1>1. RpIdle \in RpAttempts
  BY DEF RpIdle, RpAttempts
<1>2. \A g \in RpParties : rpAt[g] = RpIdle
  BY DEF RpInit
<1>3. RpTypes
  BY <1>1 DEF RpInit, RpTypes
<1>4. RpIdle.st = "idle" /\ RpIdle.conn = "none"
  BY DEF RpIdle
<1>5. RpDos
  BY <1>2, <1>4 DEF RpDos, RpDoGood
<1>6. \A s \in RpAddrs : RpHolders(s) = {}
  BY <1>2, <1>4, RpAssumption DEF RpHolders
<1>7. RpExact
  BY <1>6, FS_EmptySet DEF RpExact, RpInit
<1>8. RpRounds
  BY <1>2, <1>4 DEF RpRounds, RpInit, RpParties
<1> QED
  BY <1>3, <1>5, <1>7, <1>8 DEF RpInv

\* A step of one Do: the others keep their states.
LEMMA RpOneStep ==
    ASSUME RpInv, NEW g \in RpParties, NEW a \in RpAttempts, NEW tr \in [RpAddrs -> {0, 1}],
           rpAt' = [rpAt EXCEPT ![g] = a], rpTried' = [rpTried EXCEPT ![g] = tr],
           RpDoGood(a, tr), a.st # "idle" => RpStarted,
           rpPools' = rpPools, rpServers' = rpServers
    PROVE  /\ rpAt' \in [RpParties -> RpAttempts] /\ rpTried' \in [RpParties -> [RpAddrs -> {0, 1}]]
           /\ RpDos' /\ rpAt'[g] = a /\ \A h \in RpParties : h # g => rpAt'[h] = rpAt[h]
<1>1. RpTypes /\ RpDos
  BY DEF RpInv
<1>2. rpAt' \in [RpParties -> RpAttempts] /\ rpTried' \in [RpParties -> [RpAddrs -> {0, 1}]]
  BY <1>1 DEF RpTypes
<1>3. /\ rpAt'[g] = a /\ rpTried'[g] = tr
      /\ \A h \in RpParties : h # g => rpAt'[h] = rpAt[h] /\ rpTried'[h] = rpTried[h]
  BY <1>1 DEF RpTypes
<1>4. RpDos'
  <2> SUFFICES ASSUME NEW h \in RpParties
               PROVE  RpDoGood(rpAt[h], rpTried[h])' /\ (rpAt'[h].st # "idle" => RpStarted')
    BY DEF RpDos
  <2>1. CASE h = g
    BY <1>3, <2>1 DEF RpDoGood, RpStarted
  <2>2. CASE h # g
    <3>1. RpDoGood(rpAt[h], rpTried[h]) /\ (rpAt[h].st # "idle" => RpStarted)
      BY <1>1 DEF RpDos
    <3> QED
      BY <1>3, <2>2, <3>1 DEF RpDoGood, RpStarted
  <2> QED
    BY <2>1, <2>2
<1> QED
  BY <1>2, <1>3, <1>4

\* The state of a Do that begins.
RpBegun == [st |-> "get", turn |-> 1, used |-> {}, conn |-> "none", err |-> FALSE]

\* It has the type of an attempt, has used no server, and is what Do and a dispatched request begin with.
LEMMA RpBegins ==
    /\ RpBegun \in RpAttempts /\ RpBegun.st = "get" /\ RpBegun.conn = "none"
    /\ RpDoGood(RpBegun, [s \in RpAddrs |-> 0])
    /\ \A g : RpBegin(g) => /\ rpAt' = [rpAt EXCEPT ![g] = RpBegun]
                            /\ rpTried' = [rpTried EXCEPT ![g] = [s \in RpAddrs |-> 0]]
<1>1. RpBegun.st = "get" /\ RpBegun.turn = 1 /\ RpBegun.used = {} /\ RpBegun.conn = "none"
  BY DEF RpBegun
<1>2. RpBegun \in RpAttempts
  <2>1. {} \in SUBSET RpAddrs /\ 1 \in Nat /\ FALSE \in BOOLEAN
    OBVIOUS
  <2> QED
    BY <2>1 DEF RpAttempts, RpBegun
<1>3. [RpIdle EXCEPT !.st = "get", !.turn = 1] = RpBegun
  <2>1. ASSUME NEW a, a = [RpIdle EXCEPT !.st = "get", !.turn = 1]
        PROVE  a = [st |-> "get", turn |-> 1, used |-> {}, conn |-> "none", err |-> FALSE]
    BY <2>1 DEF RpIdle
  <2> QED
    BY <2>1 DEF RpBegun
<1>4. Cardinality({}) = 0 /\ IsFiniteSet({})
  BY FS_EmptySet
<1>5. RpRetry \in Nat \ {0}
  BY RpAssumption
<1>6. RpDoGood(RpBegun, [s \in RpAddrs |-> 0])
  BY <1>1, <1>4, <1>5 DEF RpDoGood
<1> QED
  BY <1>1, <1>2, <1>3, <1>6 DEF RpBegin

\* Nobody who is not in a command holds a connection: the counts stay.
LEMMA RpConnsKept ==
    ASSUME RpInv, \A h \in RpParties : rpAt'[h].conn = rpAt[h].conn, rpActive' = rpActive
    PROVE  RpExact'
<1>1. \A s : RpHolders(s)' = RpHolders(s)
  BY DEF RpHolders
<1> QED
  BY <1>1 DEF RpInv, RpExact

\* A step that leaves the batch alone, and runs no request that does not run, keeps the rounds.
LEMMA RpSameRounds ==
    ASSUME RpInv, \A r \in RpReqs : rpAt'[r].st # "idle" => rpAt[r].st # "idle",
           rpPools' = rpPools, rpBatch' = rpBatch, rpReplies' = rpReplies
    PROVE  RpRounds'
<1>1. RpRounds
  BY DEF RpInv
<1>2. \A r \in RpReqs : rpAt'[r].st # "idle" => rpBatch'.st = "round" /\ r \in rpBatch'.run
  BY <1>1 DEF RpRounds
<1>3. RpOpen' = RpOpen /\ RpStarted' = RpStarted
  BY DEF RpOpen, RpStarted
<1>4. \A r \in RpReqs : rpReplies'[r] = rpReplies[r]
  OBVIOUS
<1> QED
  BY <1>1, <1>2, <1>3, <1>4 DEF RpRounds

\* Do begins.
LEMMA RpDoStep == ASSUME RpInv, NEW g \in RpParties, RpDo(g) PROVE RpInv'
<1> PICK a, tr : a = RpBegun /\ tr = [s \in RpAddrs |-> 0]
  OBVIOUS
<1>1. a \in RpAttempts /\ a.st = "get" /\ a.conn = "none" /\ RpDoGood(a, tr) /\ tr \in [RpAddrs -> {0, 1}]
  BY RpBegins
<1>2. /\ rpPools' = rpPools /\ rpServers' = rpServers /\ rpActive' = rpActive /\ rpBatch' = rpBatch
      /\ rpReplies' = rpReplies /\ g \in RpCallers /\ rpAt[g].st = "idle" /\ RpStarted
      /\ rpAt' = [rpAt EXCEPT ![g] = a] /\ rpTried' = [rpTried EXCEPT ![g] = tr]
  BY RpBegins DEF RpDo
<1>3. /\ rpAt' \in [RpParties -> RpAttempts] /\ rpTried' \in [RpParties -> [RpAddrs -> {0, 1}]]
      /\ RpDos' /\ rpAt'[g] = a /\ \A h \in RpParties : h # g => rpAt'[h] = rpAt[h]
  BY <1>1, <1>2, RpOneStep
<1>4. RpTypes'
  BY <1>2, <1>3 DEF RpInv, RpTypes
<1>5. rpAt[g].conn = "none"
  BY <1>2 DEF RpInv, RpDos, RpDoGood
<1>6. RpExact'
  BY <1>1, <1>2, <1>3, <1>5, RpConnsKept
<1>7. RpRounds'
  <2>1. \A r \in RpReqs : rpAt'[r] = rpAt[r]
    BY <1>2, <1>3, RpAssumption DEF RpParties
  <2> QED
    BY <1>2, <2>1, RpSameRounds
<1> QED
  BY <1>3, <1>4, <1>6, <1>7 DEF RpInv

\* A step of a Do that is under way: the counts follow the connection it holds.
LEMMA RpAttemptStep ==
    ASSUME RpInv, NEW g \in RpParties, NEW a \in RpAttempts, NEW tr \in [RpAddrs -> {0, 1}],
           rpAt' = [rpAt EXCEPT ![g] = a], rpTried' = [rpTried EXCEPT ![g] = tr],
           RpDoGood(a, tr), rpAt[g].st # "idle", rpActive' \in [RpAddrs -> Int],
           \A s \in RpAddrs : rpActive'[s] = rpActive[s] + (IF a.conn = s THEN 1 ELSE 0)
                                                         - (IF rpAt[g].conn = s THEN 1 ELSE 0),
           rpPools' = rpPools, rpServers' = rpServers, rpBatch' = rpBatch, rpReplies' = rpReplies
    PROVE  RpInv'
<1>1. RpTypes /\ RpStarted
  BY DEF RpInv, RpDos
<1>2. /\ rpAt' \in [RpParties -> RpAttempts] /\ rpTried' \in [RpParties -> [RpAddrs -> {0, 1}]]
      /\ RpDos' /\ rpAt'[g] = a /\ \A h \in RpParties : h # g => rpAt'[h] = rpAt[h]
  BY <1>1, RpOneStep
<1>3. RpTypes'
  BY <1>1, <1>2 DEF RpTypes
<1>4. ASSUME NEW s \in RpAddrs PROVE rpActive'[s] = Cardinality(RpHolders(s))'
  <2>1. Cardinality(RpHolders(s))' = Cardinality(RpHolders(s))
           + (IF rpAt'[g].conn = s THEN 1 ELSE 0) - (IF rpAt[g].conn = s THEN 1 ELSE 0)
    BY <1>1, <1>2, RpHoldersStep
  <2>2. rpActive[s] = Cardinality(RpHolders(s)) /\ Cardinality(RpHolders(s)) \in Nat
    BY RpPartiesFinite DEF RpInv, RpExact
  <2>3. rpActive'[s] = rpActive[s] + (IF a.conn = s THEN 1 ELSE 0) - (IF rpAt[g].conn = s THEN 1 ELSE 0)
    OBVIOUS
  <2> QED
    BY <1>2, <2>1, <2>2, <2>3
<1>5. RpExact'
  BY <1>4 DEF RpExact
<1>6. RpRounds'
  BY <1>2, RpSameRounds DEF RpParties
<1> QED
  BY <1>2, <1>3, <1>5, <1>6 DEF RpInv

\* getConn: a server that this Do has not used, or nil when there is none left.
LEMMA RpGetConnStep == ASSUME RpInv, NEW g \in RpParties, RpGetConn(g) PROVE RpInv'
<1>0. /\ rpPools' = rpPools /\ rpServers' = rpServers /\ rpBatch' = rpBatch /\ rpReplies' = rpReplies
      /\ rpAt[g].st = "get"
  BY DEF RpGetConn
<1>1. /\ RpTypes /\ rpAt[g] \in RpAttempts /\ RpDoGood(rpAt[g], rpTried[g]) /\ RpStarted
      /\ rpTried[g] \in [RpAddrs -> {0, 1}]
  BY <1>0 DEF RpInv, RpDos, RpTypes
<1>2. /\ rpAt[g].conn = "none" /\ rpAt[g].used \subseteq rpServers /\ IsFiniteSet(rpAt[g].used)
      /\ rpAt[g].turn \in 1..RpRetry /\ Cardinality(rpAt[g].used) = rpAt[g].turn - 1
      /\ \A s \in RpAddrs : rpTried[g][s] = IF s \in rpAt[g].used THEN 1 ELSE 0
  BY <1>0, <1>1 DEF RpDoGood
<1>3. ASSUME NEW a \in RpAttempts, a.st = "do", NEW tr \in [RpAddrs -> {0, 1}],
             rpAt' = [rpAt EXCEPT ![g] = a], rpTried' = [rpTried EXCEPT ![g] = tr], RpDoGood(a, tr),
             rpActive' \in [RpAddrs -> Int],
             \A s \in RpAddrs : rpActive'[s] = rpActive[s] + IF a.conn = s THEN 1 ELSE 0
      PROVE  RpInv'
  <2>1. \A s \in RpAddrs : rpAt[g].conn # s /\ rpActive[s] \in Int
    BY <1>1, <1>2, RpAssumption DEF RpTypes
  <2>2. \A s \in RpAddrs : rpActive'[s] = rpActive[s] + (IF a.conn = s THEN 1 ELSE 0)
                                                      - (IF rpAt[g].conn = s THEN 1 ELSE 0)
    BY <1>3, <2>1
  <2> QED
    BY <1>0, <1>3, <2>2, RpAttemptStep
<1>4. ASSUME NEW s \in rpServers \ rpAt[g].used, NEW got \in BOOLEAN,
             rpAt' = [rpAt EXCEPT ![g].st = "do", ![g].conn = IF got THEN s ELSE "failing",
                                  ![g].used = RpUsed(@, s)],
             rpActive' = [rpActive EXCEPT ![s] = IF got THEN @ + 1 ELSE @],
             rpTried' = [rpTried EXCEPT ![g][s] = @ + 1]
      PROVE  RpInv'
  <2> PICK x : x = IF got THEN s ELSE "failing"
    OBVIOUS
  <2> PICK a : a = [rpAt[g] EXCEPT !.st = "do", !.conn = x, !.used = rpAt[g].used \cup {s}]
    OBVIOUS
  <2> PICK tr : tr = [rpTried[g] EXCEPT ![s] = rpTried[g][s] + 1]
    OBVIOUS
  <2>0. s \in RpAddrs /\ x \in {s, "failing"} /\ x # "nil"
    BY <1>1, RpAssumption DEF RpTypes
  <2>1. /\ a \in RpAttempts /\ a.st = "do" /\ a.conn = x /\ a.used = rpAt[g].used \cup {s} /\ a.turn = rpAt[g].turn
    BY <1>1, <2>0 DEF RpAttempts
  <2>2. rpAt' = [rpAt EXCEPT ![g] = a] /\ rpTried' = [rpTried EXCEPT ![g] = tr]
    BY <1>1, <1>4 DEF RpTypes, RpUsed, RpAttempts
  <2>3. rpTried[g][s] = 0
    BY <1>2, <2>0
  <2>4. tr \in [RpAddrs -> {0, 1}] /\ \A y \in RpAddrs : tr[y] = IF y \in a.used THEN 1 ELSE 0
    BY <1>1, <1>2, <2>0, <2>1, <2>3
  <2>5. IsFiniteSet(a.used) /\ Cardinality(a.used) = rpAt[g].turn
    <3>1. IsFiniteSet(a.used) /\ Cardinality(a.used) = Cardinality(rpAt[g].used) + 1
      <4> PICK U : U = rpAt[g].used
        OBVIOUS
      <4>1. IsFiniteSet(U) /\ s \notin U /\ a.used = U \cup {s}
        BY <1>2, <2>1
      <4> QED
        BY <4>1, FS_AddElement
    <3> QED
      BY <1>2, <3>1
  <2>6. RpDoGood(a, tr)
    BY <1>2, <2>0, <2>1, <2>4, <2>5 DEF RpDoGood
  <2>7. rpActive' \in [RpAddrs -> Int] /\ \A y \in RpAddrs : rpActive'[y] = rpActive[y] + IF a.conn = y THEN 1 ELSE 0
    <3>1. rpActive \in [RpAddrs -> Int] /\ rpActive[s] \in Int
      BY <1>1, <2>0 DEF RpTypes
    <3>2. (x = s <=> got) /\ \A y \in RpAddrs : y # s => x # y
      BY <2>0, RpAssumption
    <3>3. rpActive' \in [RpAddrs -> Int]
      BY <1>4, <2>0, <3>1
    <3>4. rpActive'[s] = rpActive[s] + (IF x = s THEN 1 ELSE 0) /\ \A y \in RpAddrs : y # s => rpActive'[y] = rpActive[y]
      BY <1>4, <2>0, <3>1, <3>2
    <3>5. \A y \in RpAddrs : rpActive[y] \in Int
      BY <3>1
    <3> QED
      BY <2>1, <3>2, <3>3, <3>4, <3>5
  <2> QED
    BY <1>3, <2>1, <2>2, <2>4, <2>6, <2>7
<1>5. ASSUME RpNoneLeft(rpAt[g].used), rpAt' = [rpAt EXCEPT ![g].st = "do", ![g].conn = "nil"],
             rpActive' = rpActive, rpTried' = rpTried
      PROVE  RpInv'
  <2> PICK a : a = [rpAt[g] EXCEPT !.st = "do", !.conn = "nil"]
    OBVIOUS
  <2>1. a \in RpAttempts /\ a.st = "do" /\ a.conn = "nil" /\ a.used = rpAt[g].used /\ a.turn = rpAt[g].turn
    BY <1>1 DEF RpAttempts
  <2>2. rpAt' = [rpAt EXCEPT ![g] = a] /\ rpTried' = [rpTried EXCEPT ![g] = rpTried[g]]
    BY <1>1, <1>5 DEF RpTypes, RpAttempts
  <2>3. RpDoGood(a, rpTried[g])
    BY <1>2, <1>5, <2>1 DEF RpDoGood, RpNoneLeft
  <2>4. rpActive' \in [RpAddrs -> Int] /\ \A y \in RpAddrs : rpActive'[y] = rpActive[y] + IF a.conn = y THEN 1 ELSE 0
    <3>0. "nil" \notin RpAddrs
      BY RpAssumption
    <3>1. rpActive \in [RpAddrs -> Int] /\ \A y \in RpAddrs : rpActive[y] \in Int /\ a.conn # y
      BY <1>1, <2>1, <3>0 DEF RpTypes
    <3>2. \A y \in RpAddrs : rpActive'[y] = rpActive[y]
      BY <1>5
    <3> QED
      BY <1>5, <3>1, <3>2
  <2> QED
    BY <1>1, <1>3, <2>1, <2>2, <2>3, <2>4
<1> QED
  BY <1>4, <1>5 DEF RpGetConn

\* The command ends, with or without an error, and gives its connection back.
LEMMA RpCommandStep == ASSUME RpInv, NEW g \in RpParties, RpCommand(g) PROVE RpInv'
<1>0. /\ rpPools' = rpPools /\ rpServers' = rpServers /\ rpBatch' = rpBatch /\ rpReplies' = rpReplies
      /\ rpTried' = rpTried /\ rpAt[g].st = "do" /\ rpAt[g].conn # "nil"
  BY DEF RpCommand
<1>1. /\ RpTypes /\ rpAt[g] \in RpAttempts /\ RpDoGood(rpAt[g], rpTried[g])
      /\ rpTried[g] \in [RpAddrs -> {0, 1}]
  BY DEF RpInv, RpDos, RpTypes
<1>2. /\ rpAt[g].used \subseteq rpServers /\ IsFiniteSet(rpAt[g].used)
      /\ rpAt[g].turn \in 1..RpRetry /\ Cardinality(rpAt[g].used) = rpAt[g].turn
      /\ \A s \in RpAddrs : rpTried[g][s] = IF s \in rpAt[g].used THEN 1 ELSE 0
  BY <1>0, <1>1 DEF RpDoGood
<1>3. PICK err \in BOOLEAN :
         /\ rpAt' = [rpAt EXCEPT ![g].conn = "none", ![g].err = err,
                                 ![g].st = IF err /\ rpAt[g].turn < RpRetry THEN "get" ELSE "done",
                                 ![g].turn = IF err /\ @ < RpRetry THEN @ + 1 ELSE @]
         /\ rpActive' = RpReleased(g, err)
  BY DEF RpCommand
<1> PICK again \in BOOLEAN : again <=> (err /\ rpAt[g].turn < RpRetry)
  OBVIOUS
<1> PICK st, turn : st = (IF again THEN "get" ELSE "done") /\ turn = (IF again THEN rpAt[g].turn + 1 ELSE rpAt[g].turn)
  OBVIOUS
<1> PICK a : a = [rpAt[g] EXCEPT !.conn = "none", !.err = err, !.st = st, !.turn = turn]
  OBVIOUS
<1>4. turn \in 1..RpRetry /\ turn \in Nat /\ (again => turn = rpAt[g].turn + 1)
  <2>1. RpRetry \in Nat /\ rpAt[g].turn \in 1..RpRetry
    BY <1>2, RpAssumption
  <2>2. CASE again
    BY <2>1, <2>2
  <2>3. CASE ~again
    BY <2>1, <2>3
  <2> QED
    BY <2>2, <2>3
<1>5. a \in RpAttempts /\ a.st = st /\ a.conn = "none" /\ a.turn = turn /\ a.used = rpAt[g].used
  BY <1>1, <1>4 DEF RpAttempts
<1>6. rpAt' = [rpAt EXCEPT ![g] = a]
  BY <1>1, <1>3 DEF RpTypes, RpAttempts
<1>7. rpTried' = [rpTried EXCEPT ![g] = rpTried[g]]
  BY <1>0, <1>1 DEF RpTypes
<1>8. RpDoGood(a, rpTried[g])
  BY <1>2, <1>4, <1>5 DEF RpDoGood
<1>9. rpActive' \in [RpAddrs -> Int] /\ \A s \in RpAddrs : rpActive'[s] = rpActive[s]
        + (IF a.conn = s THEN 1 ELSE 0) - (IF rpAt[g].conn = s THEN 1 ELSE 0)
  <2>1. "none" \notin RpAddrs
    BY RpAssumption
  <2>2. \A s \in RpAddrs : rpActive[s] \in Int
    BY <1>1 DEF RpTypes
  <2>3. rpActive' = [s \in RpAddrs |-> IF s = rpAt[g].conn THEN rpActive[s] - 1 ELSE rpActive[s]]
    BY <1>3 DEF RpReleased
  <2> QED
    BY <1>5, <2>1, <2>2, <2>3
<1> QED
  BY <1>0, <1>1, <1>5, <1>6, <1>7, <1>8, <1>9, RpAttemptStep

\* Do returns.
LEMMA RpReturnStep == ASSUME RpInv, NEW g \in RpParties, RpReturn(g) PROVE RpInv'
<1>0. /\ rpPools' = rpPools /\ rpServers' = rpServers /\ rpBatch' = rpBatch /\ rpReplies' = rpReplies
      /\ rpTried' = rpTried /\ rpActive' = rpActive /\ rpAt[g].st = "done" /\ rpAt' = [rpAt EXCEPT ![g].st = "idle"]
  BY DEF RpReturn
<1>1. /\ RpTypes /\ rpAt[g] \in RpAttempts /\ RpDoGood(rpAt[g], rpTried[g])
      /\ rpTried[g] \in [RpAddrs -> {0, 1}]
  BY DEF RpInv, RpDos, RpTypes
<1> PICK a : a = [rpAt[g] EXCEPT !.st = "idle"]
  OBVIOUS
<1>2. a \in RpAttempts /\ a.st = "idle" /\ a.conn = rpAt[g].conn
  BY <1>1 DEF RpAttempts
<1>3. rpAt' = [rpAt EXCEPT ![g] = a] /\ rpTried' = [rpTried EXCEPT ![g] = rpTried[g]]
  BY <1>0, <1>1 DEF RpTypes
<1>4. RpDoGood(a, rpTried[g])
  BY <1>0, <1>1, <1>2 DEF RpDoGood
<1>5. rpActive' \in [RpAddrs -> Int] /\ \A s \in RpAddrs : rpActive'[s] = rpActive[s]
        + (IF a.conn = s THEN 1 ELSE 0) - (IF rpAt[g].conn = s THEN 1 ELSE 0)
  <2>1. rpActive \in [RpAddrs -> Int] /\ \A s \in RpAddrs : rpActive[s] \in Int
    BY <1>1 DEF RpTypes
  <2>2. \A s \in RpAddrs : rpActive'[s] = rpActive[s]
    BY <1>0
  <2> QED
    BY <1>0, <1>2, <2>1, <2>2
<1> QED
  BY <1>0, <1>1, <1>2, <1>3, <1>4, <1>5, RpAttemptStep

\* Start and Close, when no Do is under way, and the panics, which change nothing else.
LEMMA RpOwnerStep ==
    ASSUME RpInv, \/ \E addrs \in RpConfigs : RpStart(addrs)
                  \/ RpClose \/ RpNilPool \/ \E g \in RpParties : RpNil(g)
    PROVE  RpInv'
<1>0. /\ rpAt' = rpAt /\ rpActive' = rpActive /\ rpTried' = rpTried
      /\ rpBatch' = rpBatch /\ rpReplies' = rpReplies
  BY DEF RpStart, RpClose, RpNilPool, RpNil
<1>1. RpTypes /\ RpDos /\ RpRounds
  BY DEF RpInv
<1>2. rpServers' \in SUBSET RpAddrs
  <2>1. CASE rpServers' = rpServers
    BY <1>1, <2>1 DEF RpTypes
  <2>2. ASSUME NEW addrs \in RpConfigs, rpServers' = RpPools(addrs) PROVE rpServers' \in SUBSET RpAddrs
    <3>1. \A i \in DOMAIN addrs : addrs[i] \in RpAddrs \cup {""}
      BY RpAssumption
    <3> QED
      BY <2>2, <3>1 DEF RpPools
  <2> QED
    BY <2>1, <2>2 DEF RpStart, RpClose, RpNilPool, RpNil
<1>3. RpTypes'
  BY <1>0, <1>1, <1>2 DEF RpTypes
<1>4. RpExact'
  BY <1>0, RpConnsKept
<1>5. (RpStarted => RpStarted' /\ rpServers' = rpServers)
  BY DEF RpStart, RpClose, RpNilPool, RpNil, RpStarted
<1>6. RpDos'
  <2> SUFFICES ASSUME NEW h \in RpParties
               PROVE  RpDoGood(rpAt[h], rpTried[h])' /\ (rpAt'[h].st # "idle" => RpStarted')
    BY DEF RpDos
  <2>1. RpDoGood(rpAt[h], rpTried[h]) /\ (rpAt[h].st # "idle" => RpStarted)
    BY <1>1 DEF RpDos
  <2>2. CASE rpAt[h].st = "idle"
    BY <1>0, <2>1, <2>2 DEF RpDoGood
  <2>3. CASE rpAt[h].st # "idle"
    BY <1>0, <1>5, <2>1, <2>3 DEF RpDoGood
  <2> QED
    BY <2>2, <2>3
<1>7. RpRounds'
  <2>1. RpOpen' = RpOpen
    BY <1>0 DEF RpOpen
  <2> QED
    BY <1>0, <1>1, <1>5, <2>1 DEF RpRounds
<1> QED
  BY <1>3, <1>4, <1>6, <1>7 DEF RpInv

\* BatchDo begins: every request is to be dispatched, and none is answered.
LEMMA RpBatchDoStep == ASSUME RpInv, RpBatchDo PROVE RpInv'
<1>0. /\ rpBatch.st = "idle" /\ RpStarted /\ rpPools' = rpPools /\ rpServers' = rpServers /\ rpAt' = rpAt
      /\ rpActive' = rpActive /\ rpTried' = rpTried
  BY DEF RpBatchDo
<1>1. rpBatch' = [st |-> "round", turn |-> 1, todo |-> RpReqs, run |-> {}, errs |-> {}]
  BY DEF RpBatchDo
<1>2. rpReplies' = [r \in RpReqs |-> 0]
  BY DEF RpBatchDo
<1>3. rpBatch'.st = "round" /\ rpBatch'.todo = RpReqs /\ rpBatch'.run = {} /\ rpBatch'.errs = {}
  BY <1>1
<1>4. RpTypes'
  <2>1. rpBatch' \in [st : {"idle", "round", "returned"}, turn : Nat, todo : SUBSET RpReqs,
                      run : SUBSET RpReqs, errs : SUBSET RpReqs]
    BY <1>1
  <2>2. rpReplies' \in [RpReqs -> Nat]
    BY <1>2
  <2> QED
    BY <1>0, <2>1, <2>2 DEF RpInv, RpTypes
<1>5. RpDos'
  BY <1>0 DEF RpInv, RpDos, RpDoGood, RpStarted
<1>6. RpExact'
  BY <1>0, RpConnsKept
<1>7. RpRounds'
  <2>1. \A r \in RpReqs : rpAt'[r].st = "idle"
    BY <1>0 DEF RpInv, RpRounds
  <2>2. RpOpen' = RpReqs
    BY <1>3 DEF RpOpen
  <2>3. \A r \in RpReqs : rpReplies'[r] = 0
    BY <1>2
  <2>4. RpStarted'
    BY <1>0 DEF RpStarted
  <2> QED
    BY <1>3, <2>1, <2>2, <2>3, <2>4 DEF RpRounds
<1> QED
  BY <1>4, <1>5, <1>6, <1>7 DEF RpInv

\* A request moves from the requests to dispatch to the goroutine pool.
LEMMA RpDispatchStep == ASSUME RpInv, NEW r \in RpReqs, RpDispatch(r) PROVE RpInv'
<1> PICK a, tr : a = RpBegun /\ tr = [s \in RpAddrs |-> 0]
  OBVIOUS
<1>1. a \in RpAttempts /\ a.st = "get" /\ a.conn = "none" /\ RpDoGood(a, tr) /\ tr \in [RpAddrs -> {0, 1}]
  BY RpBegins
<1>2. /\ rpPools' = rpPools /\ rpServers' = rpServers /\ rpActive' = rpActive
      /\ rpReplies' = rpReplies /\ rpBatch.st = "round" /\ r \in rpBatch.todo
      /\ rpAt' = [rpAt EXCEPT ![r] = a] /\ rpTried' = [rpTried EXCEPT ![r] = tr]
  BY RpBegins DEF RpDispatch
<1>3. RpTypes /\ RpRounds /\ r \in RpParties
  BY DEF RpInv, RpParties
<1>4. rpAt[r].st = "idle" /\ RpStarted
  BY <1>2, <1>3 DEF RpRounds
<1>5. /\ rpAt' \in [RpParties -> RpAttempts] /\ rpTried' \in [RpParties -> [RpAddrs -> {0, 1}]]
      /\ RpDos' /\ rpAt'[r] = a /\ \A h \in RpParties : h # r => rpAt'[h] = rpAt[h]
  BY <1>1, <1>2, <1>3, <1>4, RpOneStep
<1>6. rpBatch' = [rpBatch EXCEPT !.todo = rpBatch.todo \ {r}, !.run = rpBatch.run \cup {r}]
  BY DEF RpDispatch
<1>7. /\ rpBatch' \in [st : {"idle", "round", "returned"}, turn : Nat, todo : SUBSET RpReqs,
                       run : SUBSET RpReqs, errs : SUBSET RpReqs]
      /\ rpBatch'.st = "round" /\ rpBatch'.todo = rpBatch.todo \ {r} /\ rpBatch'.run = rpBatch.run \cup {r}
      /\ rpBatch'.errs = rpBatch.errs
  BY <1>2, <1>3, <1>6 DEF RpTypes
<1>8. RpTypes'
  BY <1>2, <1>3, <1>5, <1>7 DEF RpTypes
<1>9. rpAt[r].conn = "none"
  BY <1>3, <1>4 DEF RpInv, RpDos, RpDoGood
<1>10. RpExact'
  BY <1>1, <1>2, <1>5, <1>9, RpConnsKept
<1>11. RpRounds'
  <2>1. RpOpen' = RpOpen /\ RpStarted'
    BY <1>2, <1>4, <1>7 DEF RpOpen, RpStarted
  <2>2. \A x \in RpReqs : rpAt'[x].st # "idle" => x \in rpBatch'.run
    BY <1>3, <1>5, <1>7 DEF RpRounds, RpParties
  <2>3. \A x \in RpReqs : rpReplies'[x] = IF x \in RpOpen THEN 0 ELSE 1
    BY <1>2, <1>3 DEF RpRounds
  <2>4. /\ rpBatch'.todo \cap rpBatch'.run = {} /\ rpBatch'.todo \cap rpBatch'.errs = {}
        /\ rpBatch'.run \cap rpBatch'.errs = {}
    BY <1>2, <1>3, <1>7 DEF RpRounds
  <2> QED
    BY <1>7, <2>1, <2>2, <2>3, <2>4 DEF RpRounds
<1> QED
  BY <1>5, <1>8, <1>10, <1>11 DEF RpInv

\* A request that finds no goroutine fails in this round.
LEMMA RpTimeoutStep == ASSUME RpInv, NEW r \in RpReqs, RpTimeout(r) PROVE RpInv'
<1>1. /\ rpPools' = rpPools /\ rpServers' = rpServers /\ rpActive' = rpActive /\ rpAt' = rpAt
      /\ rpTried' = rpTried /\ rpReplies' = rpReplies /\ rpBatch.st = "round" /\ r \in rpBatch.todo
  BY DEF RpTimeout
<1>2. RpTypes /\ RpRounds
  BY DEF RpInv
<1>3. rpBatch' = [rpBatch EXCEPT !.todo = rpBatch.todo \ {r}, !.errs = rpBatch.errs \cup {r}]
  BY DEF RpTimeout
<1>4. /\ rpBatch' \in [st : {"idle", "round", "returned"}, turn : Nat, todo : SUBSET RpReqs,
                       run : SUBSET RpReqs, errs : SUBSET RpReqs]
      /\ rpBatch'.st = "round" /\ rpBatch'.todo = rpBatch.todo \ {r} /\ rpBatch'.errs = rpBatch.errs \cup {r}
      /\ rpBatch'.run = rpBatch.run
  BY <1>1, <1>2, <1>3 DEF RpTypes
<1>5. RpTypes'
  BY <1>1, <1>2, <1>4 DEF RpTypes
<1>6. RpDos'
  BY <1>1 DEF RpInv, RpDos, RpDoGood, RpStarted
<1>7. RpExact'
  BY <1>1, RpConnsKept
<1>8. RpRounds'
  <2>1. RpOpen' = RpOpen /\ RpStarted'
    BY <1>1, <1>2, <1>4 DEF RpOpen, RpStarted, RpRounds
  <2>2. \A x \in RpReqs : rpAt'[x].st # "idle" => x \in rpBatch'.run
    BY <1>1, <1>2, <1>4 DEF RpRounds
  <2>3. \A x \in RpReqs : rpReplies'[x] = IF x \in RpOpen THEN 0 ELSE 1
    BY <1>1, <1>2 DEF RpRounds
  <2>4. /\ rpBatch'.todo \cap rpBatch'.run = {} /\ rpBatch'.todo \cap rpBatch'.errs = {}
        /\ rpBatch'.run \cap rpBatch'.errs = {}
    BY <1>1, <1>2, <1>4 DEF RpRounds
  <2> QED
    BY <1>4, <2>1, <2>2, <2>3, <2>4 DEF RpRounds
<1> QED
  BY <1>5, <1>6, <1>7, <1>8 DEF RpInv

\* A round ends: what failed is open in the next one, and the rest is answered.
LEMMA RpCollectStep == ASSUME RpInv, RpCollect PROVE RpInv'
<1>0. /\ rpPools' = rpPools /\ rpServers' = rpServers /\ rpActive' = rpActive /\ rpTried' = rpTried
      /\ rpBatch.st = "round" /\ rpBatch.todo = {} /\ RpBusy = {}
      /\ rpAt' = [g \in RpParties |-> IF g \in rpBatch.run THEN RpIdle ELSE rpAt[g]]
  BY DEF RpCollect
<1>1. RpTypes /\ RpRounds /\ RpDos
  BY DEF RpInv
<1> DEFINE last == rpBatch.turn >= RpRetry
<1>2. /\ rpReplies' = [r \in RpReqs |-> rpReplies[r] + IF r \in RpAnswers(last) THEN 1 ELSE 0]
      /\ rpBatch' = IF last \/ RpFailed = {} THEN [rpBatch EXCEPT !.st = "returned"]
                    ELSE [st |-> "round", turn |-> rpBatch.turn + 1, todo |-> RpFailed, run |-> {}, errs |-> {}]
  BY DEF RpCollect
<1> HIDE DEF last
<1>3. RpIdle \in RpAttempts /\ RpIdle.st = "idle" /\ RpIdle.conn = "none"
  BY DEF RpIdle, RpAttempts
<1>4. \A g \in rpBatch.run : g \in RpReqs /\ g \in RpParties /\ rpAt[g].st = "done" /\ rpAt[g].conn = "none"
  <2>1. rpBatch.run \subseteq RpReqs
    BY <1>1 DEF RpTypes
  <2>2. \A g \in rpBatch.run : g \in RpParties /\ rpAt[g].st = "done"
    BY <1>0, <2>1 DEF RpBusy, RpParties
  <2> QED
    BY <1>1, <2>1, <2>2 DEF RpDos, RpDoGood
<1>5. RpFailed \in SUBSET RpReqs /\ RpFailed \subseteq RpOpen /\ RpOpen = rpBatch.run \cup rpBatch.errs
      /\ rpBatch.errs \subseteq RpFailed
  BY <1>0, <1>1 DEF RpFailed, RpOpen, RpTypes
<1>6. \A r \in RpReqs : r \in RpAnswers(last) <=> (IF last THEN r \in RpOpen ELSE r \in RpOpen /\ r \notin RpFailed)
  BY <1>5 DEF RpAnswers
<1>7. \A r \in RpReqs : rpReplies'[r] = IF r \in RpOpen /\ r \in RpFailed /\ ~last THEN 0 ELSE 1
  <2>1. \A r \in RpReqs : rpReplies[r] = IF r \in RpOpen THEN 0 ELSE 1
    BY <1>0, <1>1 DEF RpRounds
  <2>2. \A r \in RpReqs : rpReplies'[r] = rpReplies[r] + IF r \in RpAnswers(last) THEN 1 ELSE 0
    BY <1>2
  <2> QED
    BY <1>6, <2>1, <2>2
<1>8. rpReplies' \in [RpReqs -> Nat]
  <2>1. \A r \in RpReqs : rpReplies[r] + (IF r \in RpAnswers(last) THEN 1 ELSE 0) \in Nat
    BY <1>1 DEF RpTypes
  <2> QED
    BY <1>2, <2>1
<1>9. rpAt' \in [RpParties -> RpAttempts]
  BY <1>0, <1>1, <1>3 DEF RpTypes
<1>10. /\ \A g \in rpBatch.run : rpAt'[g] = RpIdle
       /\ \A g \in RpParties : g \notin rpBatch.run => rpAt'[g] = rpAt[g]
  BY <1>0, <1>4
<1>11. RpExact'
  BY <1>0, <1>3, <1>4, <1>10, RpConnsKept
<1>12. RpDos'
  <2> SUFFICES ASSUME NEW h \in RpParties
               PROVE  RpDoGood(rpAt[h], rpTried[h])' /\ (rpAt'[h].st # "idle" => RpStarted')
    BY DEF RpDos
  <2>1. CASE h \in rpBatch.run
    BY <1>3, <1>10, <2>1 DEF RpDoGood
  <2>2. CASE h \notin rpBatch.run
    <3>1. RpDoGood(rpAt[h], rpTried[h]) /\ (rpAt[h].st # "idle" => RpStarted)
      BY <1>1 DEF RpDos
    <3> QED
      BY <1>0, <1>10, <2>2, <3>1 DEF RpDoGood, RpStarted
  <2> QED
    BY <2>1, <2>2
<1>13. \A r \in RpReqs : rpAt'[r].st = "idle"
  BY <1>1, <1>3, <1>10 DEF RpRounds, RpParties
<1>14. RpStarted'
  BY <1>0, <1>1 DEF RpRounds, RpStarted
<1>15. CASE last \/ RpFailed = {}
  <2>1. rpBatch' = [rpBatch EXCEPT !.st = "returned"]
    BY <1>2, <1>15
  <2>2. /\ rpBatch' \in [st : {"idle", "round", "returned"}, turn : Nat, todo : SUBSET RpReqs,
                         run : SUBSET RpReqs, errs : SUBSET RpReqs]
        /\ rpBatch'.st = "returned"
    BY <1>1, <2>1 DEF RpTypes
  <2>3. \A r \in RpReqs : rpReplies'[r] = 1
    BY <1>7, <1>15
  <2>4. RpRounds'
    BY <1>13, <1>14, <2>2, <2>3 DEF RpRounds
  <2>5. RpTypes'
    BY <1>0, <1>1, <1>8, <1>9, <2>2 DEF RpTypes
  <2> QED
    BY <1>11, <1>12, <2>4, <2>5 DEF RpInv
<1>16. CASE ~(last \/ RpFailed = {})
  <2>1. rpBatch' = [st |-> "round", turn |-> rpBatch.turn + 1, todo |-> RpFailed, run |-> {}, errs |-> {}]
    BY <1>2, <1>16
  <2>2. rpBatch'.st = "round" /\ rpBatch'.todo = RpFailed /\ rpBatch'.run = {} /\ rpBatch'.errs = {}
    BY <2>1
  <2>3. rpBatch' \in [st : {"idle", "round", "returned"}, turn : Nat, todo : SUBSET RpReqs,
                      run : SUBSET RpReqs, errs : SUBSET RpReqs]
    <3>1. rpBatch.turn + 1 \in Nat
      BY <1>1 DEF RpTypes
    <3> QED
      BY <1>5, <2>1, <3>1
  <2>4. RpOpen' = RpFailed
    BY <2>2 DEF RpOpen
  <2>5. \A r \in RpReqs : rpReplies'[r] = IF r \in RpFailed THEN 0 ELSE 1
    BY <1>5, <1>7, <1>16
  <2>6. RpRounds'
    BY <1>13, <1>14, <2>2, <2>4, <2>5 DEF RpRounds
  <2>7. RpTypes'
    BY <1>0, <1>1, <1>8, <1>9, <2>3 DEF RpTypes
  <2> QED
    BY <1>11, <1>12, <2>6, <2>7 DEF RpInv
<1> QED
  BY <1>15, <1>16

\* The inductive invariant of the pool gives its four promises. A nil connection
\* is reached with one server used for each turn that is over, so that there
\* are fewer servers than turns.
LEMMA RpInvSafe == RpInv => RpSafe
<1> SUFFICES ASSUME RpInv PROVE RpSafe
  OBVIOUS
<1>1. RpTypes /\ RpDos /\ RpExact /\ RpRounds
  BY DEF RpInv
<1>2. RpOncePerServer
  <2>1. \A g \in RpParties, s \in RpAddrs : rpTried[g][s] \in {0, 1}
    BY <1>1 DEF RpTypes
  <2> QED
    BY <2>1 DEF RpOncePerServer
<1>3. RpNilOnlyExhausted
  <2> SUFFICES ASSUME NEW g \in RpParties, rpAt[g].st = "do", rpAt[g].conn = "nil"
               PROVE  Cardinality(rpServers) < RpRetry /\ \A s \in rpServers : rpTried[g][s] = 1
    BY DEF RpNilOnlyExhausted
  <2>1. /\ rpAt[g].used = rpServers /\ rpAt[g].turn \in 1..RpRetry
        /\ Cardinality(rpAt[g].used) = rpAt[g].turn - 1
        /\ \A s \in RpAddrs : rpTried[g][s] = IF s \in rpAt[g].used THEN 1 ELSE 0
    BY <1>1 DEF RpDos, RpDoGood
  <2>2. RpRetry \in Nat /\ rpServers \subseteq RpAddrs
    BY <1>1, RpAssumption DEF RpTypes
  <2> QED
    BY <2>1, <2>2
<1>4. RpNoLeak
  BY <1>1 DEF RpNoLeak, RpExact, RpHolders, RpTypes
<1>5. RpBatchComplete
  BY <1>1 DEF RpRounds, RpBatchComplete
<1> QED
  BY <1>2, <1>3, <1>4, <1>5 DEF RpSafe

\* A Do of the redis pool never tries a server twice and uses a nil connection
\* only when every server failed in it; the pools count exactly the attempts
\* that hold a connection; and a batch is answered once for each request
\* (pool.go:269-425), for any number of callers, servers, requests, retries,
\* goroutines and connections.
THEOREM RedisPoolSafe == RpSpec => []RpSafe
<1>1. RpInv /\ [RpNext]_rpVars => RpInv'
  <2> SUFFICES ASSUME RpInv, [RpNext]_rpVars PROVE RpInv'
    OBVIOUS
  <2>1. CASE UNCHANGED rpVars
    BY <2>1 DEF rpVars, RpInv, RpTypes, RpDos, RpDoGood, RpStarted, RpExact, RpHolders, RpRounds, RpOpen
  <2>2. CASE RpNext
    BY <2>2, RpOwnerStep, RpBatchDoStep, RpCollectStep, RpDoStep, RpGetConnStep, RpCommandStep, RpReturnStep,
       RpDispatchStep, RpTimeoutStep DEF RpNext
  <2> QED
    BY <2>1, <2>2
<1> QED
  BY <1>1, RpInitHolds, RpInvSafe, PTL DEF RpSpec

-----------------------------------------------------------------------------
(* The HTTP client. *)

HcClients == {"base", "clone"}
HcConfs == [method : BOOLEAN, force : HcTypes \cup {"none"}, target : HcTypes \cup {"json", "form"},
            ctype : HcTypes \cup {"none"}, data : SUBSET HcKinds, slice : SUBSET HcKinds, raw : SUBSET HcKinds,
            bounce : BOOLEAN, files : SUBSET HcKinds, errs : BOOLEAN]
HcFields == [conf : HcConfs, enable : BOOLEAN, count : Nat, attempt : Nat, keep : BOOLEAN, on : BOOLEAN]
HcEnds == [st : {"idle", "try", "returned"}, tries : Nat, body : SUBSET HcKinds,
           status : {"none", "invalid", "final", "retryable", "failed", "unread"}]

\* Where content is kept: nowhere but in what was given; a string in RawString
\* and, unless the body is raw, in Data or SliceData as well.
HcStored(c, given) ==
    /\ c.data \subseteq given /\ c.slice \subseteq given /\ c.raw \subseteq given /\ c.files \subseteq given
    /\ given \cap HcStrings \subseteq c.raw
    /\ ~c.bounce => /\ given \cap {"object", "form"} \subseteq c.data /\ given \cap {"array"} \subseteq c.slice
                    /\ "scalar" \notin given

\* The tries of an End are attempts that Retry allowed, but for the first.
HcCounted(x, at) ==
    /\ ~x.on => at = HcIdle
    /\ at.st = "try" => at.tries <= x.attempt
    /\ at.tries <= 1 + x.attempt
    /\ at.st = "returned" /\ at.status = "retryable" /\ x.enable => x.attempt = x.count

HcCarried(at, given) == at.tries > 0 /\ at.status # "invalid" =>
    at.body \subseteq given /\ (given \subseteq HcStrings => given \subseteq at.body)

HcGood(x, at, given) == /\ x.attempt <= x.count /\ HcStored(x.conf, given)
                        /\ HcCounted(x, at) /\ HcCarried(at, given)

HcInv == /\ hcC \in [HcClients -> HcFields] /\ hcAt \in [HcClients -> HcEnds]
         /\ hcGiven \in [HcClients -> SUBSET HcKinds]
         /\ \A h \in HcClients : HcGood(hcC[h], hcAt[h], hcGiven[h])

\* A client that End does not run has nothing to say about tries.
LEMMA HcIdleGood ==
    /\ HcIdle \in HcEnds /\ HcIdle.st = "idle" /\ HcIdle.tries = 0
    /\ \A given : HcCarried(HcIdle, given)
    /\ \A x \in HcFields : HcCounted(x, HcIdle)
<1>1. HcIdle.st = "idle" /\ HcIdle.tries = 0
  BY DEF HcIdle
<1>2. HcIdle \in HcEnds
  <2>1. {} \in SUBSET HcKinds /\ 0 \in Nat
    OBVIOUS
  <2> QED
    BY <2>1 DEF HcIdle, HcEnds
<1>3. \A given : HcCarried(HcIdle, given)
  BY <1>1 DEF HcCarried
<1>4. ASSUME NEW x \in HcFields PROVE HcCounted(x, HcIdle)
  <2>1. x.attempt \in Nat
    BY DEF HcFields
  <2> QED
    BY <1>1, <2>1 DEF HcCounted
<1> QED
  BY <1>1, <1>2, <1>3, <1>4

\* A step of one client leaves the other as it is.
LEMMA HcOneStep ==
    ASSUME HcInv, NEW h \in HcClients, NEW x \in HcFields, NEW at \in HcEnds, NEW given \in SUBSET HcKinds,
           hcC' = [hcC EXCEPT ![h] = x], hcAt' = [hcAt EXCEPT ![h] = at], hcGiven' = [hcGiven EXCEPT ![h] = given],
           HcGood(x, at, given)
    PROVE  HcInv'
<1>1. /\ hcC' \in [HcClients -> HcFields] /\ hcAt' \in [HcClients -> HcEnds]
      /\ hcGiven' \in [HcClients -> SUBSET HcKinds]
  BY DEF HcInv
<1>2. ASSUME NEW k \in HcClients PROVE HcGood(hcC'[k], hcAt'[k], hcGiven'[k])
  <2>1. CASE k = h
    BY <2>1 DEF HcInv
  <2>2. CASE k # h
    <3>1. hcC'[k] = hcC[k] /\ hcAt'[k] = hcAt[k] /\ hcGiven'[k] = hcGiven[k]
      BY <2>2 DEF HcInv
    <3> QED
      BY <3>1 DEF HcInv
  <2> QED
    BY <2>1, <2>2
<1> QED
  BY <1>1, <1>2 DEF HcInv

\* A call that changes the request under construction, or the retries.
LEMMA HcCallStep ==
    ASSUME HcInv, NEW h \in HcClients, HcCall(h), NEW x \in HcFields, NEW given \in SUBSET HcKinds,
           hcC' = [hcC EXCEPT ![h] = x], hcGiven' = [hcGiven EXCEPT ![h] = given],
           x.attempt <= x.count, HcStored(x.conf, given)
    PROVE  HcInv'
<1>1. hcAt' = [hcAt EXCEPT ![h] = HcIdle]
  BY DEF HcCall
<1>2. HcGood(x, HcIdle, given)
  BY HcIdleGood DEF HcGood
<1> QED
  BY <1>1, <1>2, HcIdleGood, HcOneStep

\* The same for a call that sets the request.
LEMMA HcSetStep ==
    ASSUME HcInv, NEW h \in HcClients, HcCall(h), NEW conf \in HcConfs, HcSet(h, conf),
           NEW given \in SUBSET HcKinds, hcGiven' = [hcGiven EXCEPT ![h] = given], HcStored(conf, given)
    PROVE  HcInv'
<1> PICK x : x = [hcC[h] EXCEPT !.conf = conf]
  OBVIOUS
<1>1. hcC[h] \in HcFields /\ hcC \in [HcClients -> HcFields] /\ hcC[h].attempt <= hcC[h].count
  BY DEF HcInv, HcGood
<1>2. x \in HcFields /\ x.conf = conf /\ x.attempt = hcC[h].attempt /\ x.count = hcC[h].count
  BY <1>1 DEF HcFields
<1>3. hcC' = [hcC EXCEPT ![h] = x]
  BY <1>1 DEF HcSet, HcFields
<1> QED
  BY <1>1, <1>2, <1>3, HcCallStep

\* A method begins a request, from what ClearHttpClient left.
LEMMA HcMethodStep == ASSUME HcInv, NEW h \in HcClients, HcMethod(h) PROVE HcInv'
<1> PICK old, given : old = HcCleared(hcC[h]) /\ given = IF hcC[h].keep THEN hcGiven[h] ELSE {}
  OBVIOUS
<1> PICK conf : conf = [old EXCEPT !.method = TRUE, !.errs = FALSE]
  OBVIOUS
<1>1. HcBlank \in HcConfs /\ HcStored(HcBlank, {})
  <2>1. {} \in SUBSET HcKinds /\ TRUE \in BOOLEAN /\ FALSE \in BOOLEAN
    OBVIOUS
  <2>2. HcBlank \in HcConfs
    BY <2>1 DEF HcBlank, HcConfs
  <2>3. HcBlank.data = {} /\ HcBlank.slice = {} /\ HcBlank.raw = {} /\ HcBlank.files = {}
    BY DEF HcBlank
  <2> QED
    BY <2>2, <2>3 DEF HcStored
<1>2. hcC[h].conf \in HcConfs /\ HcStored(hcC[h].conf, hcGiven[h]) /\ hcGiven[h] \in SUBSET HcKinds
  BY DEF HcInv, HcGood, HcFields
<1>3. old \in HcConfs /\ HcStored(old, given) /\ given \in SUBSET HcKinds
  BY <1>1, <1>2 DEF HcCleared
<1>4. /\ conf \in HcConfs /\ conf.data = old.data /\ conf.slice = old.slice /\ conf.raw = old.raw
      /\ conf.files = old.files /\ conf.bounce = old.bounce
  BY <1>3 DEF HcConfs
<1>5. HcStored(conf, given)
  BY <1>3, <1>4 DEF HcStored
<1>6. HcCall(h) /\ HcSet(h, conf) /\ hcGiven' = [hcGiven EXCEPT ![h] = given]
  BY DEF HcMethod
<1> QED
  BY <1>3, <1>4, <1>5, <1>6, HcSetStep

\* A type of content says nothing about where content is.
LEMMA HcTypeStep ==
    ASSUME HcInv, NEW h \in HcClients, NEW t, (t \in HcTypes /\ (HcType(h, t) \/ HcContentType(h, t))) \/ HcType(h, "odd")
    PROVE  HcInv'
<1>1. hcC[h].conf \in HcConfs /\ HcStored(hcC[h].conf, hcGiven[h]) /\ hcGiven[h] \in SUBSET HcKinds
  BY DEF HcInv, HcGood, HcFields
<1>2. HcCall(h) /\ hcGiven' = hcGiven
  BY DEF HcType, HcContentType
<1>3. hcGiven' = [hcGiven EXCEPT ![h] = hcGiven[h]]
  BY <1>2 DEF HcInv
<1>4. PICK conf \in HcConfs : /\ HcSet(h, conf)
                              /\ conf.data = hcC[h].conf.data /\ conf.slice = hcC[h].conf.slice
                              /\ conf.raw = hcC[h].conf.raw /\ conf.files = hcC[h].conf.files
                              /\ conf.bounce = hcC[h].conf.bounce
  <2> PICK c : c = hcC[h].conf
    OBVIOUS
  <2>0. c \in HcConfs
    BY <1>1
  <2>1. ASSUME NEW e, e = [c EXCEPT !.errs = TRUE] \/ (t \in HcTypes /\ (e = [c EXCEPT !.force = t] \/ e = [c EXCEPT !.ctype = t]))
        PROVE  /\ e \in HcConfs /\ e.data = c.data /\ e.slice = c.slice
               /\ e.raw = c.raw /\ e.files = c.files /\ e.bounce = c.bounce
    BY <2>0, <2>1 DEF HcConfs
  <2>2. \E e : HcSet(h, e) /\ (e = [c EXCEPT !.errs = TRUE] \/ (t \in HcTypes /\ (e = [c EXCEPT !.force = t] \/ e = [c EXCEPT !.ctype = t])))
    BY DEF HcType, HcContentType
  <2> QED
    BY <2>1, <2>2
<1>5. HcStored(conf, hcGiven[h])
  BY <1>1, <1>4 DEF HcStored
<1> QED
  BY <1>1, <1>2, <1>3, <1>4, <1>5, HcSetStep

\* A string is kept raw, and parsed unless the body is raw already.
LEMMA HcStringStored ==
    ASSUME NEW c \in HcConfs, NEW given \in SUBSET HcKinds, HcStored(c, given), NEW kind \in HcStrings
    PROVE  HcString(c, kind) \in HcConfs /\ HcStored(HcString(c, kind), given \cup {kind})
<1> PICK raw : raw = [c EXCEPT !.raw = c.raw \cup {kind}]
  OBVIOUS
<1>0. kind \in HcKinds
  BY DEF HcKinds
<1>1. /\ raw \in HcConfs /\ raw.data = c.data /\ raw.slice = c.slice /\ raw.raw = c.raw \cup {kind}
      /\ raw.files = c.files /\ raw.bounce = c.bounce
  BY <1>0 DEF HcConfs
<1>2. CASE c.bounce
  <2>1. HcString(c, kind) = raw
    BY <1>2 DEF HcString
  <2> QED
    BY <1>1, <1>2, <2>1 DEF HcStored
<1>3. CASE ~c.bounce /\ kind = "object"
  <2> PICK e : e = [raw EXCEPT !.data = raw.data \cup {kind}]
    OBVIOUS
  <2>1. HcString(c, kind) = e
    BY <1>3 DEF HcString
  <2>2. /\ e \in HcConfs /\ e.data = c.data \cup {kind} /\ e.slice = c.slice /\ e.raw = c.raw \cup {kind}
        /\ e.files = c.files /\ e.bounce = c.bounce
    BY <1>0, <1>1 DEF HcConfs
  <2> QED
    BY <1>3, <2>1, <2>2 DEF HcStored
<1>4. CASE ~c.bounce /\ kind = "array"
  <2> PICK e : e = [raw EXCEPT !.slice = raw.slice \cup {kind}]
    OBVIOUS
  <2>1. HcString(c, kind) = e
    BY <1>4 DEF HcString
  <2>2. /\ e \in HcConfs /\ e.data = c.data /\ e.slice = c.slice \cup {kind} /\ e.raw = c.raw \cup {kind}
        /\ e.files = c.files /\ e.bounce = c.bounce
    BY <1>0, <1>1 DEF HcConfs
  <2> QED
    BY <1>4, <2>1, <2>2 DEF HcStored
<1>5. CASE ~c.bounce /\ kind = "form"
  <2> PICK e : e = [raw EXCEPT !.data = raw.data \cup {kind}, !.target = "form"]
    OBVIOUS
  <2>1. HcString(c, kind) = e
    BY <1>5 DEF HcString
  <2>2. /\ e \in HcConfs /\ e.data = c.data \cup {kind} /\ e.slice = c.slice /\ e.raw = c.raw \cup {kind}
        /\ e.files = c.files /\ e.bounce = c.bounce
    BY <1>0, <1>1 DEF HcConfs
  <2> QED
    BY <1>5, <2>1, <2>2 DEF HcStored
<1>6. CASE ~c.bounce /\ kind = "scalar"
  <2> PICK e : e = [raw EXCEPT !.bounce = TRUE]
    OBVIOUS
  <2>1. HcString(c, kind) = e
    BY <1>6 DEF HcString
  <2>2. /\ e \in HcConfs /\ e.data = c.data /\ e.slice = c.slice /\ e.raw = c.raw \cup {kind}
        /\ e.files = c.files /\ e.bounce = TRUE
    BY <1>1 DEF HcConfs
  <2> QED
    BY <1>6, <2>1, <2>2 DEF HcStored
<1> QED
  BY <1>2, <1>3, <1>4, <1>5, <1>6 DEF HcStrings

\* Send and SendFile put content where its kind belongs.
LEMMA HcSendStep == ASSUME HcInv, NEW h \in HcClients, NEW kind \in HcKinds, HcSend(h, kind) PROVE HcInv'
<1> PICK c, given : c = hcC[h].conf /\ given = hcGiven[h] \cup {kind}
  OBVIOUS
<1>1. c \in HcConfs /\ HcStored(c, hcGiven[h]) /\ hcGiven[h] \in SUBSET HcKinds /\ given \in SUBSET HcKinds
  BY DEF HcInv, HcGood, HcFields
<1>2. HcCall(h)
  BY DEF HcSend
<1>3. CASE HcSet(h, [c EXCEPT !.errs = TRUE]) /\ hcGiven' = hcGiven
  <2> PICK e : e = [c EXCEPT !.errs = TRUE]
    OBVIOUS
  <2>1. /\ e \in HcConfs /\ e.data = c.data /\ e.slice = c.slice
        /\ e.raw = c.raw /\ e.files = c.files /\ e.bounce = c.bounce
    BY <1>1 DEF HcConfs
  <2>2. HcStored(e, hcGiven[h])
    BY <1>1, <2>1 DEF HcStored
  <2>3. hcGiven' = [hcGiven EXCEPT ![h] = hcGiven[h]]
    BY <1>3 DEF HcInv
  <2> QED
    BY <1>1, <1>2, <1>3, <2>1, <2>2, <2>3, HcSetStep
<1>4. CASE /\ HcSet(h, CASE kind \in HcStrings -> HcString(c, kind)
                         [] kind = "struct" -> [c EXCEPT !.data = @ \union {kind}]
                         [] kind = "slice" -> [c EXCEPT !.slice = @ \union {kind}]
                         [] kind = "file" -> [c EXCEPT !.files = @ \union {kind}])
           /\ hcGiven' = [hcGiven EXCEPT ![h] = given]
  <2>0. "struct" \notin HcStrings /\ "slice" \notin HcStrings /\ "file" \notin HcStrings
    BY DEF HcStrings
  <2>1. CASE kind \in HcStrings
    <3>1. HcSet(h, HcString(c, kind))
      BY <1>4, <2>0, <2>1
    <3> QED
      BY <1>1, <1>2, <1>4, <2>1, <3>1, HcStringStored, HcSetStep
  <2>2. ASSUME NEW e \in HcConfs, HcSet(h, e), e.data \in {c.data, c.data \cup {kind}}, c.slice \subseteq e.slice,
               e.slice \in {c.slice, c.slice \cup {kind}}, e.files \in {c.files, c.files \cup {kind}}, e.raw = c.raw,
               e.bounce = c.bounce, kind \notin HcStrings
        PROVE  HcInv'
    <3>1. HcStored(e, given)
      BY <1>1, <2>2 DEF HcStored, HcStrings
    <3> QED
      BY <1>1, <1>2, <1>4, <2>2, <3>1, HcSetStep
  <2>3. CASE kind = "struct"
    <3> PICK e : e = [c EXCEPT !.data = c.data \cup {kind}]
      OBVIOUS
    <3>1. /\ e \in HcConfs /\ e.data = c.data \cup {kind} /\ e.slice = c.slice
          /\ e.raw = c.raw /\ e.files = c.files /\ e.bounce = c.bounce
      BY <1>1 DEF HcConfs
    <3>2. HcSet(h, e)
      BY <1>4, <2>0, <2>3
    <3> QED
      BY <2>0, <2>2, <2>3, <3>1, <3>2
  <2>4. CASE kind = "slice"
    <3> PICK e : e = [c EXCEPT !.slice = c.slice \cup {kind}]
      OBVIOUS
    <3>1. /\ e \in HcConfs /\ e.data = c.data /\ e.slice = c.slice \cup {kind}
          /\ e.raw = c.raw /\ e.files = c.files /\ e.bounce = c.bounce
      BY <1>1 DEF HcConfs
    <3>2. HcSet(h, e)
      BY <1>4, <2>0, <2>4
    <3> QED
      BY <2>0, <2>2, <2>4, <3>1, <3>2
  <2>5. CASE kind = "file"
    <3> PICK e : e = [c EXCEPT !.files = c.files \cup {kind}]
      OBVIOUS
    <3>1. /\ e \in HcConfs /\ e.data = c.data /\ e.slice = c.slice
          /\ e.raw = c.raw /\ e.files = c.files \cup {kind} /\ e.bounce = c.bounce
      BY <1>1 DEF HcConfs
    <3>2. HcSet(h, e)
      BY <1>4, <2>0, <2>5
    <3> QED
      BY <2>0, <2>2, <2>5, <3>1, <3>2
  <2> QED
    BY <2>1, <2>3, <2>4, <2>5 DEF HcKinds
<1> QED
  BY <1>3, <1>4 DEF HcSend

\* Retry sets the count and forgets the attempts; a clone begins as its original is.
LEMMA HcRetryStep ==
    ASSUME HcInv, (\E h \in HcClients, n \in HcRetries : HcRetry(h, n)) \/ HcClone
    PROVE  HcInv'
<1>0. \A h \in HcClients : /\ hcC[h] \in HcFields /\ hcGiven[h] \in SUBSET HcKinds
                           /\ HcGood(hcC[h], hcAt[h], hcGiven[h])
  BY DEF HcInv
<1>1. ASSUME NEW h \in HcClients, NEW n \in HcRetries, HcRetry(h, n) PROVE HcInv'
  <2> PICK x : x = [hcC[h] EXCEPT !.enable = TRUE, !.count = n, !.attempt = 0]
    OBVIOUS
  <2>1. n \in Nat
    BY HcAssumption
  <2>2. x \in HcFields /\ x.conf = hcC[h].conf /\ x.attempt = 0 /\ x.count = n
    BY <1>0, <2>1 DEF HcFields
  <2>3. HcCall(h) /\ hcC' = [hcC EXCEPT ![h] = x] /\ hcGiven' = [hcGiven EXCEPT ![h] = hcGiven[h]]
    BY <1>0, <1>1 DEF HcRetry, HcInv, HcFields
  <2>4. HcStored(x.conf, hcGiven[h])
    BY <1>0, <2>2 DEF HcGood
  <2>5. x.attempt <= x.count
    BY <2>1, <2>2
  <2> QED
    BY <1>0, <2>2, <2>3, <2>4, <2>5, HcCallStep
<1>2. ASSUME HcClone PROVE HcInv'
  <2> PICK x, given : x = [hcC["base"] EXCEPT !.keep = TRUE] /\ given = hcGiven["base"]
    OBVIOUS
  <2>0. "base" \in HcClients /\ "clone" \in HcClients /\ \A k \in HcClients : k = "base" \/ k = "clone"
    BY DEF HcClients
  <2>1. x \in HcFields /\ x.conf = hcC["base"].conf /\ x.attempt = hcC["base"].attempt /\ x.count = hcC["base"].count
    BY <1>0, <2>0 DEF HcFields
  <2>2. hcAt["clone"] = HcIdle
    BY <1>0, <1>2, <2>0 DEF HcClone, HcGood, HcCounted
  <2>3. /\ hcC' = [hcC EXCEPT !["clone"] = x] /\ hcGiven' = [hcGiven EXCEPT !["clone"] = given]
        /\ hcAt' = [hcAt EXCEPT !["base"] = HcIdle]
    BY <1>2 DEF HcClone, HcCall
  <2>4. /\ hcC' \in [HcClients -> HcFields] /\ hcAt' \in [HcClients -> HcEnds]
        /\ hcGiven' \in [HcClients -> SUBSET HcKinds]
    BY <1>0, <2>0, <2>1, <2>3, HcIdleGood DEF HcInv
  <2>5. /\ hcC'["clone"] = x /\ hcC'["base"] = hcC["base"] /\ hcGiven'["clone"] = given
        /\ hcGiven'["base"] = hcGiven["base"] /\ hcAt'["clone"] = HcIdle /\ hcAt'["base"] = HcIdle
    BY <2>0, <2>2, <2>3 DEF HcInv
  <2>6. HcGood(x, HcIdle, given)
    BY <1>0, <2>0, <2>1, HcIdleGood DEF HcGood
  <2>7. HcGood(hcC["base"], HcIdle, hcGiven["base"])
    BY <1>0, <2>0, HcIdleGood DEF HcGood
  <2>8. \A h \in HcClients : HcGood(hcC'[h], hcAt'[h], hcGiven'[h])
    BY <2>0, <2>5, <2>6, <2>7
  <2> QED
    BY <2>4, <2>8 DEF HcInv
<1> QED
  BY <1>1, <1>2

\* End begins to try.
LEMMA HcEndStep == ASSUME HcInv, NEW h \in HcClients, HcEnd(h) PROVE HcInv'
<1> PICK at : at = [st |-> "try", tries |-> 0, body |-> {}, status |-> "none"]
  OBVIOUS
<1>0. hcC[h] \in HcFields /\ hcGiven[h] \in SUBSET HcKinds /\ HcGood(hcC[h], hcAt[h], hcGiven[h]) /\ hcC[h].on
  BY DEF HcInv, HcEnd
<1>1. at \in HcEnds /\ at.st = "try" /\ at.tries = 0
  <2>1. {} \in SUBSET HcKinds /\ 0 \in Nat
    OBVIOUS
  <2> QED
    BY <2>1 DEF HcEnds
<1>2. [HcIdle EXCEPT !.st = "try"] = at
  BY DEF HcIdle
<1>3. hcAt' = [hcAt EXCEPT ![h] = at]
  BY <1>2 DEF HcEnd
<1>4. hcC' = [hcC EXCEPT ![h] = hcC[h]] /\ hcGiven' = [hcGiven EXCEPT ![h] = hcGiven[h]]
  BY DEF HcInv, HcEnd
<1>5. hcC[h].attempt \in Nat
  BY <1>0 DEF HcFields
<1>6. HcCounted(hcC[h], at) /\ HcCarried(at, hcGiven[h])
  BY <1>0, <1>1, <1>5 DEF HcCounted, HcCarried
<1>7. HcGood(hcC[h], at, hcGiven[h])
  BY <1>0, <1>6 DEF HcGood
<1> QED
  BY <1>0, <1>1, <1>3, <1>4, <1>7, HcOneStep

\* MakeRequest: the body carries nothing but what was given, and all of it when
\* that was strings; a mix has made the body raw.
LEMMA HcBodyCarries ==
    ASSUME NEW c \in HcConfs, NEW given \in SUBSET HcKinds, HcStored(c, given), c.target # "html",
           c.bounce \/ c.data = {} \/ c.slice = {}
    PROVE  HcBody(c) \subseteq given /\ (given \subseteq HcStrings => given \subseteq HcBody(c))
<1>1. c.data \subseteq given /\ c.slice \subseteq given /\ c.raw \subseteq given /\ c.files \subseteq given
  BY DEF HcStored
<1>2. given \subseteq HcStrings => given \subseteq c.raw
  BY DEF HcStored
<1>3. ~c.bounce /\ given \subseteq HcStrings => given \subseteq c.data \cup c.slice
  BY DEF HcStored, HcStrings
<1>4. c.target \in {"json", "form", "text", "multipart"}
  BY HcAssumption DEF HcConfs
<1>5. CASE c.target = "json"
  <2>1. HcBody(c) = IF c.bounce THEN c.raw ELSE IF c.data # {} THEN c.data ELSE c.slice
    BY <1>5 DEF HcBody
  <2> QED
    BY <1>1, <1>2, <1>3, <2>1
<1>6. CASE c.target = "form"
  <2>1. HcBody(c) = IF c.bounce \/ c.slice # {} THEN c.raw ELSE c.data
    BY <1>6 DEF HcBody
  <2> QED
    BY <1>1, <1>2, <1>3, <2>1
<1>7. CASE c.target = "text"
  <2>1. HcBody(c) = c.raw
    BY <1>7 DEF HcBody
  <2> QED
    BY <1>1, <1>2, <2>1
<1>8. CASE c.target = "multipart"
  <2>1. HcBody(c) = (IF c.bounce THEN c.raw ELSE {}) \cup c.data \cup c.slice \cup c.files
    BY <1>8 DEF HcBody
  <2> QED
    BY <1>1, <1>2, <1>3, <2>1
<1> QED
  BY <1>4, <1>5, <1>6, <1>7, <1>8

\* The type that getResponseBytes chooses, and the mix that makes a body raw.
HcPrepared(old) == IF old.errs THEN old ELSE [old EXCEPT !.target = HcTarget(old), !.bounce = HcMixed(old)]

\* They move no content, and leave no mix that is not raw.
LEMMA HcReady ==
    ASSUME NEW old \in HcConfs, NEW given, HcStored(old, given)
    PROVE  /\ HcPrepared(old) \in HcConfs /\ HcStored(HcPrepared(old), given)
           /\ ~HcPrepared(old).errs => HcPrepared(old).bounce \/ HcPrepared(old).data = {} \/ HcPrepared(old).slice = {}
<1> PICK c : c = HcPrepared(old)
  OBVIOUS
<1>1. CASE old.errs
  BY <1>1 DEF HcPrepared
<1>2. CASE ~old.errs
  <2> PICK t, b : t = HcTarget(old) /\ b = HcMixed(old)
    OBVIOUS
  <2>1. t \in HcTypes \cup {"json", "form"}
    BY DEF HcTarget, HcConfs
  <2>2. b \in BOOLEAN /\ (b <=> (old.bounce \/ (old.data # {} /\ old.slice # {})))
    BY DEF HcMixed
  <2>3. c = [old EXCEPT !.target = t, !.bounce = b]
    BY <1>2 DEF HcPrepared
  <2>4. c \in HcConfs
    BY <2>1, <2>2, <2>3 DEF HcConfs
  <2>5. c.data = old.data /\ c.slice = old.slice /\ c.raw = old.raw /\ c.files = old.files /\ (c.bounce = b)
    BY <2>3 DEF HcConfs
  <2>6. (~b => ~old.bounce) /\ (b \/ c.data = {} \/ c.slice = {})
    BY <2>2, <2>5
  <2>7. HcStored(c, given)
    BY <2>5, <2>6 DEF HcStored
  <2> QED
    BY <2>4, <2>5, <2>6, <2>7
<1> QED
  BY <1>1, <1>2

\* One round of EndBytes: what it sends is what was given, and another one is an attempt.
LEMMA HcTryStep ==
    ASSUME HcInv, NEW h \in HcClients, NEW status \in {"final", "retryable", "failed", "unread"}, HcTry(h, status)
    PROVE  HcInv'
<1> PICK old : old = hcC[h].conf
  OBVIOUS
<1> PICK c : c = HcPrepared(old)
  OBVIOUS
<1> PICK invalid \in BOOLEAN : invalid <=> (c.errs \/ ~c.method \/ c.target = "html")
  OBVIOUS
<1> PICK result : result = IF invalid THEN "invalid" ELSE status
  OBVIOUS
<1> PICK again \in BOOLEAN : again <=> HcAgain(hcC[h], result)
  OBVIOUS
<1> PICK errs \in BOOLEAN : errs <=> (c.errs \/ result \in {"invalid", "failed"})
  OBVIOUS
<1> PICK conf, attempt : /\ conf = [c EXCEPT !.errs = errs]
                         /\ attempt = IF again THEN hcC[h].attempt + 1 ELSE hcC[h].attempt
  OBVIOUS
<1> PICK x : x = [hcC[h] EXCEPT !.conf = conf, !.attempt = attempt]
  OBVIOUS
<1> PICK at : at = [st |-> IF again THEN "try" ELSE "returned", tries |-> hcAt[h].tries + IF invalid THEN 0 ELSE 1,
                    body |-> IF invalid THEN {} ELSE HcBody(c), status |-> result]
  OBVIOUS
<1>1. /\ hcC[h] \in HcFields /\ hcAt[h] \in HcEnds /\ hcGiven[h] \in SUBSET HcKinds /\ old \in HcConfs
      /\ HcGood(hcC[h], hcAt[h], hcGiven[h])
  BY DEF HcInv, HcFields
<1>2. hcAt[h].st = "try" /\ hcGiven' = hcGiven
  BY DEF HcTry
<1>3. c \in HcConfs /\ HcStored(c, hcGiven[h]) /\ (~c.errs => c.bounce \/ c.data = {} \/ c.slice = {})
  <2>1. HcStored(old, hcGiven[h])
    BY <1>1 DEF HcGood
  <2> QED
    BY <1>1, <2>1, HcReady
<1>4. /\ conf \in HcConfs /\ conf.data = c.data /\ conf.slice = c.slice /\ conf.raw = c.raw
      /\ conf.files = c.files /\ conf.bounce = c.bounce
  BY <1>3 DEF HcConfs
<1>5. HcStored(conf, hcGiven[h])
  BY <1>3, <1>4 DEF HcStored
<1>6. /\ hcC[h].attempt \in Nat /\ hcC[h].count \in Nat /\ hcC[h].attempt <= hcC[h].count
      /\ hcAt[h].tries \in Nat /\ hcAt[h].tries <= hcC[h].attempt /\ hcC[h].on
  BY <1>1, <1>2, HcIdleGood DEF HcGood, HcCounted, HcFields, HcEnds
<1>7. again => hcC[h].attempt < hcC[h].count /\ result = "retryable" /\ ~invalid
  BY DEF HcAgain
<1>8. ~again /\ result = "retryable" /\ hcC[h].enable => hcC[h].attempt = hcC[h].count
  BY <1>6 DEF HcAgain
<1>9. attempt \in Nat /\ attempt <= hcC[h].count /\ (again => attempt = hcC[h].attempt + 1) /\ (~again => attempt = hcC[h].attempt)
  <2>1. CASE again
    BY <1>6, <1>7, <2>1
  <2>2. CASE ~again
    BY <1>6, <2>2
  <2> QED
    BY <2>1, <2>2
<1>10. /\ x \in HcFields /\ x.conf = conf /\ x.attempt = attempt /\ x.count = hcC[h].count
       /\ x.enable = hcC[h].enable /\ x.on = hcC[h].on
  BY <1>1, <1>4, <1>9 DEF HcFields
<1>11. ~invalid => /\ HcBody(c) \subseteq hcGiven[h]
                   /\ (hcGiven[h] \subseteq HcStrings => hcGiven[h] \subseteq HcBody(c))
  <2> SUFFICES ASSUME ~invalid PROVE /\ HcBody(c) \subseteq hcGiven[h]
                                     /\ (hcGiven[h] \subseteq HcStrings => hcGiven[h] \subseteq HcBody(c))
    OBVIOUS
  <2>1. c.target # "html" /\ (c.bounce \/ c.data = {} \/ c.slice = {})
    BY <1>3
  <2> QED
    BY <1>1, <1>3, <2>1, HcBodyCarries
<1>12. /\ at.st = (IF again THEN "try" ELSE "returned") /\ at.tries = hcAt[h].tries + (IF invalid THEN 0 ELSE 1)
       /\ at.body = (IF invalid THEN {} ELSE HcBody(c)) /\ at.status = result
  OBVIOUS
<1>13. at \in HcEnds
  <2>1. at.tries \in Nat /\ at.body \in SUBSET HcKinds /\ at.st \in {"try", "returned"}
    BY <1>1, <1>6, <1>11, <1>12
  <2>2. at.status \in {"none", "invalid", "final", "retryable", "failed", "unread"}
    BY <1>12
  <2> QED
    BY <2>1, <2>2 DEF HcEnds
<1>14. HcCarried(at, hcGiven[h])
  BY <1>11, <1>12 DEF HcCarried
<1>15. at.tries \in Nat /\ at.tries <= hcC[h].attempt + 1
  BY <1>6, <1>12
<1>16. HcCounted(x, at)
  <2>1. CASE again
    BY <1>6, <1>9, <1>10, <1>12, <1>15, <2>1 DEF HcCounted
  <2>2. CASE ~again
    BY <1>6, <1>8, <1>9, <1>10, <1>12, <1>15, <2>2 DEF HcCounted
  <2> QED
    BY <2>1, <2>2
<1>17. HcGood(x, at, hcGiven[h])
  BY <1>5, <1>9, <1>10, <1>14, <1>16 DEF HcGood
<1>18. hcC' = [hcC EXCEPT ![h] = x] /\ hcAt' = [hcAt EXCEPT ![h] = at]
  <2>1. /\ hcC' = [hcC EXCEPT ![h].conf = conf, ![h].attempt = attempt]
        /\ hcAt' = [hcAt EXCEPT ![h] = at]
    BY DEF HcTry, HcPrepared
  <2> QED
    BY <1>1, <2>1 DEF HcInv, HcFields
<1>19. hcGiven' = [hcGiven EXCEPT ![h] = hcGiven[h]]
  BY <1>2 DEF HcInv
<1> QED
  BY <1>1, <1>10, <1>13, <1>17, <1>18, <1>19, HcOneStep

\* A new client has been given nothing.
LEMMA HcInitHolds == HcInit => HcInv
<1> SUFFICES ASSUME HcInit PROVE HcInv
  OBVIOUS
<1>1. {} \in SUBSET HcKinds /\ TRUE \in BOOLEAN /\ FALSE \in BOOLEAN /\ 0 \in Nat
  OBVIOUS
<1>2. HcBlank \in HcConfs
  BY <1>1 DEF HcBlank, HcConfs
<1>3. HcBlank.data = {} /\ HcBlank.slice = {} /\ HcBlank.raw = {} /\ HcBlank.files = {}
  BY DEF HcBlank
<1>4. HcStored(HcBlank, {})
  BY <1>3 DEF HcStored
<1>5. HcNew \in HcFields /\ HcNew.conf = HcBlank /\ HcNew.attempt = 0 /\ HcNew.count = 0
  BY <1>1, <1>2 DEF HcNew, HcFields
<1>6. ASSUME NEW b \in BOOLEAN, NEW x, x = [HcNew EXCEPT !.on = b]
      PROVE  x \in HcFields /\ x.conf = HcBlank /\ x.attempt = 0 /\ x.count = 0
  BY <1>5, <1>6 DEF HcFields
<1>7. \A h \in HcClients : hcC[h] = [HcNew EXCEPT !.on = (h = "base")] /\ hcAt[h] = HcIdle /\ hcGiven[h] = {}
  BY DEF HcInit, HcClients
<1>8. \A h \in HcClients : hcC[h] \in HcFields /\ hcC[h].conf = HcBlank /\ hcC[h].attempt = 0 /\ hcC[h].count = 0
  BY <1>6, <1>7
<1>9. /\ hcC \in [HcClients -> HcFields] /\ hcAt \in [HcClients -> HcEnds]
      /\ hcGiven \in [HcClients -> SUBSET HcKinds]
  <2>1. DOMAIN hcC = HcClients /\ hcC = [h \in HcClients |-> hcC[h]]
    BY DEF HcInit, HcClients
  <2>2. hcAt = [h \in HcClients |-> HcIdle] /\ hcGiven = [h \in HcClients |-> {}]
    BY DEF HcInit, HcClients
  <2> QED
    BY <1>1, <1>8, <2>1, <2>2, HcIdleGood
<1>10. \A h \in HcClients : HcGood(hcC[h], hcAt[h], hcGiven[h])
  <2> SUFFICES ASSUME NEW h \in HcClients PROVE HcGood(hcC[h], HcIdle, {})
    BY <1>7
  <2>1. hcC[h].attempt <= hcC[h].count /\ HcStored(hcC[h].conf, {})
    BY <1>4, <1>8
  <2>2. HcCounted(hcC[h], HcIdle) /\ HcCarried(HcIdle, {})
    BY <1>8, HcIdleGood
  <2> QED
    BY <2>1, <2>2 DEF HcGood
<1> QED
  BY <1>9, <1>10 DEF HcInv

\* One client serves request after request (client.go:309-328, 1135-1328): strings
\* that it was given reach the body whatever their mix, nothing of an earlier
\* request does, and no End sends more often than Retry allowed.
THEOREM HttpClientExact == HcSpec => []HcExact
<1>1. HcInv /\ [HcNext]_hcVars => HcInv'
  <2> SUFFICES ASSUME HcInv, [HcNext]_hcVars PROVE HcInv'
    OBVIOUS
  <2>1. CASE UNCHANGED hcVars
    BY <2>1 DEF hcVars, HcInv
  <2>2. CASE HcNext
    BY <2>2, HcMethodStep, HcTypeStep, HcSendStep, HcRetryStep, HcEndStep, HcTryStep DEF HcNext, HcClients
  <2> QED
    BY <2>1, <2>2
<1>2. HcInv => HcExact
  <2> SUFFICES ASSUME HcInv PROVE HcExact
    OBVIOUS
  <2>1. \A h \in {"base", "clone"} : /\ hcC[h] \in HcFields /\ hcAt[h] \in HcEnds
                                     /\ HcGood(hcC[h], hcAt[h], hcGiven[h])
    BY DEF HcInv, HcClients
  <2>2. HcStringsSent /\ HcNoLeftovers
    BY <2>1 DEF HcStringsSent, HcNoLeftovers, HcSent, HcGood, HcCarried
  <2>3. \A h \in {"base", "clone"} : hcC[h].attempt \in Nat /\ hcC[h].count \in Nat /\ hcAt[h].tries \in Nat
    BY <2>1 DEF HcFields, HcEnds
  <2>4. HcRetriesSpent
    BY <2>1, <2>3 DEF HcRetriesSpent, HcGood, HcCounted
  <2> QED
    BY <2>2, <2>4 DEF HcExact
<1> QED
  BY <1>1, <1>2, HcInitHolds, PTL DEF HcSpec

-----------------------------------------------------------------------------
(* The MySQL client. *)

MyRows == MyVals \cup {"none"}
MyDbs == {"m", "s"} \X Nat
MyStates == [st : {"idle", "query", "rows", "update", "delete", "insert", "merge", "again", "tx", "defer", "done"},
             op : {"none", "query", "update", "delete", "insert", "upsert", "tx"},
             val : MyRows \cup {"result", "noResult", "error", "panic"}, ready : BOOLEAN,
             todo : SUBSET MyDbs, db : MyDbs \cup {<<>>}, turn : Nat, moved : BOOLEAN, steps : Nat,
             kept : {0, 1, 2}, fin : {"none", "ok", "failed", "lost", "rollback"},
             ret : MyRows \cup {"none", "ok", "error", "panic"}]

MyTypes == /\ myConf \in MyConfs /\ myWrite \in SUBSET MyDbs /\ myRead \in SUBSET MyDbs
           /\ myRow \in MyRows /\ myCall \in [MyCallers -> MyStates] /\ DOMAIN mySeen = MyCallers
           /\ mySeen = [g \in MyCallers |-> mySeen[g]]

\* Once the first Start has opened the masters there is a handle to write to, and
\* what Close has closed nobody opens again.
MyOpened == /\ myStart = "masters" => MyHosts(myConf.masters) > 0
            /\ myStart \in {"slaves", "done"} => myWrite # {}
            /\ myClosed /\ ~myEarly => /\ myStart \in {"done", "failed"}
                                       /\ myHandles \cap (myWrite \cup myRead) = {}

\* A read has made as many attempts as its turns on this handle and on the one before.
MyReading(c, seen) ==
    /\ c.st \in {"query", "rows", "done"}
    /\ c.st = "query" => c.turn <= MyRetry /\ c.steps = c.turn + IF c.moved THEN MyRetry + 1 ELSE 0
    /\ c.st # "query" => c.steps <= 2 * (MyRetry + 1)
    /\ c.st = "done" => c.ret = "error" \/ c.ret \in seen

\* The second update of an upsert has seen a row, which only a delete can take away.
MyUpserting(c, row, seen, g, gone) ==
    /\ c.st \in {"merge", "update", "insert", "again", "done"}
    /\ c.st = "again" => row # "none" \/ g \in gone
    /\ c.st = "done" /\ c.ret = "ok" => c.val \in seen \/ g \in gone

\* What the function of a transaction has done, and what became of it.
MyWhole(c) == /\ c.kept \in {0, 2} \/ c.val = "panic"
              /\ c.ret = "ok" => c.kept = 2
              /\ c.ret = "error" /\ c.fin # "lost" => c.kept = 0
MyCommitting(c) ==
    /\ c.st \in {"tx", "defer", "done"}
    /\ c.st = "tx" => c.kept = 0
    /\ c.st = "defer" => \/ c.val \in {"result", "noResult"} /\ c.steps = 2
                         \/ c.val \in {"error", "panic"} /\ c.steps = 1
    /\ c.st = "done" => MyWhole(c)

\* What a call c of g knows: row is the row, seen and gone are its histories.
MyKnows(c, row, seen, g, gone) ==
    /\ c.st \notin {"idle", "done"} => row \in seen
    /\ c.st = "rows" => c.val \in seen /\ c.val \in MyRows
    /\ c.st \in {"update", "delete", "insert", "merge", "again"} => c.val \in MyRows
    /\ c.op = "query" => MyReading(c, seen)
    /\ c.op = "upsert" => MyUpserting(c, row, seen, g, gone)
    /\ c.op = "tx" => MyCommitting(c)
    /\ c.st \in {"tx", "defer"} => c.op = "tx"
    /\ c.ret = "panic" /\ (c.op = "tx" => c.val = "none") => ~c.ready

MyInv == /\ MyTypes /\ MyOpened
         /\ \A g \in MyCallers : MyKnows(myCall[g], myRow, mySeen[g], g, myGone)

\* The end of a call keeps what it was about.
LEMMA MyOverIs ==
    ASSUME NEW c \in MyStates, NEW ret \in MyRows \cup {"none", "ok", "error", "panic"}
    PROVE  /\ MyOver(c, ret) \in MyStates /\ MyOver(c, ret).st = "done" /\ MyOver(c, ret).ret = ret
           /\ MyOver(c, ret).op = c.op /\ MyOver(c, ret).val = c.val /\ MyOver(c, ret).ready = c.ready
           /\ MyOver(c, ret).steps = c.steps /\ MyOver(c, ret).kept = c.kept /\ MyOver(c, ret).fin = c.fin
<1> PICK e : e = [c EXCEPT !.st = "done", !.ret = ret, !.todo = {}, !.db = <<>>, !.turn = 0, !.moved = FALSE]
  OBVIOUS
<1>1. MyOver(c, ret) = e
  BY DEF MyOver
<1>2. {} \in SUBSET MyDbs /\ 0 \in Nat /\ FALSE \in BOOLEAN
  OBVIOUS
<1>3. e \in MyStates
  BY <1>2 DEF MyStates
<1>4. /\ e.st = "done" /\ e.ret = ret /\ e.op = c.op /\ e.val = c.val /\ e.ready = c.ready
      /\ e.steps = c.steps /\ e.kept = c.kept /\ e.fin = c.fin
  BY DEF MyStates
<1> QED
  BY <1>1, <1>3, <1>4

\* A new call, with r for whether there was a handle when it began.
MyFresh(op, st, v, r) ==
    [st |-> st, op |-> op, val |-> v, ready |-> r, todo |-> {}, db |-> <<>>, turn |-> 0,
     moved |-> FALSE, steps |-> 0, kept |-> 0, fin |-> "none", ret |-> "none"]

\* It is what MyNew makes.
LEMMA MyNewIs ==
    ASSUME NEW op, NEW st, NEW v, NEW r \in BOOLEAN, r <=> (myStart \in {"slaves", "done"})
    PROVE  MyNew(op, st, v) = MyFresh(op, st, v, r)
<1> PICK c : c = MyNew(op, st, v)
  OBVIOUS
<1>1. c = [st |-> st, op |-> op, val |-> v, ready |-> r, todo |-> {}, db |-> <<>>, turn |-> 0,
           moved |-> FALSE, steps |-> 0, kept |-> 0, fin |-> "none", ret |-> "none"]
  BY DEF MyNew, MyIdle
<1>2. c = MyFresh(op, st, v, r)
  BY <1>1 DEF MyFresh
<1> QED
  BY <1>2

\* What it consists of.
LEMMA MyFreshIs ==
    ASSUME NEW op \in {"query", "update", "delete", "insert", "upsert", "tx"},
           NEW st \in {"query", "update", "delete", "insert", "merge", "tx"}, NEW v \in MyRows,
           NEW r \in BOOLEAN, NEW c, c = MyFresh(op, st, v, r)
    PROVE  /\ c \in MyStates /\ c.st = st /\ c.op = op /\ c.val = v
           /\ c.ready = r /\ c.turn = 0 /\ ~c.moved /\ c.steps = 0
           /\ c.kept = 0 /\ c.fin = "none" /\ c.ret = "none"
<1>1. {} \in SUBSET MyDbs /\ 0 \in Nat /\ FALSE \in BOOLEAN
  OBVIOUS
<1>2. c \in MyStates
  BY <1>1 DEF MyStates, MyFresh
<1> QED
  BY <1>2 DEF MyFresh

\* A change of the row adds to what a call that is under way has seen, and a
\* delete is remembered.
LEMMA MyKnowsMore ==
    ASSUME NEW c, NEW row, NEW seen, NEW g, NEW gone, MyKnows(c, row, seen, g, gone),
           NEW row2, NEW seen2, NEW gone2, seen \subseteq seen2, g \in gone => g \in gone2,
           c.st \notin {"idle", "done"} => row2 \in seen2,
           row2 = "none" /\ c.st \notin {"idle", "done"} => g \in gone2
    PROVE  MyKnows(c, row2, seen2, g, gone2)
<1>1. c.op = "query" => MyReading(c, seen2)
  BY DEF MyKnows, MyReading
<1>2. c.op = "upsert" => MyUpserting(c, row2, seen2, g, gone2)
  BY DEF MyKnows, MyUpserting
<1> QED
  BY <1>1, <1>2 DEF MyKnows

\* A step of one call, whatever becomes of the row.
LEMMA MyOneStep ==
    ASSUME MyInv, NEW g \in MyCallers, NEW c \in MyStates, MyCallSet(g, c), UNCHANGED myDbVars,
           myRow' \in MyRows, mySeen' = [k \in MyCallers |-> mySeen'[k]],
           MyKnows(c, myRow', mySeen'[g], g, myGone'),
           \A k \in MyCallers : k # g => MyKnows(myCall[k], myRow', mySeen'[k], k, myGone')
    PROVE  MyInv'
<1>1. /\ myConf' = myConf /\ myStart' = myStart /\ myHandles' = myHandles /\ myWrite' = myWrite
      /\ myRead' = myRead /\ myClosed' = myClosed /\ myEarly' = myEarly
  BY DEF myDbVars
<1>2. myCall' = [myCall EXCEPT ![g] = c] /\ myCall \in [MyCallers -> MyStates]
  BY DEF MyCallSet, MyInv, MyTypes
<1>3. myCall' \in [MyCallers -> MyStates] /\ myCall'[g] = c /\ \A k \in MyCallers : k # g => myCall'[k] = myCall[k]
  BY <1>2
<1>4. DOMAIN mySeen' = MyCallers
  OBVIOUS
<1>5. MyTypes'
  BY <1>1, <1>3, <1>4 DEF MyInv, MyTypes
<1>6. MyOpened'
  BY <1>1 DEF MyInv, MyOpened
<1>7. \A k \in MyCallers : MyKnows(myCall'[k], myRow', mySeen'[k], k, myGone')
  BY <1>3
<1> QED
  BY <1>5, <1>6, <1>7 DEF MyInv

\* A step that leaves the row alone.
LEMMA MyQuietStep ==
    ASSUME MyInv, NEW g \in MyCallers, NEW c \in MyStates, MyCallSet(g, c), UNCHANGED <<myDbVars, myRow, mySeen, myGone>>,
           MyKnows(c, myRow, mySeen[g], g, myGone)
    PROVE  MyInv'
<1>1. myRow' = myRow /\ mySeen' = mySeen /\ myGone' = myGone /\ UNCHANGED myDbVars
  OBVIOUS
<1>2. myRow' \in MyRows /\ mySeen' = [k \in MyCallers |-> mySeen'[k]]
  BY <1>1 DEF MyInv, MyTypes
<1>3. \A k \in MyCallers : MyKnows(myCall[k], myRow', mySeen'[k], k, myGone')
  BY <1>1 DEF MyInv
<1>4. MyKnows(c, myRow', mySeen'[g], g, myGone')
  BY <1>1
<1> QED
  BY <1>1, <1>2, <1>3, <1>4, MyOneStep

\* A call that begins sees the row of this moment.
LEMMA MyEnterStep ==
    ASSUME MyInv, NEW g \in MyCallers, MyEnter(g), NEW c \in MyStates, MyCallSet(g, c),
           MyKnows(c, myRow, {myRow}, g, myGone \ {g})
    PROVE  MyInv'
<1>1. /\ mySeen' = [mySeen EXCEPT ![g] = {myRow}] /\ myGone' = myGone \ {g} /\ myRow' = myRow /\ UNCHANGED myDbVars
  BY DEF MyEnter
<1>2. mySeen = [k \in MyCallers |-> mySeen[k]] /\ myRow \in MyRows
  BY DEF MyInv, MyTypes
<1>3. mySeen' = [k \in MyCallers |-> mySeen'[k]] /\ mySeen'[g] = {myRow} /\ \A k \in MyCallers : k # g => mySeen'[k] = mySeen[k]
  BY <1>1, <1>2
<1>4. ASSUME NEW k \in MyCallers, k # g PROVE MyKnows(myCall[k], myRow', mySeen'[k], k, myGone')
  <2>1. MyKnows(myCall[k], myRow, mySeen[k], k, myGone)
    BY DEF MyInv
  <2>2. k \in myGone <=> k \in myGone'
    BY <1>1, <1>4
  <2> QED
    BY <1>1, <1>3, <1>4, <2>1, <2>2 DEF MyKnows, MyUpserting
<1>5. MyKnows(c, myRow', mySeen'[g], g, myGone')
  BY <1>1, <1>3
<1> QED
  BY <1>1, <1>2, <1>3, <1>4, <1>5, MyOneStep

\* What a call knows at its beginning, and when it ends at once, with an error or,
\* without a handle to write to, with a panic.
LEMMA MyKnowsNew ==
    ASSUME MyInv, NEW c \in MyStates, NEW g, NEW gone, c.steps = 0, c.kept = 0, c.val \in MyRows,
           c.ready <=> myStart \in {"slaves", "done"}, c.turn = 0, ~c.moved,
           c.op = "query" => c.st = "query", c.op = "upsert" => c.st \in {"merge", "update"}, c.op = "tx" <=> c.st = "tx",
           c.st \notin {"rows", "again", "defer", "done"}, c.ret = "none"
    PROVE  /\ MyKnows(c, myRow, {myRow}, g, gone)
           /\ MyKnows(MyOver(c, "error"), myRow, {myRow}, g, gone)
           /\ c.op # "query" /\ myWrite = {} => MyKnows(MyOver(c, "panic"), myRow, {myRow}, g, gone)
           /\ c.op = "tx" /\ myWrite = {} => MyKnows(MyOver(MyOver(c, "error"), "panic"), myRow, {myRow}, g, gone)
<1>0. MyRetry \in Nat
  BY MyAssumption
<1>1. MyKnows(c, myRow, {myRow}, g, gone)
  <2>1. MyReading(c, {myRow}) \/ c.op # "query"
    BY <1>0 DEF MyReading
  <2>2. MyUpserting(c, myRow, {myRow}, g, gone) \/ c.op # "upsert"
    BY DEF MyUpserting
  <2>3. MyCommitting(c) \/ c.op # "tx"
    BY DEF MyCommitting
  <2> QED
    BY <2>1, <2>2, <2>3 DEF MyKnows
<1>2. ASSUME NEW d \in MyStates, d.st = "done", d.op = c.op, d.val = c.val, d.ready = c.ready, d.steps = 0, d.kept = 0,
             d.ret \in {"error", "panic"}, d.ret = "panic" => d.op # "query" /\ myWrite = {}
      PROVE  MyKnows(d, myRow, {myRow}, g, gone)
  <2>1. MyReading(d, {myRow}) \/ d.op # "query"
    BY <1>0, <1>2 DEF MyReading
  <2>2. MyUpserting(d, myRow, {myRow}, g, gone)  \/ d.op # "upsert"
    BY <1>2 DEF MyUpserting
  <2>3. MyCommitting(d) \/ d.op # "tx"
    BY <1>2 DEF MyCommitting, MyWhole
  <2>4. d.ret = "panic" => ~d.ready
    BY <1>2 DEF MyInv, MyOpened
  <2> QED
    BY <1>2, <2>1, <2>2, <2>3, <2>4 DEF MyKnows
<1>3. MyKnows(MyOver(c, "error"), myRow, {myRow}, g, gone)
  <2> PICK d : d = MyOver(c, "error")
    OBVIOUS
  <2>1. /\ d \in MyStates /\ d.st = "done" /\ d.ret = "error" /\ d.op = c.op /\ d.val = c.val /\ d.ready = c.ready
        /\ d.steps = 0 /\ d.kept = 0
    BY MyOverIs
  <2> QED
    BY <1>2, <2>1
<1>4. ASSUME c.op # "query", myWrite = {} PROVE MyKnows(MyOver(c, "panic"), myRow, {myRow}, g, gone)
  <2> PICK d : d = MyOver(c, "panic")
    OBVIOUS
  <2>1. /\ d \in MyStates /\ d.st = "done" /\ d.ret = "panic" /\ d.op = c.op /\ d.val = c.val /\ d.ready = c.ready
        /\ d.steps = 0 /\ d.kept = 0
    BY MyOverIs
  <2> QED
    BY <1>2, <1>4, <2>1
<1>5. ASSUME c.op = "tx", myWrite = {} PROVE MyKnows(MyOver(MyOver(c, "error"), "panic"), myRow, {myRow}, g, gone)
  <2> PICK e : e = MyOver(c, "error")
    OBVIOUS
  <2> PICK d : d = MyOver(e, "panic")
    OBVIOUS
  <2>1. /\ e \in MyStates /\ e.op = c.op /\ e.val = c.val /\ e.ready = c.ready /\ e.steps = 0 /\ e.kept = 0
    BY MyOverIs
  <2>2. /\ d \in MyStates /\ d.st = "done" /\ d.ret = "panic" /\ d.op = c.op /\ d.val = c.val /\ d.ready = c.ready
        /\ d.steps = 0 /\ d.kept = 0
    BY <2>1, MyOverIs
  <2> QED
    BY <1>2, <1>5, <2>2
<1> QED
  BY <1>1, <1>3, <1>4, <1>5

\* A read begins with the handles there are.
LEMMA MyQueryStep == ASSUME MyInv, NEW g \in MyCallers, MyQuery(g) PROVE MyInv'
<1> PICK r \in BOOLEAN : r <=> (myStart \in {"slaves", "done"})
  OBVIOUS
<1> PICK c : c = MyFresh("query", "query", "none", r)
  OBVIOUS
<1>n. MyNew("query", "query", "none") = c
  BY MyNewIs
<1>1. /\ c \in MyStates /\ c.st = "query" /\ c.op = "query" /\ c.val = "none"
      /\ c.ready = r /\ c.turn = 0 /\ ~c.moved /\ c.steps = 0
      /\ c.kept = 0 /\ c.ret = "none"
  BY MyFreshIs DEF MyRows
<1> PICK d : d = [c EXCEPT !.todo = myRead]
  OBVIOUS
<1>2. /\ d \in MyStates /\ d.st = "query" /\ d.op = "query" /\ d.val = "none" /\ d.ready = c.ready
      /\ d.turn = 0 /\ ~d.moved /\ d.steps = 0 /\ d.kept = 0 /\ d.ret = "none"
  BY <1>1 DEF MyStates, MyInv, MyTypes
<1>3. MyEnter(g) /\ MyCallSet(g, IF myRead = {} THEN MyOver(c, "error") ELSE d)
  BY <1>n DEF MyQuery
<1>4. "none" \in MyRows
  BY DEF MyRows
<1>5. CASE myRead = {}
  <2>1. MyKnows(MyOver(c, "error"), myRow, {myRow}, g, myGone \ {g})
    BY <1>1, <1>4, MyKnowsNew
  <2>2. MyOver(c, "error") \in MyStates
    BY <1>1, MyOverIs
  <2> QED
    BY <1>3, <1>5, <2>1, <2>2, MyEnterStep
<1>6. CASE myRead # {}
  <2>1. MyKnows(d, myRow, {myRow}, g, myGone \ {g})
    BY <1>1, <1>2, <1>4, MyKnowsNew
  <2> QED
    BY <1>2, <1>3, <1>6, <2>1, MyEnterStep
<1> QED
  BY <1>5, <1>6

\* A call that writes begins, or panics for want of a handle.
LEMMA MyWriteStep ==
    ASSUME MyInv, NEW g \in MyCallers, MyEnter(g), NEW op \in {"update", "delete", "insert", "upsert"},
           NEW st \in {"update", "delete", "insert", "merge"}, NEW v \in MyRows,
           op = "upsert" => st \in {"merge", "update"},
           MyGetWriteDbs(g, MyNew(op, st, v)) \/ MyCallSet(g, MyOver(MyNew(op, st, v), "error"))
    PROVE  MyInv'
<1> PICK r \in BOOLEAN : r <=> (myStart \in {"slaves", "done"})
  OBVIOUS
<1> PICK c : c = MyFresh(op, st, v, r)
  OBVIOUS
<1>n. MyNew(op, st, v) = c
  BY MyNewIs
<1>1. /\ c \in MyStates /\ c.st = st /\ c.op = op /\ c.val = v
      /\ c.ready = r /\ c.turn = 0 /\ ~c.moved /\ c.steps = 0
      /\ c.kept = 0 /\ c.ret = "none"
  BY MyFreshIs
<1>2. /\ MyKnows(c, myRow, {myRow}, g, myGone \ {g}) /\ MyKnows(MyOver(c, "error"), myRow, {myRow}, g, myGone \ {g})
      /\ myWrite = {} => MyKnows(MyOver(c, "panic"), myRow, {myRow}, g, myGone \ {g})
  BY <1>1, MyKnowsNew
<1>3. MyOver(c, "error") \in MyStates /\ MyOver(c, "panic") \in MyStates
  BY <1>1, MyOverIs
<1>4. CASE MyCallSet(g, MyOver(c, "error"))
  BY <1>2, <1>3, <1>4, MyEnterStep
<1>5. CASE MyCallSet(g, MyOver(c, "panic")) /\ myWrite = {}
  BY <1>2, <1>3, <1>5, MyEnterStep
<1>6. CASE MyCallSet(g, c)
  BY <1>1, <1>2, <1>6, MyEnterStep
<1> QED
  BY <1>n, <1>4, <1>5, <1>6 DEF MyGetWriteDbs

\* The calls of one statement, and upserts.
LEMMA MyStatementStep ==
    ASSUME MyInv, NEW g \in MyCallers, MyUpdate(g) \/ MyDelete(g) \/ MyAdd(g) \/ MyInsertOrUpdateOnDup(g)
    PROVE  MyInv'
<1>0. "none" \in MyRows /\ \A v \in MyVals : v \in MyRows
  BY DEF MyRows
<1>1. CASE MyUpdate(g)
  BY <1>0, <1>1, MyWriteStep DEF MyUpdate
<1>2. CASE MyDelete(g)
  BY <1>0, <1>2, MyWriteStep DEF MyDelete
<1>3. CASE MyAdd(g)
  BY <1>0, <1>3, MyWriteStep DEF MyAdd
<1>4. CASE MyInsertOrUpdateOnDup(g)
  BY <1>0, <1>4, MyWriteStep DEF MyInsertOrUpdateOnDup
<1> QED
  BY <1>1, <1>2, <1>3, <1>4

\* A transaction begins, or fails to.
LEMMA MyTxStep == ASSUME MyInv, NEW g \in MyCallers, MyExecTransaction(g) PROVE MyInv'
<1> PICK r \in BOOLEAN : r <=> (myStart \in {"slaves", "done"})
  OBVIOUS
<1> PICK c : c = MyFresh("tx", "tx", "none", r)
  OBVIOUS
<1>n. MyNew("tx", "tx", "none") = c
  BY MyNewIs
<1>0. "none" \in MyRows
  BY DEF MyRows
<1>1. /\ c \in MyStates /\ c.st = "tx" /\ c.op = "tx" /\ c.val = "none"
      /\ c.ready = r /\ c.turn = 0 /\ ~c.moved /\ c.steps = 0
      /\ c.kept = 0 /\ c.ret = "none"
  BY <1>0, MyFreshIs
<1>2. /\ MyKnows(c, myRow, {myRow}, g, myGone \ {g}) /\ MyKnows(MyOver(c, "error"), myRow, {myRow}, g, myGone \ {g})
      /\ myWrite = {} => /\ MyKnows(MyOver(c, "panic"), myRow, {myRow}, g, myGone \ {g})
                         /\ MyKnows(MyOver(MyOver(c, "error"), "panic"), myRow, {myRow}, g, myGone \ {g})
  BY <1>0, <1>1, MyKnowsNew
<1>3. MyOver(c, "error") \in MyStates /\ MyOver(c, "panic") \in MyStates
  BY <1>1, MyOverIs
<1>4. MyOver(MyOver(c, "error"), "panic") \in MyStates
  BY <1>3, MyOverIs
<1>5. /\ MyEnter(g)
      /\ \/ MyGetWriteDbs(g, c)
         \/ MyGetWriteDbs(g, MyOver(c, "error"))
  BY <1>n DEF MyExecTransaction
<1>6. \/ MyCallSet(g, c) \/ MyCallSet(g, MyOver(c, "error"))
      \/ myWrite = {} /\ (MyCallSet(g, MyOver(c, "panic")) \/ MyCallSet(g, MyOver(MyOver(c, "error"), "panic")))
  BY <1>5 DEF MyGetWriteDbs
<1> QED
  BY <1>1, <1>2, <1>3, <1>4, <1>5, <1>6, MyEnterStep

\* An attempt of a read: rows, an error, or one more attempt on this handle or on
\* the next, with which the attempts stay within the bound.
LEMMA MyAttemptStep == ASSUME MyInv, NEW g \in MyCallers, MyAttempt(g) PROVE MyInv'
<1> DEFINE c == myCall[g]
<1>0. MyRetry \in Nat
  BY MyAssumption
<1>1. c \in MyStates /\ MyKnows(c, myRow, mySeen[g], g, myGone) /\ c.st = "query" /\ myRow \in MyRows
  BY DEF MyAttempt, MyInv, MyTypes
<1>2. PICK db \in (IF c.db = <<>> THEN c.todo ELSE {c.db}), out \in {"rows", "conn", "other"} :
        MyCallSet(g,
          CASE out = "rows" -> [c EXCEPT !.st = "rows", !.val = myRow, !.steps = @ + 1]
            [] out = "conn" /\ ~(c.turn >= MyRetry) -> [c EXCEPT !.db = db, !.turn = @ + 1, !.steps = @ + 1]
            [] c.turn >= MyRetry /\ MyMayMove(c, out) /\ c.todo \ {db} # {} ->
                 [c EXCEPT !.db = <<>>, !.turn = 0, !.todo = c.todo \ {db}, !.moved = TRUE, !.steps = @ + 1]
            [] OTHER -> MyOver([c EXCEPT !.steps = @ + 1], "error"))
  BY DEF MyAttempt
<1>3. UNCHANGED <<myDbVars, myRow, mySeen, myGone>>
  BY DEF MyAttempt
<1> HIDE DEF c
<1>4. /\ db \in MyDbs /\ c.todo \in SUBSET MyDbs /\ c.todo \ {db} \in SUBSET MyDbs /\ c.turn \in Nat /\ c.turn + 1 \in Nat
      /\ c.steps \in Nat /\ c.steps + 1 \in Nat
  BY <1>1, <1>2 DEF MyStates
<1>5. /\ c.op \notin {"upsert", "tx"} /\ (c.ret = "panic" => ~c.ready) /\ myRow \in mySeen[g]
      /\ (c.op = "query" => c.turn <= MyRetry /\ c.steps = c.turn + IF c.moved THEN MyRetry + 1 ELSE 0)
  BY <1>1 DEF MyKnows, MyReading, MyUpserting, MyCommitting
<1>6. c.op = "query" => c.steps + 1 <= 2 * (MyRetry + 1)
  <2>1. CASE c.moved
    BY <1>0, <1>4, <1>5, <2>1
  <2>2. CASE ~c.moved
    BY <1>0, <1>4, <1>5, <2>2
  <2> QED
    BY <2>1, <2>2
<1>7. ASSUME NEW d \in MyStates, MyCallSet(g, d), d.op = c.op, d.ready = c.ready,
             \/ d.st = "rows" /\ d.val = myRow /\ d.steps = c.steps + 1 /\ d.ret = c.ret
             \/ d.st = "done" /\ d.ret = "error" /\ d.steps = c.steps + 1
             \/ d.st = "query" /\ (d.op = "query" => MyReading(d, mySeen[g])) /\ d.ret = c.ret
      PROVE  MyInv'
  <2>1. d.op = "query" => MyReading(d, mySeen[g])
    BY <1>6, <1>7 DEF MyReading
  <2>2. MyKnows(d, myRow, mySeen[g], g, myGone)
    BY <1>1, <1>5, <1>7, <2>1 DEF MyKnows
  <2> QED
    BY <1>3, <1>7, <2>2, MyQuietStep
<1>8. CASE out = "rows"
  <2> PICK d : d = [c EXCEPT !.st = "rows", !.val = myRow, !.steps = @ + 1]
    OBVIOUS
  <2>1. d \in MyStates /\ d.st = "rows" /\ d.val = myRow /\ d.steps = c.steps + 1 /\ d.op = c.op /\ d.ready = c.ready /\ d.ret = c.ret
    <3>1. myRow \in MyRows \cup {"result", "noResult", "error", "panic"}
      BY <1>1
    <3> QED
      BY <1>1, <1>4, <3>1 DEF MyStates
  <2>2. MyCallSet(g, d)
    BY <1>2, <1>8 DEF MyMayMove
  <2> QED
    BY <1>7, <2>1, <2>2
<1>9. CASE out = "conn" /\ ~(c.turn >= MyRetry)
  <2> PICK d : d = [c EXCEPT !.db = db, !.turn = @ + 1, !.steps = @ + 1]
    OBVIOUS
  <2>1. /\ d \in MyStates /\ d.st = "query" /\ d.op = c.op /\ d.ready = c.ready /\ d.turn = c.turn + 1 /\ d.steps = c.steps + 1
        /\ (d.moved <=> c.moved) /\ d.ret = c.ret
    BY <1>1, <1>4 DEF MyStates
  <2>2. d.op = "query" => d.turn <= MyRetry /\ d.steps = d.turn + IF d.moved THEN MyRetry + 1 ELSE 0
    <3>1. CASE c.moved
      BY <1>0, <1>4, <1>5, <1>9, <2>1, <3>1
    <3>2. CASE ~c.moved
      BY <1>0, <1>4, <1>5, <1>9, <2>1, <3>2
    <3> QED
      BY <3>1, <3>2
  <2>3. d.op = "query" => MyReading(d, mySeen[g])
    BY <2>1, <2>2 DEF MyReading
  <2>4. MyCallSet(g, d)
    BY <1>2, <1>9
  <2> QED
    BY <1>7, <2>1, <2>3, <2>4
<1>10. CASE out # "rows" /\ c.turn >= MyRetry /\ MyMayMove(c, out) /\ c.todo \ {db} # {}
  <2> PICK d : d = [c EXCEPT !.db = <<>>, !.turn = 0, !.todo = c.todo \ {db}, !.moved = TRUE, !.steps = @ + 1]
    OBVIOUS
  <2>1. <<>> \in MyDbs \cup {<<>>} /\ 0 \in Nat /\ TRUE \in BOOLEAN
    OBVIOUS
  <2>2. /\ d \in MyStates /\ d.st = "query" /\ d.op = c.op /\ d.ready = c.ready /\ d.turn = 0 /\ d.steps = c.steps + 1
        /\ d.moved /\ d.ret = c.ret
    BY <1>1, <1>4, <2>1 DEF MyStates
  <2>3. ~c.moved
    BY <1>10 DEF MyMayMove
  <2>4. d.op = "query" => d.turn <= MyRetry /\ d.steps = d.turn + IF d.moved THEN MyRetry + 1 ELSE 0
    BY <1>0, <1>4, <1>5, <1>10, <2>2, <2>3
  <2>5. d.op = "query" => MyReading(d, mySeen[g])
    BY <2>2, <2>4 DEF MyReading
  <2>6. MyCallSet(g, d)
    BY <1>2, <1>10
  <2> QED
    BY <1>7, <2>2, <2>5, <2>6
<1>11. CASE /\ out # "rows" /\ ~(out = "conn" /\ ~(c.turn >= MyRetry))
            /\ ~(c.turn >= MyRetry /\ MyMayMove(c, out) /\ c.todo \ {db} # {})
  <2> PICK e : e = [c EXCEPT !.steps = @ + 1]
    OBVIOUS
  <2>1. e \in MyStates /\ e.steps = c.steps + 1 /\ e.op = c.op /\ e.ready = c.ready
    BY <1>1, <1>4 DEF MyStates
  <2> PICK d : d = MyOver(e, "error")
    OBVIOUS
  <2>2. d \in MyStates /\ d.st = "done" /\ d.ret = "error" /\ d.steps = e.steps /\ d.op = e.op /\ d.ready = e.ready
    BY <2>1, MyOverIs
  <2>3. MyCallSet(g, d)
    BY <1>2, <1>11
  <2> QED
    BY <1>7, <2>1, <2>2, <2>3
<1> QED
  BY <1>8, <1>9, <1>10, <1>11

\* The end of a read: an error, or the row it saw.
LEMMA MyScanStep == ASSUME MyInv, NEW g \in MyCallers, MyScan(g) PROVE MyInv'
<1> PICK c : c = myCall[g]
  OBVIOUS
<1>1. c \in MyStates /\ MyKnows(c, myRow, mySeen[g], g, myGone) /\ c.st = "rows"
  BY DEF MyScan, MyInv, MyTypes
<1>2. c.val \in mySeen[g] /\ c.val \in MyRows /\ c.op \notin {"upsert", "tx"}
  BY <1>1 DEF MyKnows, MyUpserting, MyCommitting
<1>3. PICK ret \in {"error", c.val} : MyCallSet(g, MyOver(c, ret))
  BY DEF MyScan, MyScanned
<1>4. ret # "panic"
  BY <1>2, <1>3, MyAssumption DEF MyRows
<1> PICK d : d = MyOver(c, ret)
  OBVIOUS
<1>5. d \in MyStates /\ d.st = "done" /\ d.ret = ret /\ d.op = c.op /\ d.steps = c.steps
  BY <1>1, <1>2, <1>3, MyOverIs
<1>6. d.op = "query" => MyReading(d, mySeen[g])
  BY <1>1, <1>2, <1>3, <1>5 DEF MyKnows, MyReading
<1>7. MyKnows(d, myRow, mySeen[g], g, myGone)
  BY <1>2, <1>4, <1>5, <1>6 DEF MyKnows
<1>8. UNCHANGED <<myDbVars, myRow, mySeen, myGone>>
  BY DEF MyScan
<1> QED
  BY <1>3, <1>5, <1>7, <1>8, MyQuietStep

\* The two steps of a transaction after its begin, and what they leave alone.
MyRan(c, v, n) == [c EXCEPT !.st = "defer", !.val = v, !.steps = n]
MyEnded(c, n, end, ret) == [c EXCEPT !.st = "done", !.kept = n, !.fin = end, !.ret = ret]

\* The first, with the function's outcome and its number of statements.
LEMMA MyFunctionIs ==
    ASSUME NEW c \in MyStates, NEW v \in MyRows \cup {"result", "noResult", "error", "panic"}, NEW n \in Nat,
           NEW d, d = MyRan(c, v, n)
    PROVE  d \in MyStates /\ d.st = "defer" /\ d.val = v /\ d.steps = n /\ d.op = c.op /\ d.ret = c.ret
  BY DEF MyStates, MyRan

\* The same of its end.
LEMMA MyEndIs ==
    ASSUME NEW c \in MyStates, NEW n \in {0, 1, 2}, NEW end \in {"ok", "failed", "lost", "rollback"},
           NEW ret \in {"panic", "error", "ok"}, NEW d, d = MyEnded(c, n, end, ret)
    PROVE  d \in MyStates /\ d.st = "done" /\ d.kept = n /\ d.fin = end /\ d.ret = ret /\ d.val = c.val /\ d.op = c.op
<1>1. ret \in MyRows \cup {"none", "ok", "error", "panic"} /\ end \in {"none", "ok", "failed", "lost", "rollback"}
  OBVIOUS
<1> QED
  BY <1>1 DEF MyStates, MyEnded

\* The function of a transaction has run.
LEMMA MyFunctionStep == ASSUME MyInv, NEW g \in MyCallers, MyFunction(g) PROVE MyInv'
<1> PICK c : c = myCall[g]
  OBVIOUS
<1>1. c \in MyStates /\ MyKnows(c, myRow, mySeen[g], g, myGone) /\ c.st = "tx"
  BY DEF MyFunction, MyInv, MyTypes
<1>2. PICK out \in {"result", "noResult", "error", "panic"} :
        MyCallSet(g, [c EXCEPT !.st = "defer", !.val = out, !.steps = IF out \in {"result", "noResult"} THEN 2 ELSE 1])
  BY DEF MyFunction
<1> PICK n \in {1, 2} : n = IF out \in {"result", "noResult"} THEN 2 ELSE 1
  OBVIOUS
<1> PICK d : d = MyRan(c, out, n)
  OBVIOUS
<1>n. n \in Nat /\ out \in MyRows \cup {"result", "noResult", "error", "panic"}
  BY <1>2
<1>3. d \in MyStates /\ d.st = "defer" /\ d.val = out /\ d.steps = n /\ d.op = c.op /\ d.ret = c.ret
  BY <1>1, <1>n, MyFunctionIs
<1>4. c.op = "tx" /\ myRow \in mySeen[g]
  BY <1>1 DEF MyKnows
<1>5. MyCommitting(d)
  BY <1>2, <1>3 DEF MyCommitting
<1>6. out # "none"
  BY <1>2
<1>7. MyKnows(d, myRow, mySeen[g], g, myGone)
  BY <1>3, <1>4, <1>5, <1>6 DEF MyKnows
<1>8. UNCHANGED <<myDbVars, myRow, mySeen, myGone>>
  BY DEF MyFunction
<1>9. MyCallSet(g, d)
  BY <1>2 DEF MyRan
<1> QED
  BY <1>3, <1>7, <1>8, <1>9, MyQuietStep

\* The end of a transaction: all of it or none, unless the function panicked.
LEMMA MyDeferStep == ASSUME MyInv, NEW g \in MyCallers, MyDefer(g) PROVE MyInv'
<1> PICK c : c = myCall[g]
  OBVIOUS
<1>1. c \in MyStates /\ MyKnows(c, myRow, mySeen[g], g, myGone) /\ c.st = "defer"
  BY DEF MyDefer, MyInv, MyTypes
<1>2. /\ c.op = "tx"
      /\ \/ c.val \in {"result", "noResult"} /\ c.steps = 2
         \/ c.val \in {"error", "panic"} /\ c.steps = 1
  BY <1>1 DEF MyKnows, MyCommitting
<1>3. PICK end \in {"ok", "failed", "lost", "rollback"} :
        /\ end \in (IF MyCommits(c.val) THEN {"ok", "failed", "lost"} ELSE {"rollback"})
        /\ MyCallSet(g, [c EXCEPT !.st = "done", !.kept = IF end \in {"ok", "lost"} THEN c.steps ELSE 0, !.fin = end,
                           !.ret = CASE c.val = "panic" -> "panic"
                                     [] c.val = "error" \/ (c.val # "panic" /\ end # "ok") -> "error"
                                     [] c.val = "noResult" /\ end = "ok" -> "panic"
                                     [] OTHER -> "ok"])
  BY DEF MyDefer
<1> PICK n : n = IF end \in {"ok", "lost"} THEN c.steps ELSE 0
  OBVIOUS
<1> PICK ret : ret = CASE c.val = "panic" -> "panic"
                       [] c.val = "error" \/ (c.val # "panic" /\ end # "ok") -> "error"
                       [] c.val = "noResult" /\ end = "ok" -> "panic"
                       [] OTHER -> "ok"
  OBVIOUS
<1> PICK d : d = MyEnded(c, n, end, ret)
  OBVIOUS
<1>4. n \in {0, 1, 2}
  BY <1>2
<1>5. ret \in {"panic", "error", "ok"}
  BY <1>2
<1>6. d \in MyStates /\ d.st = "done" /\ d.kept = n /\ d.fin = end /\ d.ret = ret /\ d.val = c.val /\ d.op = c.op
  BY <1>1, <1>3, <1>4, <1>5, MyEndIs
<1>7. n \in {0, 2} \/ c.val = "panic"
  BY <1>2, <1>3 DEF MyCommits
<1>8. ret = "ok" => n = 2
  BY <1>2, <1>3
<1>9. ret = "error" /\ end # "lost" => n = 0
  BY <1>2, <1>3 DEF MyCommits
<1>10. MyCommitting(d)
  BY <1>6, <1>7, <1>8, <1>9 DEF MyCommitting, MyWhole
<1>11. MyKnows(d, myRow, mySeen[g], g, myGone)
  <2>1. c.val # "none"
    BY <1>2
  <2> QED
    BY <1>2, <1>6, <1>10, <2>1 DEF MyKnows
<1>12. UNCHANGED <<myDbVars, myRow, mySeen, myGone>>
  BY DEF MyDefer
<1>13. MyCallSet(g, d)
  BY <1>3 DEF MyEnded
<1> QED
  BY <1>6, <1>11, <1>12, <1>13, MyQuietStep

\* What a call knows after a statement that ended it or leads to the next one.
LEMMA MyKnowsNext ==
    ASSUME NEW c \in MyStates, NEW row, NEW seen, NEW g, NEW gone, MyKnows(c, row, seen, g, gone),
           c.st \in {"update", "delete", "insert", "merge", "again"},
           NEW d \in MyStates, d.op = c.op, d.val = c.val, d.ready = c.ready,
           \/ d.st = "done" /\ d.ret \in {"ok", "error"}
           \/ d.st \in {"again", "insert"} /\ d.ret = c.ret,
           NEW row2, NEW seen2, NEW gone2, d.st # "done" => row2 \in seen2, d.st = "again" => row2 # "none",
           d.op = "upsert" /\ d.st = "done" /\ d.ret = "ok" => c.val \in seen2 \/ g \in gone2
    PROVE  MyKnows(d, row2, seen2, g, gone2)
<1>1. c.op \notin {"query", "tx"} /\ c.val \in MyRows /\ (c.ret = "panic" => ~c.ready)
  BY DEF MyKnows, MyReading, MyCommitting
<1>2. d.op = "upsert" => MyUpserting(d, row2, seen2, g, gone2)
  BY DEF MyUpserting
<1> QED
  BY <1>1, <1>2 DEF MyKnows

\* What becomes of a call when one of its statements has run or failed.
LEMMA MyExecKnows ==
    ASSUME MyInv, NEW g \in MyCallers, MyExec(g)
    PROVE  \E d \in MyStates :
             /\ MyCallSet(g, d) /\ MyKnows(d, myRow', mySeen'[g], g, myGone')
<1> DEFINE c == myCall[g]
<1>1. c \in MyStates /\ MyKnows(c, myRow, mySeen[g], g, myGone) /\ mySeen = [k \in MyCallers |-> mySeen[k]]
  BY DEF MyInv, MyTypes
<1>2. c.st \in {"update", "delete", "insert", "merge", "again"}
  BY DEF MyExec
<1> PICK stmt : stmt = IF c.st = "again" THEN "update" ELSE c.st
  OBVIOUS
<1>3. PICK out \in {"ok", "failed", "lost"}, counts \in BOOLEAN :
        /\ IF out = "failed" \/ (stmt = "insert" /\ myRow # "none") \/ (stmt = "update" /\ myRow = "none")
           THEN UNCHANGED <<myRow, mySeen, myGone>> ELSE MySetRow(c.val)
        /\ MyCallSet(g, CASE out # "ok" -> MyOver(c, "error")
                          [] out = "ok" /\ (stmt = "insert" /\ myRow # "none") -> MyOnDup(c)
                          [] out = "ok" /\ ~(stmt = "insert" /\ myRow # "none") /\ ~MyAffected(stmt, c.val, counts) -> MyNoRow(c)
                          [] OTHER -> MyOver(c, "ok"))
  BY DEF MyExec
<1>4. MyActive(g)
  BY <1>2 DEF MyActive
<1> HIDE DEF c
<1>5. MySetRow(c.val) => c.val \in mySeen'[g] /\ myRow' = c.val
  <2>1. SUFFICES ASSUME MySetRow(c.val) PROVE c.val \in mySeen'[g] /\ myRow' = c.val
    OBVIOUS
  <2>2. mySeen' = [k \in MyCallers |-> mySeen[k] \union IF MyActive(k) THEN {c.val} ELSE {}] /\ myRow' = c.val
    BY <2>1 DEF MySetRow
  <2> QED
    BY <1>4, <2>2
<1>6. myRow \in mySeen[g]
  BY <1>1, <1>2 DEF MyKnows
<1>7. myRow' \in mySeen'[g]
  BY <1>3, <1>5, <1>6
<1> PICK bad : bad = MyOver(c, "error")
  OBVIOUS
<1> PICK good : good = MyOver(c, "ok")
  OBVIOUS
<1>8. /\ bad \in MyStates /\ bad.st = "done" /\ bad.ret = "error" /\ bad.op = c.op /\ bad.val = c.val /\ bad.ready = c.ready
      /\ good \in MyStates /\ good.st = "done" /\ good.ret = "ok" /\ good.op = c.op /\ good.val = c.val /\ good.ready = c.ready
  BY <1>1, MyOverIs
<1>9. MyKnows(bad, myRow', mySeen'[g], g, myGone')
  <2>1. bad.ret # "ok"
    BY <1>8
  <2> QED
    BY <1>1, <1>2, <1>8, <2>1, MyKnowsNext
<1>10. c.op # "upsert" \/ c.val \in mySeen'[g] \/ g \in myGone' => MyKnows(good, myRow', mySeen'[g], g, myGone')
  BY <1>1, <1>2, <1>8, MyKnowsNext
<1>11. CASE out # "ok"
  BY <1>3, <1>8, <1>9, <1>11
<1>12. CASE out = "ok" /\ stmt = "insert" /\ myRow # "none"
  <2>1. UNCHANGED <<myRow, mySeen, myGone>> /\ MyCallSet(g, MyOnDup(c))
    BY <1>3, <1>12
  <2> PICK d : d = [c EXCEPT !.st = "again"]
    OBVIOUS
  <2>2. d \in MyStates /\ d.st = "again" /\ d.op = c.op /\ d.val = c.val /\ d.ready = c.ready /\ d.ret = c.ret
    BY <1>1 DEF MyStates
  <2>3. MyKnows(d, myRow', mySeen'[g], g, myGone')
    BY <1>1, <1>2, <1>7, <1>12, <2>1, <2>2, MyKnowsNext
  <2>4. MyOnDup(c) \in {d, bad}
    BY DEF MyOnDup
  <2> QED
    BY <1>8, <1>9, <2>1, <2>2, <2>3, <2>4
<1>13. CASE out = "ok" /\ ~(stmt = "insert" /\ myRow # "none") /\ ~MyAffected(stmt, c.val, counts)
  <2>1. MyCallSet(g, MyNoRow(c))
    BY <1>3, <1>13
  <2> PICK d : d = [c EXCEPT !.st = "insert"]
    OBVIOUS
  <2>2. d \in MyStates /\ d.st = "insert" /\ d.op = c.op /\ d.val = c.val /\ d.ready = c.ready /\ d.ret = c.ret
    BY <1>1 DEF MyStates
  <2>3. MyKnows(d, myRow', mySeen'[g], g, myGone')
    <3>1. d.st \in {"again", "insert"} /\ d.st \notin {"done", "again"}
      BY <2>2
    <3> QED
      BY <1>1, <1>2, <1>7, <2>2, <3>1, MyKnowsNext
  <2>4. CASE c.op = "upsert" /\ c.st = "update"
    <3>1. MyNoRow(c) \in {d, bad}
      BY <2>4 DEF MyNoRow
    <3> QED
      BY <1>8, <1>9, <2>1, <2>2, <2>3, <3>1
  <2>5. CASE ~(c.op = "upsert" /\ c.st = "update")
    <3>1. MyNoRow(c) = good
      BY <2>5 DEF MyNoRow
    <3>2. c.op # "upsert" \/ c.val \in mySeen'[g] \/ g \in myGone'
      <4>1. SUFFICES ASSUME c.op = "upsert" PROVE c.val \in mySeen'[g] \/ g \in myGone'
        OBVIOUS
      <4>2. c.st \in {"merge", "insert", "again"}
        BY <1>1, <1>2, <2>5, <4>1 DEF MyKnows, MyUpserting
      <4>3. stmt \notin {"insert", "merge"}
        BY <1>13 DEF MyAffected
      <4>4. c.st = "again" /\ stmt = "update"
        BY <4>2, <4>3
      <4>5. CASE myRow = "none"
        <5>1. g \in myGone
          BY <1>1, <4>1, <4>4, <4>5 DEF MyKnows, MyUpserting
        <5> QED
          BY <1>3, <4>4, <4>5, <5>1
      <4>6. CASE myRow # "none"
        BY <1>3, <1>5, <1>13, <4>4, <4>6
      <4> QED
        BY <4>5, <4>6
    <3> QED
      BY <1>8, <1>10, <2>1, <3>1, <3>2
  <2> QED
    BY <2>4, <2>5
<1>14. CASE out = "ok" /\ ~(stmt = "insert" /\ myRow # "none") /\ MyAffected(stmt, c.val, counts)
  <2>1. MyCallSet(g, good)
    BY <1>3, <1>14
  <2>2. ~(stmt = "update" /\ myRow = "none")
    BY <1>14 DEF MyAffected
  <2>3. c.val \in mySeen'[g]
    BY <1>3, <1>5, <1>14, <2>2
  <2> QED
    BY <1>8, <1>10, <2>1, <2>3
<1> QED
  BY <1>3, <1>11, <1>12, <1>13, <1>14

\* When the row changes, every call that is under way sees it.
LEMMA MySetRowKnows ==
    ASSUME MyInv, NEW row \in MyRows, MySetRow(row), NEW k \in MyCallers
    PROVE  MyKnows(myCall[k], myRow', mySeen'[k], k, myGone')
<1>1. MyKnows(myCall[k], myRow, mySeen[k], k, myGone)
  BY DEF MyInv
<1>2. /\ mySeen' = [h \in MyCallers |-> mySeen[h] \union IF MyActive(h) THEN {row} ELSE {}] /\ myRow' = row
      /\ myGone' = IF row = "none" THEN myGone \union {h \in MyCallers : MyActive(h)} ELSE myGone
  BY DEF MySetRow
<1>3. mySeen[k] \subseteq mySeen'[k] /\ (MyActive(k) => row \in mySeen'[k])
  BY <1>2
<1>4. (k \in myGone => k \in myGone') /\ (row = "none" /\ MyActive(k) => k \in myGone')
  BY <1>2
<1>5. MyActive(k) <=> myCall[k].st \notin {"idle", "done"}
  BY DEF MyActive
<1> QED
  BY <1>1, <1>2, <1>3, <1>4, <1>5, MyKnowsMore

\* A statement.
LEMMA MyExecStep == ASSUME MyInv, NEW g \in MyCallers, MyExec(g) PROVE MyInv'
<1>1. PICK d \in MyStates : MyCallSet(g, d) /\ MyKnows(d, myRow', mySeen'[g], g, myGone')
  BY MyExecKnows
<1>2. UNCHANGED myDbVars
  BY DEF MyExec
<1>3. UNCHANGED <<myRow, mySeen, myGone>> \/ MySetRow(myCall[g].val)
  BY DEF MyExec
<1>4. CASE UNCHANGED <<myRow, mySeen, myGone>>
  <2>1. myRow' \in MyRows /\ mySeen' = [k \in MyCallers |-> mySeen'[k]]
    BY <1>4 DEF MyInv, MyTypes
  <2>2. \A k \in MyCallers : MyKnows(myCall[k], myRow', mySeen'[k], k, myGone')
    BY <1>4 DEF MyInv
  <2> QED
    BY <1>1, <1>2, <2>1, <2>2, MyOneStep
<1>5. CASE MySetRow(myCall[g].val)
  <2>1. myCall[g].st \in {"update", "delete", "insert", "merge", "again"}
    BY DEF MyExec
  <2>2. myCall[g].val \in MyRows
    BY <2>1 DEF MyInv, MyKnows
  <2>3. \A k \in MyCallers : MyKnows(myCall[k], myRow', mySeen'[k], k, myGone')
    BY <1>5, <2>2, MySetRowKnows
  <2>4. myRow' \in MyRows /\ mySeen' = [k \in MyCallers |-> mySeen'[k]]
    BY <1>5, <2>2 DEF MySetRow
  <2> QED
    BY <1>1, <1>2, <2>3, <2>4, MyOneStep
<1> QED
  BY <1>3, <1>4, <1>5

\* A change by another process.
LEMMA MyOtherStep == ASSUME MyInv, MyOther PROVE MyInv'
<1>1. PICK row \in MyRows : MySetRow(row)
  BY DEF MyOther, MyRows
<1>2. UNCHANGED myDbVars /\ myCall' = myCall
  BY DEF MyOther
<1>3. \A k \in MyCallers : MyKnows(myCall'[k], myRow', mySeen'[k], k, myGone')
  BY <1>1, <1>2, MySetRowKnows
<1>4. myRow' \in MyRows /\ DOMAIN mySeen' = MyCallers /\ mySeen' = [k \in MyCallers |-> mySeen'[k]]
  BY <1>1 DEF MySetRow
<1>5. /\ myConf' = myConf /\ myStart' = myStart /\ myHandles' = myHandles /\ myWrite' = myWrite
      /\ myRead' = myRead /\ myClosed' = myClosed /\ myEarly' = myEarly
  BY <1>2 DEF myDbVars
<1>6. MyTypes' /\ MyOpened'
  BY <1>2, <1>4, <1>5 DEF MyInv, MyTypes, MyOpened
<1> QED
  BY <1>3, <1>6 DEF MyInv

\* The first Start, Close, and nothing that the calls know of.
LEMMA MyDbStep ==
    ASSUME MyInv, UNCHANGED <<myConf, myRow, myCall, mySeen, myGone>>, myWrite' \in SUBSET MyDbs, myRead' \in SUBSET MyDbs,
           MyOpened'
    PROVE  MyInv'
<1>1. MyTypes'
  BY DEF MyInv, MyTypes
<1>2. \A g \in MyCallers : MyKnows(myCall[g], myRow, mySeen[g], g, myGone)'
  BY DEF MyInv
<1> QED
  BY <1>1, <1>2 DEF MyInv

\* A list has a number of hosts.
LEMMA MyHostsIs == ASSUME NEW parts \in Seq(STRING) PROVE MyHosts(parts) \in Nat
<1>1. Len(parts) \in Nat /\ DOMAIN parts = 1..Len(parts)
  OBVIOUS
<1>2. IsFiniteSet(1..Len(parts))
  <2>1. Len(parts) \in Int /\ 1 \in Int
    BY <1>1
  <2> QED
    BY <2>1, FS_Interval
<1>3. IsFiniteSet({i \in DOMAIN parts : parts[i] # ""})
  <2>1. {i \in DOMAIN parts : parts[i] # ""} \subseteq 1..Len(parts)
    BY <1>1
  <2> QED
    BY <1>2, <2>1, FS_Subset
<1> QED
  BY <1>3, FS_CardinalityType DEF MyHosts

\* The handles of a list.
LEMMA MyAllIs ==
    ASSUME NEW kind \in {"m", "s"}, NEW parts, MyHosts(parts) \in Nat
    PROVE  MyAll(kind, parts) \in SUBSET MyDbs /\ (MyHosts(parts) > 0 => MyAll(kind, parts) # {})
<1> PICK n \in Nat : n = MyHosts(parts)
  OBVIOUS
<1>1. MyAll(kind, parts) = {<<kind, i>> : i \in 1..n}
  BY DEF MyAll
<1>2. \A i \in 1..n : <<kind, i>> \in MyDbs
  BY DEF MyDbs
<1>3. MyAll(kind, parts) \in SUBSET MyDbs
  BY <1>1, <1>2
<1>4. n > 0 => <<kind, 1>> \in MyAll(kind, parts)
  BY <1>1
<1> QED
  BY <1>3, <1>4

\* The lists of the configuration are finite.
LEMMA MyConfHosts == ASSUME MyInv PROVE MyHosts(myConf.masters) \in Nat /\ MyHosts(myConf.slaves) \in Nat
<1>1. myConf.masters \in Seq(STRING) /\ myConf.slaves \in Seq(STRING)
  BY MyAssumption DEF MyInv, MyTypes
<1> QED
  BY <1>1, MyHostsIs

\* startOnce.
LEMMA MyBeginStep == ASSUME MyInv, MyBegin PROVE MyInv'
<1>1. myWrite' \in SUBSET MyDbs /\ myRead' \in SUBSET MyDbs
  BY DEF MyBegin, MyInv, MyTypes
<1>2. /\ myStart = "no" /\ (myStart' = "failed" \/ (myStart' = "masters" /\ MyHosts(myConf.masters) > 0))
      /\ myConf' = myConf /\ myClosed' = myClosed /\ myEarly' = myEarly
  BY DEF MyBegin
<1>3. ~(myClosed /\ ~myEarly)
  BY <1>2 DEF MyInv, MyOpened
<1>4. MyOpened'
  BY <1>2, <1>3 DEF MyOpened
<1>5. UNCHANGED <<myConf, myRow, myCall, mySeen, myGone>>
  BY DEF MyBegin
<1> QED
  BY <1>1, <1>4, <1>5, MyDbStep

\* One more handle, or the end of the first Start.
LEMMA MyOpenStep == ASSUME MyInv, MyOpen PROVE MyInv'
<1> PICK kind : kind = IF myStart = "masters" THEN "m" ELSE "s"
  OBVIOUS
<1> PICK next : next = Cardinality({h \in myHandles : h[1] = kind}) + 1
  OBVIOUS
<1> PICK all : all = MyAll("m", myConf.masters)
  OBVIOUS
<1>1. /\ myStart \in {"masters", "slaves"} /\ UNCHANGED <<myConf, myRow, myCall, mySeen, myGone>>
      /\ myConf' = myConf /\ myClosed' = myClosed /\ myEarly' = myEarly
  BY DEF MyOpen
<1>2. \/ myStart' = "failed" /\ myWrite' = myWrite /\ myRead' = myRead
      \/ /\ myWrite' = IF kind = "m" THEN MyStored(<<kind, next>>) ELSE myWrite
         /\ \/ myStart' = myStart
            \/ /\ myStart' \in {"slaves", "done"}
               /\ next = MyHosts(IF kind = "m" THEN myConf.masters ELSE myConf.slaves)
         /\ myRead' = all \/ myRead' = {}
  BY DEF MyOpen
<1>3. MyHosts(myConf.masters) \in Nat
  BY MyConfHosts
<1>4. all \in SUBSET MyDbs /\ (MyHosts(myConf.masters) > 0 => all # {})
  BY <1>3, MyAllIs
<1>5. /\ MyStored(<<kind, next>>) \in {{}, all}
      /\ (kind = "m" /\ next = MyHosts(myConf.masters) => MyStored(<<kind, next>>) = all)
  BY DEF MyStored
<1>6. myWrite \in SUBSET MyDbs /\ myRead \in SUBSET MyDbs
  BY DEF MyInv, MyTypes
<1>7. myWrite' \in SUBSET MyDbs
  BY <1>2, <1>4, <1>5, <1>6
<1>8. myRead' \in SUBSET MyDbs
  BY <1>2, <1>4, <1>6
<1>9. ~(myClosed /\ ~myEarly)
  BY <1>1 DEF MyInv, MyOpened
<1>10. /\ myStart = "masters" => MyHosts(myConf.masters) > 0
       /\ myStart = "slaves" => myWrite # {}
  BY DEF MyInv, MyOpened
<1>11. myStart' \in {"slaves", "done"} => myWrite' # {}
  <2>1. CASE myStart = "masters"
    BY <1>2, <1>4, <1>5, <1>10, <2>1
  <2>2. CASE myStart = "slaves"
    BY <1>2, <1>10, <2>2
  <2> QED
    BY <1>1, <2>1, <2>2
<1>12. myStart' = "masters" => myStart = "masters"
  BY <1>2
<1>13. MyOpened'
  BY <1>1, <1>9, <1>10, <1>11, <1>12 DEF MyOpened
<1> QED
  BY <1>1, <1>7, <1>8, <1>13, MyDbStep

\* closeOnce.
LEMMA MyCloseStep == ASSUME MyInv, MyClose PROVE MyInv'
<1>1. /\ UNCHANGED <<myConf, myRow, myCall, mySeen, myGone>> /\ myConf' = myConf /\ myStart' = myStart
      /\ myWrite' = myWrite /\ myRead' = myRead /\ myHandles' = myHandles \ (myWrite \cup myRead)
  BY DEF MyClose, MyCloses
<1>2. ~myEarly' => myStart \in {"done", "failed"}
  BY DEF MyClose
<1>3. myWrite' \in SUBSET MyDbs /\ myRead' \in SUBSET MyDbs
  BY <1>1 DEF MyInv, MyTypes
<1>4. myHandles' \cap (myWrite' \cup myRead') = {}
  BY <1>1
<1>5. /\ myStart' = "masters" => MyHosts(myConf'.masters) > 0
      /\ myStart' \in {"slaves", "done"} => myWrite' # {}
  BY <1>1 DEF MyInv, MyOpened
<1>6. MyOpened'
  BY <1>1, <1>2, <1>4, <1>5 DEF MyOpened
<1> QED
  BY <1>1, <1>3, <1>6, MyDbStep

\* At the beginning nobody has called.
LEMMA MyInitHolds == MyInit => MyInv
<1>1. SUFFICES ASSUME MyInit PROVE MyInv
  OBVIOUS
<1>2. MyIdle \in MyStates /\ MyIdle.st = "idle" /\ MyIdle.op = "none" /\ MyIdle.ret = "none"
  <2>1. {} \in SUBSET MyDbs /\ 0 \in Nat /\ FALSE \in BOOLEAN /\ "none" \in MyRows
    BY DEF MyRows
  <2> QED
    BY <2>1 DEF MyIdle, MyStates
<1>3. myCall = [g \in MyCallers |-> MyIdle] /\ mySeen = [g \in MyCallers |-> {}]
  BY <1>1 DEF MyInit
<1>4. myCall \in [MyCallers -> MyStates] /\ DOMAIN mySeen = MyCallers /\ mySeen = [g \in MyCallers |-> mySeen[g]]
  BY <1>2, <1>3
<1>5. MyTypes
  BY <1>1, <1>4 DEF MyInit, MyTypes, MyRows
<1>6. MyOpened
  BY <1>1 DEF MyInit, MyOpened
<1>7. \A g \in MyCallers : MyKnows(myCall[g], myRow, mySeen[g], g, myGone)
  BY <1>2, <1>3 DEF MyKnows
<1> QED
  BY <1>5, <1>6, <1>7 DEF MyInv

\* The invariant is what MyHonest asks for.
LEMMA MyInvHonest == MyInv => MyHonest
<1>1. SUFFICES ASSUME MyInv PROVE MyHonest
  OBVIOUS
<1>0. MyRetry \in Nat
  BY MyAssumption
<1>2. ASSUME NEW g \in MyCallers PROVE MyKnows(myCall[g], myRow, mySeen[g], g, myGone) /\ myCall[g] \in MyStates
  BY <1>1 DEF MyInv, MyTypes
<1>3. MyReadHonest
  BY <1>2 DEF MyReadHonest, MyDone, MyKnows, MyReading
<1>4. MyReadTries
  <2>1. SUFFICES ASSUME NEW g \in MyCallers, myCall[g].op = "query" PROVE myCall[g].steps <= 2 * (MyRetry + 1)
    BY DEF MyReadTries
  <2>2. MyReading(myCall[g], mySeen[g])
    BY <1>2, <2>1 DEF MyKnows
  <2>3. myCall[g].turn \in Nat /\ myCall[g].steps \in Nat
    BY <1>2 DEF MyStates
  <2>4. CASE myCall[g].st # "query"
    BY <2>2, <2>4 DEF MyReading
  <2>5. CASE myCall[g].st = "query" /\ myCall[g].moved
    BY <1>0, <2>2, <2>3, <2>5 DEF MyReading
  <2>6. CASE myCall[g].st = "query" /\ ~myCall[g].moved
    BY <1>0, <2>2, <2>3, <2>6 DEF MyReading
  <2> QED
    BY <2>4, <2>5, <2>6
<1>5. MyUpsertLands
  BY <1>2 DEF MyUpsertLands, MyDone, MyKnows, MyUpserting
<1>6. MyTxWhole
  BY <1>2 DEF MyTxWhole, MyDone, MyKnows, MyCommitting, MyWhole
<1>7. MyNoHandle
  BY <1>2 DEF MyNoHandle, MyKnows
<1>8. MyCloseLeaves
  BY <1>1 DEF MyInv, MyOpened, MyCloseLeaves
<1> QED
  BY <1>3, <1>4, <1>5, <1>6, <1>7, <1>8 DEF MyHonest

\* Every step of the client, of its callers and of other processes preserves the invariant.
LEMMA MyNextHolds == ASSUME MyInv, MyNext PROVE MyInv'
<1>1. CASE MyBegin \/ MyOpen \/ MyClose \/ MyOther
  BY <1>1, MyBeginStep, MyOpenStep, MyCloseStep, MyOtherStep
<1>2. CASE \E g \in MyCallers : MyQuery(g) \/ MyAttempt(g) \/ MyScan(g)
  BY <1>2, MyQueryStep, MyAttemptStep, MyScanStep
<1>3. CASE \E g \in MyCallers : MyUpdate(g) \/ MyDelete(g) \/ MyAdd(g) \/ MyInsertOrUpdateOnDup(g) \/ MyExec(g)
  BY <1>3, MyStatementStep, MyExecStep
<1>4. CASE \E g \in MyCallers : MyExecTransaction(g) \/ MyFunction(g) \/ MyDefer(g)
  BY <1>4, MyTxStep, MyFunctionStep, MyDeferStep
<1> QED
  BY <1>1, <1>2, <1>3, <1>4 DEF MyNext

\* The client of MySQL is honest: a read that reports no error gives a row there was
\* during the call, within a bounded number of attempts; an upsert that reports none
\* made the row what it was told unless somebody deleted it meanwhile; a transaction
\* keeps all of its statements or none unless its function panicked; no call panics
\* for want of a handle once the client has started; and Close leaves no handle open
\* that a call could use. For every configuration, any number of callers and any
\* interleaving with other processes (db.go:349-957, dbwrap.go:275-372).
THEOREM MysqlHonest == MySpec => []MyHonest
<1>1. MyInv /\ [MyNext]_myVars => MyInv'
  <2>1. SUFFICES ASSUME MyInv, [MyNext]_myVars PROVE MyInv'
    OBVIOUS
  <2>2. CASE MyNext
    BY <2>1, <2>2, MyNextHolds
  <2>3. CASE UNCHANGED myVars
    <3>1. /\ myConf' = myConf /\ myStart' = myStart /\ myHandles' = myHandles /\ myWrite' = myWrite /\ myRead' = myRead
          /\ myClosed' = myClosed /\ myEarly' = myEarly /\ myRow' = myRow /\ myCall' = myCall /\ mySeen' = mySeen
          /\ myGone' = myGone
      BY <2>3 DEF myVars
    <3>2. MyOpened'
      BY <2>1, <3>1 DEF MyInv, MyOpened
    <3>3. myWrite' \in SUBSET MyDbs /\ myRead' \in SUBSET MyDbs
      BY <2>1, <3>1 DEF MyInv, MyTypes
    <3> QED
      BY <2>1, <3>1, <3>2, <3>3, MyDbStep
  <2> QED
    BY <2>1, <2>2, <2>3
<1> QED
  BY <1>1, MyInitHolds, MyInvHonest, PTL DEF MySpec

-----------------------------------------------------------------------------
(* The client of the redis cluster. *)

RcFields == {"st", "op", "keys", "val", "got", "ran", "ret", "err"}
RcData == RcVals \cup {"nil"}

\* A call under way: a command that has not run, or was not known, had no effect;
\* what an MGet has got is a failure or a value of its key, and what an MSet or MDel
\* has got is a failure or the answer to a command that ran.
RcExecuting(c, store, seen) ==
    /\ \E n \in Nat : DOMAIN c.keys = 1..n
    /\ DOMAIN c.got = DOMAIN c.keys /\ DOMAIN c.ran = DOMAIN c.keys
    /\ \A i \in DOMAIN c.keys : c.got[i] \in {"wait", "noscript"} => ~c.ran[i]
    /\ c.op \in {"EvalSha", "Eval"} => DOMAIN c.keys = {1}
    /\ c.op \in {"MGet", "MSet", "MDel"} => \A i \in DOMAIN c.keys : c.keys[i] \in RcKeys
    /\ c.op \in {"MSet", "MDel"} => c.val \in RcData
    /\ c.op = "MGet" => /\ \A k \in RcKeys : store[k] \in seen[k]
                        /\ \A i \in DOMAIN c.keys : c.got[i] \in {"wait", "fail"} \/ c.got[i] \in seen[c.keys[i]]
    /\ c.op \in {"MSet", "MDel"} =>
         \A i \in DOMAIN c.keys : c.got[i] \in {"wait", "fail"} \/ (c.got[i] = "ok" /\ c.ran[i])

\* The answer of an MGet, as RcMGetHonest asks for it.
RcTruth(keys, got, ret, seen) ==
    /\ DOMAIN ret = DOMAIN keys
    /\ \A j \in DOMAIN keys : \/ ret[j] \in seen[keys[j]]
                              \/ ret[j] = "nil" /\ got[j] = "fail" /\ \E i \in 1..(j - 1) : got[i] = "nil"

RcAnswer(c, seen) ==
    /\ c.op = "Eval" => c.got # <<"wait">>
    /\ c.op = "MGet" /\ c.err = "none" => RcTruth(c.keys, c.got, c.ret, seen)
    /\ c.op \in {"MSet", "MDel"} /\ c.err = "none" => \A i \in DOMAIN c.keys : c.ran[i] /\ c.got[i] = "ok"

RcSound(c, store, seen) ==
    /\ DOMAIN c = RcFields /\ c.st \in {"idle", "exec", "done"}
    /\ c.st = "idle" => c.op = "none"
    /\ c.st = "exec" => RcExecuting(c, store, seen)
    /\ c.st = "done" => RcAnswer(c, seen)

\* The calls under way with a failure that reportPerf has not been given yet.
RcSpoilt(c) == c.st = "exec" /\ \E i \in DOMAIN c.got : c.got[i] \in {"fail", "noscript"}
RcFailing == {g \in RcCallers : RcSpoilt(rcCall[g])}

RcTypes == /\ DOMAIN rcCall = RcCallers /\ rcCall = [g \in RcCallers |-> rcCall[g]]
           /\ rcStore \in [RcKeys -> RcData] /\ rcSeen \in [RcCallers -> [RcKeys -> SUBSET RcData]]
           /\ rcFails \in Nat /\ rcBad \in Nat

RcInv == /\ RcTypes /\ rcFails + Cardinality(RcFailing) <= rcBad
         /\ \A g \in RcCallers : RcSound(rcCall[g], rcStore, rcSeen[g])

\* A set of numbers has a least one, and one of the numbers up to n a greatest.
LEMMA RcLeast == ASSUME NEW S \in SUBSET Nat, S # {} PROVE \E m \in S : \A k \in S : m <= k
<1>1. PICK m \in S : \A k \in S : ~(<<k, m>> \in OpToRel(<, Nat))
  BY NatLessThanWellFounded, WFMin
<1>2. ASSUME NEW k \in S PROVE m <= k
  <2>1. ~(k < m)
    BY <1>1 DEF OpToRel
  <2> QED
    BY <2>1
<1> QED
  BY <1>2

\* The greatest.
LEMMA RcGreatest == ASSUME NEW n \in Nat, NEW S \in SUBSET (1..n), S # {} PROVE \E m \in S : \A k \in S : k <= m
<1> PICK T : T = {n - k : k \in S}
  OBVIOUS
<1>1. T \in SUBSET Nat /\ T # {}
  <2>1. \A k \in S : n - k \in Nat
    OBVIOUS
  <2>2. PICK k \in S : TRUE
    OBVIOUS
  <2>3. n - k \in T
    OBVIOUS
  <2> QED
    BY <2>1, <2>3
<1>2. PICK t \in T : \A k \in T : t <= k
  BY <1>1, RcLeast
<1>3. PICK m \in S : t = n - m
  BY <1>2
<1>4. ASSUME NEW k \in S PROVE k <= m
  <2>1. t <= n - k
    BY <1>2
  <2> QED
    BY <1>3, <2>1
<1> QED
  BY <1>4

\* Exec's error is the first among the answers, or none.
LEMMA RcExecErrIs ==
    ASSUME NEW n \in Nat, NEW got, DOMAIN got = 1..n
    PROVE  \/ RcExecErr(got) = "none" /\ \A i \in 1..n : got[i] \notin RcErrors \cup {"nil"}
           \/ \E i \in 1..n : /\ RcExecErr(got) = got[i] /\ got[i] \in RcErrors \cup {"nil"}
                              /\ \A j \in 1..n : got[j] \in RcErrors \cup {"nil"} => i <= j
<1> PICK bad : bad = {i \in DOMAIN got : got[i] \in RcErrors \union {"nil"}}
  OBVIOUS
<1>1. RcExecErr(got) = IF bad = {} THEN "none" ELSE got[CHOOSE i \in bad : \A j \in bad : i <= j]
  BY DEF RcExecErr
<1>2. CASE bad = {}
  BY <1>1, <1>2
<1>3. CASE bad # {}
  <2>1. bad \in SUBSET Nat
    OBVIOUS
  <2>2. \E i \in bad : \A j \in bad : i <= j
    BY <1>3, <2>1, RcLeast
  <2> PICK i : i = CHOOSE m \in bad : \A j \in bad : m <= j
    OBVIOUS
  <2>3. i \in bad /\ \A j \in bad : i <= j
    BY <2>2
  <2>4. i \in 1..n /\ got[i] \in RcErrors \cup {"nil"}
    BY <2>3
  <2>5. \A j \in 1..n : got[j] \in RcErrors \cup {"nil"} => j \in bad
    OBVIOUS
  <2>6. RcExecErr(got) = got[i]
    BY <1>1, <1>3
  <2> QED
    BY <2>3, <2>4, <2>5, <2>6
<1> QED
  BY <1>2, <1>3

\* What MGet answers when Exec has returned no error but redis.Nil.
LEMMA RcValuesTrue ==
    ASSUME NEW n \in Nat, NEW keys, NEW got, DOMAIN keys = 1..n, DOMAIN got = 1..n, NEW seen,
           \A i \in 1..n : keys[i] \in RcKeys /\ (got[i] = "fail" \/ got[i] \in seen[keys[i]]),
           \A k \in RcKeys : seen[k] \in SUBSET RcData, RcExecErr(got) # "fail"
    PROVE  RcTruth(keys, got, RcValues(keys, got), seen)
<1>1. DOMAIN RcValues(keys, got) = DOMAIN keys
  BY DEF RcValues
<1>2. ASSUME NEW j \in 1..n
      PROVE  \/ RcValues(keys, got)[j] \in seen[keys[j]]
             \/ RcValues(keys, got)[j] = "nil" /\ got[j] = "fail" /\ \E i \in 1..(j - 1) : got[i] = "nil"
  <2> PICK hits : hits = {i \in DOMAIN keys : keys[i] = keys[j] /\ got[i] # "fail"}
    OBVIOUS
  <2>1. RcValues(keys, got)[j] = IF hits = {} THEN "nil" ELSE got[CHOOSE i \in hits : \A k \in hits : k <= i]
    BY DEF RcValues
  <2>2. CASE hits = {}
    <3>1. got[j] = "fail" /\ "fail" \in RcErrors
      BY <2>2 DEF RcErrors
    <3>2. PICK i \in 1..n : /\ RcExecErr(got) = got[i] /\ got[i] \in RcErrors \cup {"nil"}
                            /\ \A k \in 1..n : got[k] \in RcErrors \cup {"nil"} => i <= k
      BY <3>1, RcExecErrIs
    <3>3. got[i] # "fail" /\ got[i] \in RcData
      BY <3>2
    <3>4. got[i] = "nil"
      BY <3>2, <3>3, RcAssumption DEF RcData, RcErrors
    <3>5. i <= j /\ i # j
      BY <3>1, <3>2, <3>4
    <3> QED
      BY <2>1, <2>2, <3>1, <3>4, <3>5
  <2>3. CASE hits # {}
    <3>1. hits \in SUBSET (1..n)
      OBVIOUS
    <3>2. \E i \in hits : \A k \in hits : k <= i
      BY <2>3, <3>1, RcGreatest
    <3> PICK i : i = CHOOSE m \in hits : \A k \in hits : k <= m
      OBVIOUS
    <3>3. i \in hits
      BY <3>2
    <3>4. i \in 1..n /\ keys[i] = keys[j] /\ got[i] # "fail"
      BY <3>3
    <3> QED
      BY <2>1, <2>3, <3>4
  <2> QED
    BY <2>2, <2>3
<1> QED
  BY <1>1, <1>2 DEF RcTruth

\* One call changes, and with it what is known of the others and of the counters.
LEMMA RcOneStep ==
    ASSUME RcInv, NEW g \in RcCallers, NEW d, rcCall' = [rcCall EXCEPT ![g] = d],
           rcStore' \in [RcKeys -> RcData], rcSeen' \in [RcCallers -> [RcKeys -> SUBSET RcData]],
           RcSound(d, rcStore', rcSeen'[g]),
           \A h \in RcCallers : h # g => RcSound(rcCall[h], rcStore', rcSeen'[h]),
           NEW up \in {0, 1}, NEW down \in {0, 1}, rcBad' = rcBad + up, rcFails' = rcFails + down,
           RcSpoilt(d) => up = 1 \/ RcSpoilt(rcCall[g]), ~RcSpoilt(d) \/ down = 0, down = 1 => RcSpoilt(rcCall[g])
    PROVE  RcInv'
<1>1. DOMAIN rcCall = RcCallers /\ rcCall = [h \in RcCallers |-> rcCall[h]] /\ rcFails \in Nat /\ rcBad \in Nat
  BY DEF RcInv, RcTypes
<1>2. /\ DOMAIN rcCall' = RcCallers /\ rcCall' = [h \in RcCallers |-> rcCall'[h]] /\ rcCall'[g] = d
      /\ \A h \in RcCallers : h # g => rcCall'[h] = rcCall[h]
  BY <1>1
<1>3. RcTypes'
  BY <1>1, <1>2 DEF RcTypes
<1>4. \A h \in RcCallers : RcSound(rcCall'[h], rcStore', rcSeen'[h])
  BY <1>2
<1> PICK F : F = RcFailing
  OBVIOUS
<1>5. IsFiniteSet(F) /\ F \subseteq RcCallers /\ Cardinality(F) \in Nat /\ (g \in F <=> RcSpoilt(rcCall[g]))
  <2>1. F \subseteq RcCallers /\ (g \in F <=> RcSpoilt(rcCall[g]))
    BY DEF RcFailing
  <2>2. IsFiniteSet(F)
    BY <2>1, RcAssumption, FS_Subset
  <2> QED
    BY <2>1, <2>2, FS_CardinalityType
<1>6. \A h \in RcCallers : h \in RcFailing' <=> (h = g /\ RcSpoilt(d)) \/ (h # g /\ h \in F)
  BY <1>2 DEF RcFailing
<1>7. RcFailing' \subseteq RcCallers
  BY DEF RcFailing
<1>8. rcFails + Cardinality(F) <= rcBad
  BY DEF RcInv
<1>9. CASE RcSpoilt(d) /\ g \in F
  <2>1. RcFailing' = F
    BY <1>5, <1>6, <1>7, <1>9
  <2>2. rcFails' + Cardinality(RcFailing') <= rcBad'
    BY <1>1, <1>5, <1>8, <1>9, <2>1
  <2> QED
    BY <1>3, <1>4, <2>2 DEF RcInv
<1>10. CASE RcSpoilt(d) /\ g \notin F
  <2>1. RcFailing' = F \cup {g}
    BY <1>5, <1>6, <1>7, <1>10
  <2>2. Cardinality(RcFailing') = Cardinality(F) + 1
    BY <1>5, <1>10, <2>1, FS_AddElement
  <2>3. rcFails' + Cardinality(RcFailing') <= rcBad'
    BY <1>1, <1>5, <1>8, <1>10, <2>2
  <2> QED
    BY <1>3, <1>4, <2>3 DEF RcInv
<1>11. CASE ~RcSpoilt(d) /\ g \in F
  <2>1. RcFailing' = F \ {g}
    BY <1>5, <1>6, <1>7, <1>11
  <2>2. Cardinality(RcFailing') = Cardinality(F) - 1
    BY <1>5, <1>11, <2>1, FS_RemoveElement
  <2>3. rcFails' + Cardinality(RcFailing') <= rcBad'
    BY <1>1, <1>5, <1>8, <2>2
  <2> QED
    BY <1>3, <1>4, <2>3 DEF RcInv
<1>12. CASE ~RcSpoilt(d) /\ g \notin F
  <2>1. RcFailing' = F
    BY <1>5, <1>6, <1>7, <1>12
  <2>2. rcFails' + Cardinality(RcFailing') <= rcBad'
    BY <1>1, <1>5, <1>8, <1>12, <2>1
  <2> QED
    BY <1>3, <1>4, <2>2 DEF RcInv
<1> QED
  BY <1>9, <1>10, <1>11, <1>12

\* A step of one call that writes nothing and counts nothing.
LEMMA RcQuietStep ==
    ASSUME RcInv, NEW g \in RcCallers, NEW d, rcCall' = [rcCall EXCEPT ![g] = d], UNCHANGED <<rcStore, rcFails, rcBad>>,
           NEW s \in [RcKeys -> SUBSET RcData], rcSeen' = [rcSeen EXCEPT ![g] = s],
           RcSound(d, rcStore, s), ~RcSpoilt(d)
    PROVE  RcInv'
<1>1. rcSeen \in [RcCallers -> [RcKeys -> SUBSET RcData]] /\ rcStore \in [RcKeys -> RcData] /\ rcFails \in Nat /\ rcBad \in Nat
  BY DEF RcInv, RcTypes
<1>2. /\ rcSeen' \in [RcCallers -> [RcKeys -> SUBSET RcData]] /\ rcSeen'[g] = s
      /\ \A h \in RcCallers : h # g => rcSeen'[h] = rcSeen[h]
  BY <1>1
<1>3. rcStore' = rcStore
  OBVIOUS
<1>4. \A h \in RcCallers : h # g => RcSound(rcCall[h], rcStore', rcSeen'[h])
  BY <1>2, <1>3 DEF RcInv
<1>5. RcSound(d, rcStore', rcSeen'[g])
  BY <1>2, <1>3
<1>6. 0 \in {0, 1} /\ rcBad' = rcBad + 0 /\ rcFails' = rcFails + 0
  BY <1>1
<1>7. 0 = 1 => RcSpoilt(rcCall[g])
  OBVIOUS
<1> QED
  BY <1>1, <1>2, <1>3, <1>4, <1>5, <1>6, <1>7, RcOneStep

\* A call as it begins.
LEMMA RcBegunIs ==
    ASSUME NEW op, NEW keys, NEW v, NEW c, c = RcBegun(op, keys, v)
    PROVE  /\ DOMAIN c = RcFields /\ c.st = "exec" /\ c.op = op /\ c.keys = keys /\ c.val = v
           /\ c.got = [i \in DOMAIN keys |-> "wait"] /\ c.ran = [i \in DOMAIN keys |-> FALSE]
  BY DEF RcBegun, RcIdle, RcFields

\* A call begins.
LEMMA RcBeginStep ==
    ASSUME RcInv, NEW g \in RcCallers, NEW op, NEW keys, NEW v, RcBegin(g, op, keys, v), NEW n \in Nat, DOMAIN keys = 1..n,
           op \in {"EvalSha", "Eval"} => n = 1,
           op \in {"MGet", "MSet", "MDel"} => v \in RcData /\ \A i \in 1..n : keys[i] \in RcKeys
    PROVE  RcInv'
<1> PICK c : c = RcBegun(op, keys, v)
  OBVIOUS
<1>1. /\ DOMAIN c = RcFields /\ c.st = "exec" /\ c.op = op /\ c.keys = keys /\ c.val = v
      /\ c.got = [i \in DOMAIN keys |-> "wait"] /\ c.ran = [i \in DOMAIN keys |-> FALSE]
  BY RcBegunIs
<1>2. DOMAIN c.got = 1..n /\ DOMAIN c.ran = 1..n /\ \A i \in 1..n : c.got[i] = "wait" /\ ~c.ran[i]
  BY <1>1
<1> PICK s : s = [k \in RcKeys |-> IF op = "MGet" THEN {rcStore[k]} ELSE {}]
  OBVIOUS
<1>3. rcStore \in [RcKeys -> RcData]
  BY DEF RcInv, RcTypes
<1>4. s \in [RcKeys -> SUBSET RcData] /\ (op = "MGet" => \A k \in RcKeys : rcStore[k] \in s[k])
  BY <1>3
<1>5. op \in {"EvalSha", "Eval"} => DOMAIN keys = {1}
  OBVIOUS
<1>6. RcExecuting(c, rcStore, s)
  BY <1>1, <1>2, <1>4, <1>5 DEF RcExecuting
<1>7. RcSound(c, rcStore, s)
  BY <1>1, <1>6 DEF RcSound
<1>8. ~RcSpoilt(c)
  BY <1>2 DEF RcSpoilt
<1>9. rcCall' = [rcCall EXCEPT ![g] = c] /\ rcSeen' = [rcSeen EXCEPT ![g] = s] /\ UNCHANGED <<rcStore, rcFails, rcBad>>
  BY DEF RcBegin
<1> QED
  BY <1>4, <1>7, <1>8, <1>9, RcQuietStep

\* The classes of single commands are none of the pipelines and scripts.
LEMMA RcSinglesAre == ASSUME NEW class \in RcSingles PROVE class \in {"lookup", "assign", "direct", "scan"}
<1>1. PICK f \in {RcStrings, RcHashReads, RcHashWrites, RcNumbers, RcSorted, RcOthers} : class \in Range(f)
  BY DEF RcSingles
<1>2. PICK x \in DOMAIN f : class = f[x]
  BY <1>1 DEF Range
<1>3. CASE f = RcStrings
  BY <1>2, <1>3 DEF RcStrings
<1>4. CASE f = RcHashReads
  BY <1>2, <1>4 DEF RcHashReads
<1>5. CASE f = RcHashWrites
  BY <1>2, <1>5 DEF RcHashWrites
<1>6. CASE f = RcNumbers
  BY <1>2, <1>6 DEF RcNumbers
<1>7. CASE f = RcSorted
  BY <1>2, <1>7 DEF RcSorted
<1>8. CASE f = RcOthers
  BY <1>2, <1>8 DEF RcOthers
<1> QED
  BY <1>1, <1>3, <1>4, <1>5, <1>6, <1>7, <1>8

\* The lists of keys.
LEMMA RcListIs == ASSUME NEW ks \in RcLists PROVE \E n \in Nat : DOMAIN ks = 1..n /\ \A i \in 1..n : ks[i] \in RcKeys
<1>1. ks \in Seq(RcKeys)
  BY RcAssumption
<1>2. Len(ks) \in Nat /\ DOMAIN ks = 1..Len(ks) /\ \A i \in 1..Len(ks) : ks[i] \in RcKeys
  BY <1>1
<1> QED
  BY <1>2

\* The methods begin.
LEMMA RcMethodStep ==
    ASSUME RcInv, NEW g \in RcCallers, RcSingleCall(g) \/ RcMGet(g) \/ RcMSet(g) \/ RcMDel(g) \/ RcEval(g)
    PROVE  RcInv'
<1>1. CASE RcSingleCall(g)
  <2>1. PICK class \in RcSingles : RcBegin(g, class, <<"key">>, "nil")
    BY <1>1 DEF RcSingleCall
  <2>2. class \in {"lookup", "assign", "direct", "scan"}
    BY RcSinglesAre
  <2>3. DOMAIN <<"key">> = 1..1 /\ 1 \in Nat
    OBVIOUS
  <2>4. class \notin {"MGet", "MSet", "MDel", "EvalSha", "Eval"}
    BY <2>2
  <2> QED
    BY <2>1, <2>3, <2>4, RcBeginStep
<1>2. CASE RcMGet(g) \/ RcMDel(g) \/ RcMSet(g)
  <2>1. PICK ks \in RcLists, op \in {"MGet", "MDel", "MSet"}, v \in RcData : RcBegin(g, op, ks, v)
    BY <1>2 DEF RcMGet, RcMDel, RcMSet, RcData
  <2>2. PICK n \in Nat : DOMAIN ks = 1..n /\ \A i \in 1..n : ks[i] \in RcKeys
    BY RcListIs
  <2>3. op \notin {"EvalSha", "Eval"}
    BY <2>1
  <2> QED
    BY <2>1, <2>2, <2>3, RcBeginStep
<1>3. CASE RcEval(g)
  <2>1. RcBegin(g, "EvalSha", <<"script">>, "nil")
    BY <1>3 DEF RcEval
  <2>2. DOMAIN <<"script">> = 1..1 /\ 1 \in Nat /\ "EvalSha" \notin {"MGet", "MSet", "MDel"}
    OBVIOUS
  <2> QED
    BY <2>1, <2>2, RcBeginStep
<1> QED
  BY <1>1, <1>2, <1>3

\* What a node may answer: a command that took effect says so or fails, and
\* a GET answers with the value of its key.
LEMMA RcOutcomeIs ==
    ASSUME NEW g, NEW i, NEW o \in RcOutcomes(g, i)
    PROVE  /\ (o.ran => o.out \in {"ok", "fail"})
           /\ rcCall[g].op = "MGet" => o.out \in {rcStore[rcCall[g].keys[i]], "fail"}
           /\ rcCall[g].op \in {"MSet", "MDel"} => o.out = "fail" \/ (o.out = "ok" /\ o.ran)
<1> PICK op : op = rcCall[g].op
  OBVIOUS
<1> PICK safe : safe = {[out |-> "fail", ran |-> FALSE]}
  OBVIOUS
<1> PICK write : write = {[out |-> "ok", ran |-> TRUE], [out |-> "fail", ran |-> TRUE]}
  OBVIOUS
<1>1. ASSUME o \in safe \cup write
      PROVE  o.out \in {"ok", "fail"} /\ (o.out = "fail" \/ (o.out = "ok" /\ o.ran))
  <2>1. o \in safe \/ o = [out |-> "ok", ran |-> TRUE] \/ o = [out |-> "fail", ran |-> TRUE]
    BY <1>1
  <2>2. CASE o \in safe \/ o = [out |-> "fail", ran |-> TRUE]
    <3>1. o.out = "fail"
      BY <2>2
    <3> QED
      BY <3>1
  <2>3. CASE o = [out |-> "ok", ran |-> TRUE]
    BY <2>3
  <2> QED
    BY <2>1, <2>2, <2>3
<1>2. CASE o \in safe
  <2>1. o.out = "fail"
    BY <1>2
  <2> QED
    BY <2>1
<1>3. CASE o \in [out : RcRead(rcCall[g].keys[i]), ran : {FALSE}] /\ op = "MGet"
  <2>1. o.out \in {rcStore[rcCall[g].keys[i]], "fail"} /\ ~o.ran
    BY <1>3 DEF RcRead
  <2> QED
    BY <1>3, <2>1
<1>4. CASE o \in safe \cup write /\ op # "MGet"
  BY <1>1, <1>4
<1>5. CASE o = [out |-> "noscript", ran |-> FALSE] /\ op = "EvalSha"
  <2>1. ~o.ran
    BY <1>5
  <2> QED
    BY <1>5, <2>1
<1>6. CASE op \notin {"MGet", "MSet", "MDel", "Eval", "EvalSha"} /\ o \in [out : {"ok", "nil", "fail", "wrongtype", "odd"}, ran : {FALSE}]
  <2>1. ~o.ran
    BY <1>6
  <2> QED
    BY <1>6, <2>1
<1>7. \/ o \in safe
      \/ o \in [out : RcRead(rcCall[g].keys[i]), ran : {FALSE}] /\ op = "MGet"
      \/ o \in safe \cup write /\ op # "MGet"
      \/ o = [out |-> "noscript", ran |-> FALSE] /\ op = "EvalSha"
      \/ op \notin {"MGet", "MSet", "MDel", "Eval", "EvalSha"} /\ o \in [out : {"ok", "nil", "fail", "wrongtype", "odd"}, ran : {FALSE}]
  <2>1. CASE rcClient = "closed"
    BY <2>1 DEF RcOutcomes
  <2>2. CASE rcClient # "closed" /\ op = "MGet"
    BY <2>2 DEF RcOutcomes
  <2>3. CASE rcClient # "closed" /\ op \in {"MSet", "MDel", "Eval"}
    BY <2>3 DEF RcOutcomes
  <2>4. CASE rcClient # "closed" /\ op = "EvalSha"
    BY <2>4 DEF RcOutcomes
  <2>5. CASE rcClient # "closed" /\ op \notin {"MGet", "MSet", "MDel", "Eval", "EvalSha"}
    BY <2>5 DEF RcOutcomes
  <2> QED
    BY <2>1, <2>2, <2>3, <2>4, <2>5
<1> QED
  BY <1>2, <1>3, <1>4, <1>5, <1>6, <1>7

\* The call d is c with out for the answer to command i.
RcWith(c, d, i, out) ==
    /\ DOMAIN d = DOMAIN c /\ d.st = c.st /\ d.op = c.op /\ d.keys = c.keys /\ d.val = c.val
    /\ DOMAIN d.got = DOMAIN c.got /\ d.got[i] = out
    /\ \A j \in DOMAIN c.got : j # i => d.got[j] = c.got[j]

\* A call of which one command was answered, and what its commands did.
LEMMA RcAnsweredIs ==
    ASSUME NEW c, DOMAIN c = RcFields, NEW i, i \in DOMAIN c.got, NEW o, NEW d, d = RcAnswered(c, i, o)
    PROVE  RcWith(c, d, i, o.out)
<1>1. /\ DOMAIN d = DOMAIN c /\ d.st = c.st /\ d.op = c.op /\ d.keys = c.keys /\ d.val = c.val
      /\ d.got = [c.got EXCEPT ![i] = o.out]
  BY DEF RcAnswered, RcFields
<1> QED
  BY <1>1 DEF RcWith

\* The second part.
LEMMA RcAnsweredRan ==
    ASSUME NEW c, DOMAIN c = RcFields, NEW i, i \in DOMAIN c.ran, NEW o, NEW d, d = RcAnswered(c, i, o)
    PROVE  /\ DOMAIN d.ran = DOMAIN c.ran
           /\ d.ran[i] <=> c.ran[i] \/ o.ran
           /\ \A j \in DOMAIN c.ran : j # i => d.ran[j] = c.ran[j]
<1>1. d.ran = [c.ran EXCEPT ![i] = c.ran[i] \/ o.ran]
  BY DEF RcAnswered, RcFields
<1> QED
  BY <1>1

\* The store changes, and a call under way sees it.
LEMMA RcSoundMore ==
    ASSUME NEW c, NEW store, NEW seen, RcSound(c, store, seen), NEW store2, NEW seen2,
           \A k \in RcKeys : seen[k] \subseteq seen2[k], c.st = "done" => seen2 = seen,
           c.st = "exec" /\ c.op = "MGet" => \A k \in RcKeys : store2[k] \in seen2[k]
    PROVE  RcSound(c, store2, seen2)
<1>1. c.st = "exec" => RcExecuting(c, store2, seen2)
  <2>1. SUFFICES ASSUME c.st = "exec" PROVE RcExecuting(c, store2, seen2)
    OBVIOUS
  <2>2. RcExecuting(c, store, seen)
    BY <2>1 DEF RcSound
  <2>3. c.op = "MGet" => \A i \in DOMAIN c.keys : c.got[i] \in {"wait", "fail"} \/ c.got[i] \in seen2[c.keys[i]]
    BY <2>2 DEF RcExecuting
  <2> QED
    BY <2>1, <2>2, <2>3 DEF RcExecuting
<1>2. c.st = "done" => RcAnswer(c, seen2)
  BY DEF RcSound
<1> QED
  BY <1>1, <1>2 DEF RcSound

\* The call whose command was answered.
LEMMA RcAnsweredSound ==
    ASSUME NEW c, NEW store, NEW seen, RcSound(c, store, seen), c.st = "exec", NEW i, i \in DOMAIN c.keys, c.got[i] = "wait",
           NEW o, o.ran => o.out \in {"ok", "fail"}, c.op = "MGet" => o.out \in {store[c.keys[i]], "fail"},
           c.op \in {"MSet", "MDel"} => o.out = "fail" \/ (o.out = "ok" /\ o.ran),
           NEW store2, NEW seen2, \A k \in RcKeys : seen[k] \subseteq seen2[k],
           c.op = "MGet" => \A k \in RcKeys : store2[k] \in seen2[k]
    PROVE  RcSound(RcAnswered(c, i, o), store2, seen2)
<1>1. RcExecuting(c, store, seen) /\ DOMAIN c = RcFields
  BY DEF RcSound
<1>2. DOMAIN c.got = DOMAIN c.keys /\ DOMAIN c.ran = DOMAIN c.keys
  BY <1>1 DEF RcExecuting
<1> PICK d : d = RcAnswered(c, i, o)
  OBVIOUS
<1>3. /\ DOMAIN d = RcFields /\ d.st = c.st /\ d.op = c.op /\ d.keys = c.keys /\ d.val = c.val
      /\ DOMAIN d.got = DOMAIN c.got /\ d.got[i] = o.out /\ (\A j \in DOMAIN c.got : j # i => d.got[j] = c.got[j])
      /\ DOMAIN d.ran = DOMAIN c.ran /\ (d.ran[i] <=> c.ran[i] \/ o.ran) /\ \A j \in DOMAIN c.ran : j # i => (d.ran[j] <=> c.ran[j])
  <2>1. i \in DOMAIN c.got /\ i \in DOMAIN c.ran
    BY <1>2
  <2>2. RcWith(c, d, i, o.out)
    BY <1>1, <2>1, RcAnsweredIs
  <2>3. /\ DOMAIN d.ran = DOMAIN c.ran
        /\ d.ran[i] <=> c.ran[i] \/ o.ran
        /\ \A j \in DOMAIN c.ran : j # i => d.ran[j] = c.ran[j]
    BY <1>1, <2>1, RcAnsweredRan
  <2> QED
    BY <1>1, <2>2, <2>3 DEF RcWith
<1>4. ASSUME NEW j \in DOMAIN c.keys, d.got[j] \in {"wait", "noscript"} PROVE ~d.ran[j]
  <2>1. CASE j = i
    <3>1. ~c.ran[i]
      BY <1>1 DEF RcExecuting
    <3>2. ~o.ran
      BY <1>3, <1>4, <2>1
    <3> QED
      BY <1>3, <2>1, <3>1, <3>2
  <2>2. CASE j # i
    BY <1>1, <1>2, <1>3, <1>4, <2>2 DEF RcExecuting
  <2> QED
    BY <2>1, <2>2
<1>5. ASSUME c.op = "MGet", NEW j \in DOMAIN c.keys PROVE d.got[j] \in {"wait", "fail"} \/ d.got[j] \in seen2[c.keys[j]]
  <2>1. c.keys[j] \in RcKeys
    BY <1>1, <1>5 DEF RcExecuting
  <2>2. CASE j = i
    <3>1. store[c.keys[i]] \in seen[c.keys[i]]
      BY <1>1, <1>5, <2>1, <2>2 DEF RcExecuting
    <3> QED
      BY <1>3, <1>5, <2>1, <2>2, <3>1
  <2>3. CASE j # i
    <3>1. c.got[j] \in {"wait", "fail"} \/ c.got[j] \in seen[c.keys[j]]
      BY <1>1, <1>5 DEF RcExecuting
    <3> QED
      BY <1>2, <1>3, <2>1, <2>3, <3>1
  <2> QED
    BY <2>2, <2>3
<1>6. ASSUME c.op \in {"MSet", "MDel"}, NEW j \in DOMAIN c.keys
      PROVE  d.got[j] \in {"wait", "fail"} \/ (d.got[j] = "ok" /\ d.ran[j])
  <2>1. CASE j = i
    BY <1>3, <1>6, <2>1
  <2>2. CASE j # i
    BY <1>1, <1>2, <1>3, <1>6, <2>2 DEF RcExecuting
  <2> QED
    BY <2>1, <2>2
<1>7. RcExecuting(d, store2, seen2)
  BY <1>1, <1>2, <1>3, <1>4, <1>5, <1>6 DEF RcExecuting
<1> QED
  BY <1>3, <1>7 DEF RcSound

\* A command runs on its node.
LEMMA RcNodeStep == ASSUME RcInv, NEW g \in RcCallers, NEW i, RcNode(g, i) PROVE RcInv'
<1> DEFINE c == rcCall[g]
<1>1. c.st = "exec" /\ i \in DOMAIN c.keys /\ c.got[i] = "wait" /\ RcSound(c, rcStore, rcSeen[g])
  BY DEF RcNode, RcInv
<1>2. PICK o \in RcOutcomes(g, i) :
        /\ rcCall' = [rcCall EXCEPT ![g] = RcAnswered(c, i, o)]
        /\ rcStore' = IF o.ran /\ c.op \in {"MSet", "MDel"} THEN [rcStore EXCEPT ![c.keys[i]] = c.val] ELSE rcStore
        /\ rcBad' = rcBad + IF o.out \in RcErrors \ {"wrongtype", "odd"} THEN 1 ELSE 0
  BY DEF RcNode
<1>3. /\ rcSeen' = [h \in RcCallers |-> [k \in RcKeys |->
                     IF rcCall[h].st = "exec" /\ rcCall[h].op = "MGet" THEN rcSeen[h][k] \union {rcStore'[k]} ELSE rcSeen[h][k]]]
      /\ rcFails' = rcFails
  BY DEF RcNode
<1>4. rcStore \in [RcKeys -> RcData] /\ rcSeen \in [RcCallers -> [RcKeys -> SUBSET RcData]] /\ rcBad \in Nat /\ rcFails \in Nat
  BY DEF RcInv, RcTypes
<1>5. /\ (o.ran => o.out \in {"ok", "fail"})
      /\ (c.op = "MGet" => o.out \in {rcStore[c.keys[i]], "fail"})
      /\ (c.op \in {"MSet", "MDel"} => o.out = "fail" \/ (o.out = "ok" /\ o.ran))
  BY RcOutcomeIs
<1> HIDE DEF c
<1>6. c.op \in {"MSet", "MDel"} => c.keys[i] \in RcKeys /\ c.val \in RcData
  BY <1>1 DEF RcSound, RcExecuting
<1>7. rcStore' \in [RcKeys -> RcData]
  BY <1>2, <1>4, <1>6
<1>8. rcSeen' \in [RcCallers -> [RcKeys -> SUBSET RcData]]
  BY <1>3, <1>4, <1>7
<1>9. ASSUME NEW h \in RcCallers
      PROVE  /\ \A k \in RcKeys : rcSeen[h][k] \subseteq rcSeen'[h][k]
             /\ rcCall[h].st = "done" => rcSeen'[h] = rcSeen[h]
             /\ rcCall[h].st = "exec" /\ rcCall[h].op = "MGet" => \A k \in RcKeys : rcStore'[k] \in rcSeen'[h][k]
  <2>1. rcSeen'[h] = [k \in RcKeys |->
          IF rcCall[h].st = "exec" /\ rcCall[h].op = "MGet" THEN rcSeen[h][k] \union {rcStore'[k]} ELSE rcSeen[h][k]]
    BY <1>3
  <2>2. \A k \in RcKeys : rcSeen[h][k] \subseteq rcSeen'[h][k]
    BY <2>1
  <2>3. rcCall[h].st = "done" => rcSeen'[h] = rcSeen[h]
    <3>1. rcSeen[h] \in [RcKeys -> SUBSET RcData]
      BY <1>4
    <3> QED
      BY <2>1, <3>1
  <2>4. rcCall[h].st = "exec" /\ rcCall[h].op = "MGet" => \A k \in RcKeys : rcStore'[k] \in rcSeen'[h][k]
    BY <2>1
  <2> QED
    BY <2>2, <2>3, <2>4
<1>10. \A h \in RcCallers : h # g => RcSound(rcCall[h], rcStore', rcSeen'[h])
  BY <1>9, RcSoundMore DEF RcInv
<1> PICK d : d = RcAnswered(c, i, o)
  OBVIOUS
<1>11. RcSound(d, rcStore', rcSeen'[g])
  <2>1. c.op = "MGet" => \A k \in RcKeys : rcStore'[k] \in rcSeen'[g][k]
    BY <1>1, <1>9 DEF c
  <2>2. \A k \in RcKeys : rcSeen[g][k] \subseteq rcSeen'[g][k]
    BY <1>9
  <2> QED
    BY <1>1, <1>5, <2>1, <2>2, RcAnsweredSound
<1> PICK up \in {0, 1} : up = IF o.out \in RcErrors \ {"wrongtype", "odd"} THEN 1 ELSE 0
  OBVIOUS
<1>12. RcSpoilt(d) => up = 1 \/ RcSpoilt(c)
  <2>1. DOMAIN c = RcFields /\ DOMAIN c.got = DOMAIN c.keys /\ DOMAIN c.ran = DOMAIN c.keys
    BY <1>1 DEF RcSound, RcExecuting
  <2>2. RcWith(c, d, i, o.out)
    BY <1>1, <2>1, RcAnsweredIs
  <2>3. o.out \in {"fail", "noscript"} => up = 1
    BY DEF RcErrors
  <2> QED
    BY <1>1, <2>2, <2>3 DEF RcSpoilt, RcWith
<1>13. rcBad' = rcBad + up /\ rcFails' = rcFails + 0 /\ 0 \in {0, 1} /\ ~(0 = 1)
  BY <1>2, <1>3, <1>4
<1>14. RcSpoilt(d) => up = 1 \/ RcSpoilt(rcCall[g])
  BY <1>12 DEF c
<1> QED
  BY <1>2, <1>7, <1>8, <1>10, <1>11, <1>13, <1>14, RcOneStep

\* What a method answers without error is true.
LEMMA RcReplyTrue ==
    ASSUME NEW c, NEW store, NEW seen, RcExecuting(c, store, seen), \A k \in RcKeys : seen[k] \in SUBSET RcData,
           \A i \in DOMAIN c.got : c.got[i] # "wait", RcReply(c).err = "none"
    PROVE  /\ c.op = "MGet" => RcTruth(c.keys, c.got, RcReply(c).ret, seen)
           /\ c.op \in {"MSet", "MDel"} => \A i \in DOMAIN c.keys : c.ran[i] /\ c.got[i] = "ok"
<1> PICK e : e = RcExecErr(c.got)
  OBVIOUS
<1>1. PICK n \in Nat : DOMAIN c.keys = 1..n /\ DOMAIN c.got = 1..n
  BY DEF RcExecuting
<1>2. ASSUME c.op = "MGet" PROVE RcTruth(c.keys, c.got, RcReply(c).ret, seen)
  <2>1. RcReply(c) = IF e = "fail" THEN [ret |-> <<>>, err |-> e] ELSE [ret |-> RcValues(c.keys, c.got), err |-> "none"]
    BY <1>2 DEF RcReply
  <2>2. e # "fail"
    BY <2>1
  <2>3. RcReply(c).ret = RcValues(c.keys, c.got)
    BY <2>1, <2>2
  <2>4. \A i \in 1..n : c.keys[i] \in RcKeys /\ (c.got[i] = "fail" \/ c.got[i] \in seen[c.keys[i]])
    BY <1>1, <1>2 DEF RcExecuting
  <2>5. RcTruth(c.keys, c.got, RcValues(c.keys, c.got), seen)
    BY <1>1, <2>2, <2>4, RcValuesTrue
  <2> QED
    BY <2>3, <2>5
<1>3. ASSUME c.op \in {"MSet", "MDel"}, NEW i \in DOMAIN c.keys PROVE c.ran[i] /\ c.got[i] = "ok"
  <2>1. RcReply(c) = IF e # "none" THEN [ret |-> <<>>, err |-> e]
                     ELSE [ret |-> [j \in DOMAIN c.keys |-> "true"], err |-> "none"]
    BY <1>3 DEF RcReply, RcWriteErr
  <2>2. e = "none"
    BY <2>1
  <2>3. \A j \in 1..n : c.got[j] \notin RcErrors \cup {"nil"}
    BY <1>1, <2>2, RcExecErrIs DEF RcErrors
  <2>4. c.got[i] # "fail" /\ c.got[i] # "wait"
    BY <1>1, <1>3, <2>3 DEF RcErrors
  <2> QED
    BY <1>3, <2>4 DEF RcExecuting
<1> QED
  BY <1>2, <1>3

\* What changes when the commands of a call are done.
RcReturned(c, r) == [c EXCEPT !.st = "done", !.ret = r.ret, !.err = r.err]
RcFallen(c) == [c EXCEPT !.op = "Eval", !.got = <<"wait">>]
RcEnd(c, d, r) == /\ DOMAIN d = RcFields /\ d.st = "done" /\ d.op = c.op /\ d.keys = c.keys /\ d.got = c.got /\ d.ran = c.ran
                  /\ d.ret = r.ret /\ d.err = r.err
RcAgain(c, d) == /\ DOMAIN d = RcFields /\ d.st = c.st /\ d.op = "Eval" /\ d.keys = c.keys /\ d.ran = c.ran /\ d.got = <<"wait">>

\* The call is over.
LEMMA RcReturnedIs == ASSUME NEW c, DOMAIN c = RcFields, NEW r, NEW d, d = RcReturned(c, r) PROVE RcEnd(c, d, r)
<1>1. DOMAIN d = RcFields /\ d.st = "done" /\ d.op = c.op /\ d.keys = c.keys /\ d.got = c.got
  BY DEF RcReturned, RcFields
<1>2. d.ran = c.ran /\ d.ret = r.ret /\ d.err = r.err
  BY DEF RcReturned, RcFields
<1> QED
  BY <1>1, <1>2 DEF RcEnd

\* The call sends its script.
LEMMA RcFallenIs == ASSUME NEW c, DOMAIN c = RcFields, NEW d, d = RcFallen(c) PROVE RcAgain(c, d)
<1>1. DOMAIN d = RcFields /\ d.st = c.st /\ d.op = "Eval" /\ d.keys = c.keys
  BY DEF RcFallen, RcFields
<1>2. d.ran = c.ran /\ d.got = <<"wait">>
  BY DEF RcFallen, RcFields
<1> QED
  BY <1>1, <1>2 DEF RcAgain

\* An error that Exec returned was somebody's answer.
LEMMA RcErrorSpoils ==
    ASSUME NEW c, NEW store, NEW seen, RcExecuting(c, store, seen), c.st = "exec", RcExecErr(c.got) \in {"fail", "noscript"}
    PROVE  RcSpoilt(c) /\ \E i \in DOMAIN c.keys : c.got[i] = RcExecErr(c.got)
<1>1. PICK n \in Nat : DOMAIN c.keys = 1..n /\ DOMAIN c.got = 1..n
  BY DEF RcExecuting
<1>2. PICK i \in 1..n : c.got[i] = RcExecErr(c.got)
  BY <1>1, RcExecErrIs
<1> QED
  BY <1>1, <1>2 DEF RcSpoilt

\* The commands of a call are done: it returns, or Eval falls back.
LEMMA RcReturnStep == ASSUME RcInv, NEW g \in RcCallers, RcReturn(g) PROVE RcInv'
<1> DEFINE c == rcCall[g]
<1>1. c.st = "exec" /\ RcSound(c, rcStore, rcSeen[g]) /\ \A i \in DOMAIN c.got : c.got[i] # "wait"
  BY DEF RcReturn, RcInv
<1>2. /\ rcFails' = rcFails + RcReported(c) /\ UNCHANGED <<rcStore, rcSeen, rcBad>>
      /\ rcCall' = [rcCall EXCEPT ![g] = IF RcFallsBack(c) THEN RcFallen(c) ELSE RcReturned(c, RcReply(c))]
  BY DEF RcReturn, RcFallen, RcReturned
<1>3. rcStore \in [RcKeys -> RcData] /\ rcSeen \in [RcCallers -> [RcKeys -> SUBSET RcData]] /\ rcBad \in Nat /\ rcFails \in Nat
  BY DEF RcInv, RcTypes
<1>4. \A h \in RcCallers : h # g => RcSound(rcCall[h], rcStore', rcSeen'[h])
  BY <1>2 DEF RcInv
<1> HIDE DEF c
<1>5. DOMAIN c = RcFields /\ RcExecuting(c, rcStore, rcSeen[g])
  BY <1>1 DEF RcSound
<1> PICK down \in {0, 1} : down = RcReported(c)
  BY DEF RcReported
<1>6. down = 1 => RcSpoilt(c)
  BY <1>1, <1>5, RcErrorSpoils DEF RcReported
<1>7. ASSUME NEW d, rcCall' = [rcCall EXCEPT ![g] = d], RcSound(d, rcStore, rcSeen[g]), ~RcSpoilt(d) PROVE RcInv'
  <2>1. rcBad' = rcBad + 0 /\ rcFails' = rcFails + down /\ 0 \in {0, 1}
    BY <1>2, <1>3
  <2>2. RcSound(d, rcStore', rcSeen'[g])
    BY <1>2, <1>7
  <2>3. rcStore' \in [RcKeys -> RcData] /\ rcSeen' \in [RcCallers -> [RcKeys -> SUBSET RcData]]
    BY <1>2, <1>3
  <2>4. down = 1 => RcSpoilt(rcCall[g])
    BY <1>6 DEF c
  <2> QED
    BY <1>4, <1>7, <2>1, <2>2, <2>3, <2>4, RcOneStep
<1>8. CASE RcFallsBack(c)
  <2> PICK d : d = RcFallen(c)
    OBVIOUS
  <2>1. RcAgain(c, d)
    BY <1>5, RcFallenIs
  <2>2. c.op = "EvalSha" /\ RcExecErr(c.got) = "noscript"
    BY <1>8 DEF RcFallsBack
  <2>3. DOMAIN c.keys = {1} /\ DOMAIN c.ran = DOMAIN c.keys
    BY <1>5, <2>2 DEF RcExecuting
  <2>4. c.got[1] = "noscript"
    BY <1>1, <1>5, <2>2, <2>3, RcErrorSpoils
  <2>5. ~c.ran[1]
    BY <1>5, <2>3, <2>4 DEF RcExecuting
  <2>6. DOMAIN <<"wait">> = {1} /\ <<"wait">>[1] = "wait"
    OBVIOUS
  <2>7. DOMAIN d.got = DOMAIN d.keys /\ DOMAIN d.ran = DOMAIN d.keys /\ DOMAIN d.keys = {1} /\ d.got[1] = "wait" /\ ~d.ran[1]
    BY <2>1, <2>3, <2>5, <2>6 DEF RcAgain
  <2>8. 1 \in Nat /\ {1} = 1..1
    OBVIOUS
  <2>9. RcExecuting(d, rcStore, rcSeen[g])
    BY <2>1, <2>7, <2>8 DEF RcExecuting, RcAgain
  <2>10. RcSound(d, rcStore, rcSeen[g])
    BY <1>1, <2>1, <2>9 DEF RcSound, RcAgain
  <2>11. ~RcSpoilt(d)
    BY <2>7 DEF RcSpoilt
  <2> QED
    BY <1>2, <1>7, <1>8, <2>10, <2>11
<1>9. CASE ~RcFallsBack(c)
  <2> PICK r : r = RcReply(c)
    OBVIOUS
  <2> PICK d : d = RcReturned(c, r)
    OBVIOUS
  <2>1. RcEnd(c, d, r)
    BY <1>5, RcReturnedIs
  <2>2. \A k \in RcKeys : rcSeen[g][k] \in SUBSET RcData
    BY <1>3
  <2>3. r.err = "none" => /\ c.op = "MGet" => RcTruth(c.keys, c.got, r.ret, rcSeen[g])
                          /\ c.op \in {"MSet", "MDel"} => \A i \in DOMAIN c.keys : c.ran[i] /\ c.got[i] = "ok"
    BY <1>1, <1>5, <2>2, RcReplyTrue
  <2>4. c.op = "Eval" => c.got # <<"wait">>
    <3>1. SUFFICES ASSUME c.op = "Eval", c.got = <<"wait">> PROVE FALSE
      OBVIOUS
    <3>2. 1 \in DOMAIN c.got /\ c.got[1] = "wait"
      BY <3>1
    <3> QED
      BY <1>1, <3>2
  <2>5. RcAnswer(d, rcSeen[g])
    BY <2>1, <2>3, <2>4 DEF RcAnswer, RcEnd
  <2>6. RcSound(d, rcStore, rcSeen[g]) /\ ~RcSpoilt(d)
    BY <2>1, <2>5 DEF RcSound, RcEnd, RcSpoilt
  <2> QED
    BY <1>2, <1>7, <1>9, <2>6
<1> QED
  BY <1>8, <1>9

\* MGet2, MSet2 and MDel2, which send nothing, and the caller who takes an answer.
LEMMA RcEmptyStep ==
    ASSUME RcInv, NEW g \in RcCallers, RcMGet2(g) \/ RcMSet2(g) \/ RcMDel2(g) \/ RcTake(g)
    PROVE  RcInv'
<1>1. rcSeen \in [RcCallers -> [RcKeys -> SUBSET RcData]]
  BY DEF RcInv, RcTypes
<1>2. ASSUME NEW op \in {"MGet2", "MSet2", "MDel2"}, NEW zero, RcPerNode(g, op, zero) PROVE RcInv'
  <2>1. PICK ks \in RcLists :
          rcCall' = [rcCall EXCEPT ![g] = [RcIdle EXCEPT !.st = "done", !.op = op, !.keys = ks, !.ret = [i \in DOMAIN ks |-> zero]]]
    BY <1>2 DEF RcPerNode
  <2> PICK ret : ret = [i \in DOMAIN ks |-> zero]
    OBVIOUS
  <2> PICK d : d = [RcIdle EXCEPT !.st = "done", !.op = op, !.keys = ks, !.ret = ret]
    OBVIOUS
  <2>2. DOMAIN d = RcFields /\ d.st = "done" /\ d.op = op
    BY DEF RcIdle, RcFields
  <2>3. RcSound(d, rcStore, rcSeen[g]) /\ ~RcSpoilt(d)
    BY <2>2 DEF RcSound, RcAnswer, RcSpoilt
  <2>4. rcSeen' = [rcSeen EXCEPT ![g] = rcSeen[g]] /\ rcSeen[g] \in [RcKeys -> SUBSET RcData]
    BY <1>1, <1>2 DEF RcPerNode
  <2>5. UNCHANGED <<rcStore, rcFails, rcBad>>
    BY <1>2 DEF RcPerNode
  <2> QED
    BY <2>1, <2>3, <2>4, <2>5, RcQuietStep
<1>3. CASE RcTake(g)
  <2> PICK s : s = [k \in RcKeys |-> {}]
    OBVIOUS
  <2>1. s \in [RcKeys -> SUBSET RcData]
    OBVIOUS
  <2>2. DOMAIN RcIdle = RcFields /\ RcIdle.st = "idle" /\ RcIdle.op = "none"
    BY DEF RcIdle, RcFields
  <2>3. RcSound(RcIdle, rcStore, s) /\ ~RcSpoilt(RcIdle)
    BY <2>2 DEF RcSound, RcSpoilt
  <2>4. rcCall' = [rcCall EXCEPT ![g] = RcIdle] /\ rcSeen' = [rcSeen EXCEPT ![g] = s] /\ UNCHANGED <<rcStore, rcFails, rcBad>>
    BY <1>3 DEF RcTake
  <2> QED
    BY <2>1, <2>3, <2>4, RcQuietStep
<1> QED
  BY <1>2, <1>3 DEF RcMGet2, RcMSet2, RcMDel2

\* What starts or closes the client or flushes the script concerns no call.
LEMMA RcStutter == ASSUME RcInv, UNCHANGED <<rcStore, rcCall, rcSeen, rcFails, rcBad>> PROVE RcInv'
<1>1. RcTypes'
  BY DEF RcInv, RcTypes
<1>2. RcFailing' = RcFailing
  BY DEF RcFailing
<1>3. \A g \in RcCallers : RcSound(rcCall[g], rcStore, rcSeen[g])'
  BY DEF RcInv
<1> QED
  BY <1>1, <1>2, <1>3 DEF RcInv

\* At the beginning nobody has called.
LEMMA RcInitHolds == RcInit => RcInv
<1>1. SUFFICES ASSUME RcInit PROVE RcInv
  OBVIOUS
<1>2. DOMAIN RcIdle = RcFields /\ RcIdle.st = "idle" /\ RcIdle.op = "none"
  BY DEF RcIdle, RcFields
<1>3. rcCall = [g \in RcCallers |-> RcIdle] /\ rcSeen = [g \in RcCallers |-> [k \in RcKeys |-> {}]] /\ rcFails = 0 /\ rcBad = 0
  BY <1>1 DEF RcInit
<1>4. rcStore \in [RcKeys -> RcData]
  BY <1>1 DEF RcInit, RcData
<1>5. RcTypes
  BY <1>3, <1>4 DEF RcTypes
<1>6. \A g \in RcCallers : RcSound(rcCall[g], rcStore, rcSeen[g]) /\ ~RcSpoilt(rcCall[g])
  BY <1>2, <1>3 DEF RcSound, RcSpoilt
<1>7. RcFailing = {}
  BY <1>6 DEF RcFailing
<1>8. Cardinality(RcFailing) = 0
  BY <1>7, FS_EmptySet
<1>9. rcFails + Cardinality(RcFailing) <= rcBad
  BY <1>3, <1>8
<1> QED
  BY <1>5, <1>6, <1>9 DEF RcInv

\* The invariant is what RcHonest asks for.
LEMMA RcInvHonest == RcInv => RcHonest
<1>1. SUFFICES ASSUME RcInv PROVE RcHonest
  OBVIOUS
<1>2. RcMGetHonest
  BY <1>1 DEF RcMGetHonest, RcDone, RcInv, RcSound, RcAnswer, RcTruth
<1>3. RcWritesAll
  BY <1>1 DEF RcWritesAll, RcDone, RcInv, RcSound, RcAnswer
<1>4. RcEvalOnce
  <2>1. SUFFICES ASSUME NEW g \in RcCallers, rcCall[g].op = "Eval", rcCall[g].got = <<"wait">> PROVE ~rcCall[g].ran[1]
    BY DEF RcEvalOnce
  <2>2. RcSound(rcCall[g], rcStore, rcSeen[g])
    BY <1>1 DEF RcInv
  <2>3. rcCall[g].st = "exec"
    BY <2>1, <2>2 DEF RcSound, RcAnswer
  <2>4. RcExecuting(rcCall[g], rcStore, rcSeen[g])
    BY <2>2, <2>3 DEF RcSound
  <2>5. rcCall[g].got[1] = "wait" /\ 1 \in DOMAIN rcCall[g].keys
    BY <2>1, <2>4 DEF RcExecuting
  <2> QED
    BY <2>4, <2>5 DEF RcExecuting
<1>5. RcFailsBound
  <2>1. RcFailing \subseteq RcCallers
    BY DEF RcFailing
  <2>2. Cardinality(RcFailing) \in Nat
    BY <2>1, RcAssumption, FS_Subset, FS_CardinalityType
  <2> QED
    BY <1>1, <2>2 DEF RcFailsBound, RcInv, RcTypes
<1> QED
  BY <1>2, <1>3, <1>4, <1>5 DEF RcHonest

\* The client of the redis cluster is honest: an MGet without error gives values its
\* keys had during the call, and none only for a key that had none or behind a
\* redis.Nil; an MSet or MDel without error has run on every key; Eval runs its script
\* at most once; and a failure is counted at most once. For any number of callers, any
\* keys and lists of keys, and any interleaving of the nodes (cluster.go:291-1245).
THEOREM RedisClusterHonest == RcSpec => []RcHonest
<1>1. RcInv /\ [RcNext]_rcVars => RcInv'
  <2>1. SUFFICES ASSUME RcInv, [RcNext]_rcVars PROVE RcInv'
    OBVIOUS
  <2>2. CASE RcStart \/ RcClose \/ RcUnstarted \/ RcFlush
    <3>1. UNCHANGED <<rcStore, rcCall, rcSeen, rcFails, rcBad>>
      BY <2>2 DEF RcStart, RcClose, RcUnstarted, RcFlush
    <3> QED
      BY <2>1, <3>1, RcStutter
  <2>3. CASE \E g \in RcCallers : RcSingleCall(g) \/ RcMGet(g) \/ RcMSet(g) \/ RcMDel(g) \/ RcEval(g)
    BY <2>1, <2>3, RcMethodStep
  <2>4. CASE \E g \in RcCallers : RcMGet2(g) \/ RcMSet2(g) \/ RcMDel2(g) \/ RcTake(g)
    BY <2>1, <2>4, RcEmptyStep
  <2>5. CASE \E g \in RcCallers : RcReturn(g)
    BY <2>1, <2>5, RcReturnStep
  <2>6. CASE \E g \in RcCallers : \E i \in DOMAIN rcCall[g].keys : RcNode(g, i)
    BY <2>1, <2>6, RcNodeStep
  <2>7. CASE UNCHANGED rcVars
    <3>1. UNCHANGED <<rcStore, rcCall, rcSeen, rcFails, rcBad>>
      BY <2>7 DEF rcVars
    <3> QED
      BY <2>1, <3>1, RcStutter
  <2> QED
    BY <2>1, <2>2, <2>3, <2>4, <2>5, <2>6, <2>7 DEF RcNext
<1> QED
  BY <1>1, RcInitHolds, RcInvHonest, PTL DEF RcSpec
=============================================================================
