------------------------ MODULE ClientLifecycleProofs ------------------------
(***************************************************************************)
(* Who may create, start and stop a Client: OneCreator for any number of   *)
(* users, and ClientInStep for any number of retries, handlers and         *)
(* channels where one user connects, nobody but the handler stops and the  *)
(* client has one connection.                                              *)
(***************************************************************************)
EXTENDS ClientLifecycle, FiniteSetTheorems, TLAPS

-----------------------------------------------------------------------------
(* One creator.                                                            *)

\* While the client is not in Cm, whoever starts it holds cmMutex.
CreatorInv ==
    /\ pc \in [Procs -> UserPc \cup HandlerPc]
    /\ \A u \in Users : pc[u] \in {"start", "spawn"} => created \/ cmMutex = u

\* One condition is not left by the goroutines that do not create the client.
LEMMA CreatorStep ==
    ASSUME CreatorInv, [Next]_vars
    PROVE  CreatorInv'
  <1>a. /\ pc \in [Procs -> UserPc \cup HandlerPc] /\ Procs = Users \cup Handlers
        /\ Users \cap Handlers = {} /\ Nil \notin Users
    BY LifecycleAssumption DEF CreatorInv, Procs
  <1>b. \A u \in Users : pc[u] \in {"start", "spawn"} => created \/ cmMutex = u
    BY DEF CreatorInv
  <1>1. ASSUME NEW u \in Users, Connect(u) \/ UserStop(u) PROVE CreatorInv'
    BY <1>1, <1>a, <1>b DEF Connect, UserStop, Goto, lockVars, CreatorInv, UserPc
  <1>2. ASSUME NEW u \in Users, Create(u) PROVE CreatorInv'
    BY <1>2, <1>a, <1>b DEF Create, Goto, CreatorInv, UserPc
  <1>3. ASSUME NEW u \in Users, Start(u) PROVE CreatorInv'
    BY <1>3, <1>a, <1>b DEF Start, Goto, CreatorInv, UserPc
  <1>4. ASSUME NEW u \in Users, Started(u) PROVE CreatorInv'
    BY <1>4, <1>a, <1>b DEF Started, Goto, CreatorInv, UserPc
  <1>5. ASSUME NEW u \in Users, NEW h \in Handlers, Spawn(u, h) PROVE CreatorInv'
    BY <1>5, <1>a, <1>b DEF Spawn, Goto, lockVars, CreatorInv, HandlerPc
  <1>6. ASSUME NEW h \in Handlers, HandlerStep(h) PROVE CreatorInv'
    <2>1. PICK l \in HandlerPc : pc' = [pc EXCEPT ![h] = l]
      BY <1>6 DEF HandlerStep, Select, SeesStop, Dialed, RetryDial, ConnectionEnds, Check, Exit, Goto,
                  SelectPc, HandlerPc
    <2>2. UNCHANGED <<created, cmMutex>>
      BY <1>6 DEF HandlerStep, Select, SeesStop, Dialed, RetryDial, ConnectionEnds, Check, Exit, Rest,
                  lockVars
    <2>3. QED
      BY <2>1, <2>2, <1>a, <1>b DEF CreatorInv
  <1>7. ASSUME NEW p \in Procs, StopStep(p) PROVE CreatorInv'
    <2>1. pc' = pc \/ \E l \in {"wait", "reset", "idle", "free"} : pc' = [pc EXCEPT ![p] = l]
      BY <1>7 DEF StopStep, StopCloses, StopWaits, StopResets, Goto, Home
    <2>2. UNCHANGED <<created, cmMutex>>
      BY <1>7 DEF StopStep, StopCloses, StopWaits, StopResets, lockVars
    <2>3. QED
      BY <2>1, <2>2, <1>a, <1>b DEF CreatorInv, UserPc, HandlerPc
  <1>8. CASE UNCHANGED vars
    BY <1>8, <1>a, <1>b DEF vars, lockVars, CreatorInv
  <1>9. QED
    BY <1>1, <1>2, <1>3, <1>4, <1>5, <1>6, <1>7, <1>8 DEF Next, UserStep

(* However many goroutines find no client in Cm, one of them creates it: the  *)
(* second look under cmMutex (rpc_client.go:110-154).                         *)
THEOREM CreatedOnce == Spec => []OneCreator
  <1>1. Init => CreatorInv
    BY DEF Init, CreatorInv, UserPc, HandlerPc, Procs
  <1>2. CreatorInv /\ [Next]_vars => CreatorInv'
    BY CreatorStep
  <1>3. CreatorInv => OneCreator
    <2> SUFFICES ASSUME CreatorInv, ~created
                 PROVE  Cardinality({u \in Users : pc[u] \in {"start", "spawn"}}) <= 1
      BY DEF OneCreator
    <2>1. {u \in Users : pc[u] \in {"start", "spawn"}} \subseteq {cmMutex}
      BY DEF CreatorInv
    <2>2. IsFiniteSet({cmMutex}) /\ Cardinality({cmMutex}) = 1
      BY FS_Singleton
    <2>3. QED
      BY <2>1, <2>2, FS_Subset
  <1>4. QED
    BY <1>1, <1>2, <1>3, PTL DEF Spec

-----------------------------------------------------------------------------
(* One user, one connection, no Stop by the user.                          *)

Alone == Conns = 1 /\ ~UsersStop /\ \A u, v \in Users : u = v

RunningPc == HandlerPc \ {"free", "stop", "wait", "reset"}

\* At most one handler is not free, and it decides what the channel is.
HandlerInv ==
    \A h \in Handlers :
        /\ pc[h] \in HandlerPc
        /\ pc[h] # "free" => stopChan # Nil /\ \A k \in Handlers : pc[k] # "free" => k = h
        /\ pc[h] \in RunningPc \cup {"stop"} => stopChan \notin closed
        /\ pc[h] \in {"wait", "reset"} => stopChan \in closed
        /\ ch[h] = IF pc[h] \in {"dialing", "retrying", "up"} THEN stopChan ELSE Nil
        /\ pc[h] \in {"failed", "retrying"} => retries[h] > 0

\* The user looks for a stopped client, finds it, and starts one handler.
UserInv ==
    \A u \in Users :
        /\ pc[u] \in {"idle", "create", "start", "spawn"}
        /\ pc[u] \in {"create", "start"} \/ (~created /\ pc[u] = "idle") => stopChan = Nil
        /\ pc[u] = "spawn" /\ toSpawn[u] # 0 =>
              /\ stopChan \notin closed \cup {Nil}
              /\ \A h \in Handlers : pc[h] = "free"

\* A channel that is not nil has a handler, or the user is about to start one.
ServedInv ==
    stopChan # Nil => \/ \E h \in Handlers : pc[h] # "free"
                      \/ \E u \in Users : pc[u] = "spawn" /\ toSpawn[u] # 0

AInv ==
    /\ TypeOK /\ ~panicked
    /\ HandlerInv /\ UserInv /\ ServedInv
    /\ stopWg = IF \E h \in Handlers : pc[h] \in RunningPc THEN 1 ELSE 0

\* The steps of a handler between its start and its Stop leave the channel alone.
LEMMA AloneHandlerStep ==
    ASSUME Alone, AInv, NEW h \in Handlers, HandlerStep(h)
    PROVE  AInv'
  <1>a. /\ pc \in [Procs -> UserPc \cup HandlerPc] /\ Procs = Users \cup Handlers
        /\ Users \cap Handlers = {} /\ Nil \notin Chans /\ DialRetryTime \in Nat
        /\ ch \in [Handlers -> Chans \cup {Nil}] /\ retries \in [Handlers -> 0..DialRetryTime]
        /\ stopChan \in Chans \cup {Nil} /\ closed \subseteq Chans
    BY LifecycleAssumption DEF AInv, TypeOK, Procs
  <1>b. HandlerInv /\ UserInv /\ ServedInv
    BY DEF AInv
  <1>1. UNCHANGED <<lockVars, chanVars, toSpawn, panicked>>
    BY DEF HandlerStep, Select, SeesStop, Dialed, RetryDial, ConnectionEnds, Check, Exit, Rest
  <1>2. pc[h] \in RunningPc
    BY DEF HandlerStep, Select, SeesStop, Dialed, RetryDial, ConnectionEnds, Check, Exit, SelectPc,
           RunningPc, HandlerPc
  <1>3. stopChan \notin closed /\ stopChan # Nil /\ \A k \in Handlers : pc[k] # "free" => k = h
    BY <1>2, <1>b DEF HandlerInv, RunningPc
  <1>4. PICK l \in RunningPc \cup {"stop"} :
           /\ pc' = [pc EXCEPT ![h] = l]
           /\ l = "stop" <=> Exit(h)
    <2>1. CASE Exit(h)
      BY <2>1 DEF Exit, Goto
    <2>2. CASE ~Exit(h)
      BY <2>2 DEF HandlerStep, Select, SeesStop, Dialed, RetryDial, ConnectionEnds, Check, Goto,
                  SelectPc, RunningPc, HandlerPc
    <2>3. QED
      BY <2>1, <2>2
  <1>5. /\ pc'[h] = l /\ \A p \in Procs : p # h => pc'[p] = pc[p]
        /\ pc' \in [Procs -> UserPc \cup HandlerPc]
    BY <1>4, <1>a DEF RunningPc, HandlerPc
  <1>6. /\ retries' \in [Handlers -> 0..DialRetryTime] /\ ch' \in [Handlers -> Chans \cup {Nil}]
        /\ \A k \in Handlers : k # h => retries'[k] = retries[k] /\ ch'[k] = ch[k]
    <2>1. CASE RetryDial(h)
      <3>1. retries[h] > 0
        BY <2>1, <1>b DEF RetryDial, HandlerInv
      <3>2. QED
        BY <2>1, <3>1, <1>a DEF RetryDial
    <2>2. CASE ~RetryDial(h)
      BY <2>2, <1>a DEF HandlerStep, Select, SeesStop, Dialed, ConnectionEnds, Check, Exit,
                        handlerVars
    <2>3. QED
      BY <2>1, <2>2
  <1>7. /\ ch'[h] = IF l \in {"dialing", "retrying", "up"} THEN stopChan ELSE Nil
        /\ l \in {"failed", "retrying"} => retries'[h] > 0
    <2>1. /\ ch[h] = IF pc[h] \in {"dialing", "retrying", "up"} THEN stopChan ELSE Nil
          /\ pc[h] \in {"failed", "retrying"} => retries[h] > 0
      BY <1>b DEF HandlerInv
    <2>2. CASE Select(h)
      BY <2>1, <2>2, <1>4, <1>5, <1>a DEF Select, SelectPc, Goto
    <2>3. CASE SeesStop(h)
      BY <2>1, <2>3, <1>3 DEF SeesStop
    <2>4. CASE Dialed(h)
      BY <2>4, <1>5, <1>a DEF Dialed, Goto
    <2>5. CASE RetryDial(h) \/ ConnectionEnds(h)
      BY <2>5, <1>5, <1>a DEF RetryDial, ConnectionEnds, Goto
    <2>6. CASE Check(h) \/ Exit(h)
      BY <2>1, <2>6, <1>5, <1>a DEF Check, Exit, Goto, handlerVars
    <2>7. QED
      BY <2>2, <2>3, <2>4, <2>5, <2>6 DEF HandlerStep
  <1>8. HandlerInv'
    BY <1>1, <1>3, <1>4, <1>5, <1>6, <1>7, <1>b DEF HandlerInv, chanVars, RunningPc, HandlerPc, Procs
  <1>9. UserInv' /\ ServedInv'
    <2>1. \A u \in Users : pc'[u] = pc[u]
      BY <1>5, <1>a
    <2>2. UserInv'
      BY <2>1, <1>1, <1>2, <1>b DEF UserInv, RunningPc, chanVars, lockVars
    <2>3. pc'[h] # "free"
      BY <1>5 DEF RunningPc
    <2>4. QED
      BY <2>2, <2>3 DEF ServedInv
  <1>10. stopWg' = IF \E k \in Handlers : pc'[k] \in RunningPc THEN 1 ELSE 0
    <2>1. stopWg = 1
      BY <1>2 DEF AInv
    <2>2. CASE Exit(h)
      <3>1. \A k \in Handlers : pc'[k] \notin RunningPc
        BY <2>2, <1>3, <1>4, <1>5 DEF RunningPc, Procs
      <3>2. QED
        BY <2>1, <2>2, <3>1 DEF Exit
    <2>3. CASE ~Exit(h)
      <3>1. pc'[h] \in RunningPc
        BY <2>3, <1>4, <1>5
      <3>2. stopWg' = stopWg
        BY <2>3 DEF HandlerStep, Select, SeesStop, Dialed, RetryDial, ConnectionEnds, Check
      <3>3. QED
        BY <2>1, <3>1, <3>2
    <2>4. QED
      BY <2>2, <2>3
  <1>11. TypeOK'
    <2>1. stopWg' \in {0, 1} /\ stopWg = 1 /\ stopWg \in 0..Cardinality(Handlers)
      BY <1>2, <1>10 DEF AInv, TypeOK
    <2>2. stopWg' \in 0..Cardinality(Handlers)
      BY <2>1, LifecycleAssumption, FS_CardinalityType
    <2>3. QED
      BY <2>2, <1>1, <1>5, <1>6 DEF AInv, TypeOK, lockVars, chanVars
  <1>12. QED
    BY <1>1, <1>8, <1>9, <1>10, <1>11 DEF AInv

\* Stop, which only a handler calls: it finds its channel open, waits for nobody and
\* leaves the client stopped.
LEMMA AloneStopStep ==
    ASSUME Alone, AInv, NEW p \in Procs, StopStep(p)
    PROVE  AInv'
  <1>a. /\ pc \in [Procs -> UserPc \cup HandlerPc] /\ Procs = Users \cup Handlers
        /\ Users \cap Handlers = {} /\ Nil \notin Chans
        /\ stopChan \in Chans \cup {Nil} /\ closed \subseteq Chans
    BY LifecycleAssumption DEF AInv, TypeOK, Procs
  <1>b. HandlerInv /\ UserInv /\ ServedInv /\ ~panicked
    BY DEF AInv
  <1>1. p \in Handlers /\ pc[p] \in {"stop", "wait", "reset"}
    <2>1. pc[p] \in {"stop", "wait", "reset"}
      BY DEF StopStep, StopCloses, StopWaits, StopResets
    <2>2. QED
      BY <2>1, <1>a, <1>b DEF UserInv
  <1>2. stopChan # Nil /\ \A k \in Handlers : pc[k] # "free" => k = p
    BY <1>1, <1>b DEF HandlerInv
  <1>3. UNCHANGED <<created, cmMutex, startLock, stopWg, toSpawn, handlerVars>>
    BY DEF StopStep, StopCloses, StopWaits, StopResets, lockVars, chanVars
  <1>4. PICK l \in {"wait", "reset", "free"} : pc' = [pc EXCEPT ![p] = l]
    <2>1. CASE StopCloses(p)
      <3>1. stopChan \notin closed
        BY <2>1, <1>1, <1>b DEF StopCloses, HandlerInv
      <3>2. QED
        BY <2>1, <3>1, <1>2 DEF StopCloses, Goto
    <2>2. CASE StopWaits(p)
      BY <2>2 DEF StopWaits, Goto
    <2>3. CASE StopResets(p)
      BY <2>3, <1>1, <1>a DEF StopResets, Goto, Home
    <2>4. QED
      BY <2>1, <2>2, <2>3 DEF StopStep
  <1>5. /\ pc'[p] = l /\ \A q \in Procs : q # p => pc'[q] = pc[q]
        /\ pc' \in [Procs -> UserPc \cup HandlerPc]
    BY <1>4, <1>a DEF HandlerPc
  <1>6. /\ panicked' = FALSE /\ stopLock' \in Procs \cup {Nil}
        /\ l = "free" => stopChan' = Nil /\ closed' = closed
        /\ l # "free" => /\ stopChan' = stopChan /\ stopChan \in closed' /\ closed' \subseteq Chans
    <2>1. CASE StopCloses(p)
      <3>1. stopChan \notin closed
        BY <2>1, <1>1, <1>b DEF StopCloses, HandlerInv
      <3>2. QED
        BY <2>1, <3>1, <1>2, <1>5, <1>a, <1>b DEF StopCloses, Goto
    <2>2. CASE StopWaits(p)
      BY <2>2, <1>1, <1>5, <1>a, <1>b DEF StopWaits, Goto, HandlerInv, AInv, TypeOK, lockVars, chanVars
    <2>3. CASE StopResets(p)
      BY <2>3, <1>1, <1>5, <1>a, <1>b DEF StopResets, Goto, Home
    <2>4. QED
      BY <2>1, <2>2, <2>3 DEF StopStep
  <1>7. \A k \in Handlers : k # p => pc'[k] = "free" /\ ch'[k] = Nil
    BY <1>2, <1>3, <1>5, <1>a, <1>b DEF HandlerInv, handlerVars
  <1>8. HandlerInv'
    <2>1. ch'[p] = Nil
      BY <1>1, <1>3, <1>b DEF HandlerInv, handlerVars
    <2>2. QED
      BY <2>1, <1>2, <1>5, <1>6, <1>7 DEF HandlerInv, HandlerPc, RunningPc
  <1>9. UserInv' /\ ServedInv'
    <2>1. \A u \in Users : /\ pc'[u] = pc[u] /\ pc[u] \notin {"create", "start"}
                           /\ ~(~created /\ pc[u] = "idle") /\ ~(pc[u] = "spawn" /\ toSpawn[u] # 0)
      BY <1>1, <1>2, <1>5, <1>a, <1>b DEF UserInv
    <2>2. UserInv'
      BY <2>1, <1>3, <1>b DEF UserInv
    <2>3. ServedInv'
      BY <1>1, <1>5, <1>6 DEF ServedInv
    <2>4. QED
      BY <2>2, <2>3
  <1>10. stopWg' = IF \E k \in Handlers : pc'[k] \in RunningPc THEN 1 ELSE 0
    <2>1. \A k \in Handlers : pc[k] \notin RunningPc /\ pc'[k] \notin RunningPc
      BY <1>1, <1>2, <1>5, <1>7 DEF RunningPc
    <2>2. QED
      BY <2>1, <1>3 DEF AInv
  <1>11. TypeOK'
    <2>1. stopChan' \in Chans \cup {Nil} /\ closed' \subseteq Chans
      BY <1>6, <1>a
    <2>2. QED
      BY <2>1, <1>3, <1>5, <1>6 DEF AInv, TypeOK, handlerVars
  <1>12. QED
    BY <1>6, <1>8, <1>9, <1>10, <1>11 DEF AInv

\* The only user: it starts a stopped client, with one handler.
LEMMA AloneUserStep ==
    ASSUME Alone, AInv, NEW u \in Users, UserStep(u)
    PROVE  AInv'
  <1>a. /\ pc \in [Procs -> UserPc \cup HandlerPc] /\ Procs = Users \cup Handlers
        /\ Users \cap Handlers = {} /\ Nil \notin Chans /\ Nil \notin Users /\ DialRetryTime \in Nat
        /\ stopChan \in Chans \cup {Nil} /\ closed \subseteq Chans
        /\ toSpawn \in [Users -> 0..1] /\ ch \in [Handlers -> Chans \cup {Nil}]
        /\ retries \in [Handlers -> 0..DialRetryTime]
    BY LifecycleAssumption DEF AInv, TypeOK, Procs, Alone
  <1>b. HandlerInv /\ UserInv /\ ServedInv /\ ~panicked
    BY DEF AInv
  <1>c. \A v \in Users : v = u
    BY DEF Alone
  <1>1. CASE Connect(u) \/ Create(u)
    <2>1. PICK l \in {"idle", "create", "start"} :
             /\ pc' = [pc EXCEPT ![u] = l]
             /\ l = "idle" => created
      BY <1>1 DEF Connect, Create, Goto
    <2>2. /\ UNCHANGED <<created, stopLock, startLock, chanVars, stopWg, toSpawn, handlerVars, panicked>>
          /\ cmMutex' \in Users \cup {Nil}
      BY <1>1 DEF Connect, Create, lockVars, AInv, TypeOK
    <2>3. stopChan = Nil /\ pc[u] # "spawn"
      BY <1>1, <1>b DEF Connect, Create, UserInv
    <2>4. /\ pc'[u] = l /\ pc' \in [Procs -> UserPc \cup HandlerPc]
          /\ \A k \in Handlers : pc'[k] = pc[k]
      BY <2>1, <1>a DEF UserPc
    <2>5. HandlerInv'
      BY <2>2, <2>4, <1>b DEF HandlerInv, chanVars, handlerVars
    <2>6. UserInv' /\ ServedInv'
      BY <2>1, <2>2, <2>3, <2>4, <1>c DEF UserInv, ServedInv, chanVars
    <2>7. stopWg' = IF \E k \in Handlers : pc'[k] \in RunningPc THEN 1 ELSE 0
      BY <2>2, <2>4 DEF AInv
    <2>8. TypeOK'
      BY <2>2, <2>4 DEF AInv, TypeOK, chanVars, handlerVars
    <2>9. QED
      BY <2>2, <2>5, <2>6, <2>7, <2>8 DEF AInv
  <1>2. CASE Start(u)
    <2>1. stopChan = Nil /\ \A h \in Handlers : pc[h] = "free" /\ ch[h] = Nil
      BY <1>2, <1>b DEF Start, UserInv, HandlerInv
    <2>2. PICK c \in Chans : stopChan' = c /\ closed' = closed \ {c}
      BY <1>2 DEF Start
    <2>3. /\ pc' = [pc EXCEPT ![u] = "spawn"] /\ toSpawn' = [toSpawn EXCEPT ![u] = 1]
          /\ startLock' = u
          /\ UNCHANGED <<created, cmMutex, stopLock, stopWg, handlerVars, panicked>>
      BY <1>2 DEF Start, Goto, Alone
    <2>4. /\ pc'[u] = "spawn" /\ pc' \in [Procs -> UserPc \cup HandlerPc]
          /\ \A k \in Handlers : pc'[k] = "free"
          /\ toSpawn' \in [Users -> 0..1] /\ toSpawn'[u] = 1
      BY <2>1, <2>3, <1>a DEF UserPc
    <2>5. HandlerInv'
      BY <2>1, <2>3, <2>4 DEF HandlerInv, handlerVars, HandlerPc, RunningPc
    <2>6. UserInv' /\ ServedInv'
      BY <2>2, <2>4, <1>a, <1>c DEF UserInv, ServedInv
    <2>7. stopWg' = IF \E k \in Handlers : pc'[k] \in RunningPc THEN 1 ELSE 0
      BY <2>1, <2>3, <2>4 DEF AInv, RunningPc
    <2>8. TypeOK'
      BY <2>2, <2>3, <2>4 DEF AInv, TypeOK, handlerVars, Alone
    <2>9. QED
      BY <2>3, <2>5, <2>6, <2>7, <2>8 DEF AInv
  <1>3. ASSUME NEW h \in Handlers, Spawn(u, h) PROVE AInv'
    <2>1. /\ stopChan \notin closed \cup {Nil}
          /\ \A k \in Handlers : pc[k] = "free" /\ ch[k] = Nil
      BY <1>3, <1>a, <1>b DEF Spawn, UserInv, HandlerInv
    <2>2. /\ pc' = [pc EXCEPT ![h] = "dial"] /\ toSpawn' = [toSpawn EXCEPT ![u] = @ - 1]
          /\ toSpawn[u] > 0 /\ pc[u] = "spawn"
          /\ retries' = [retries EXCEPT ![h] = DialRetryTime] /\ stopWg' = stopWg + 1
          /\ UNCHANGED <<lockVars, chanVars, ch, panicked>>
      BY <1>3 DEF Spawn, Goto
    <2>3. /\ pc'[h] = "dial" /\ pc' \in [Procs -> UserPc \cup HandlerPc]
          /\ \A k \in Handlers : k # h => pc'[k] = "free"
          /\ pc'[u] = "spawn"
          /\ toSpawn' \in [Users -> 0..1] /\ toSpawn'[u] = 0
      BY <2>1, <2>2, <1>a DEF HandlerPc
    <2>4. stopWg = 0
      BY <2>1 DEF AInv, RunningPc
    <2>5. HandlerInv'
      BY <2>1, <2>2, <2>3 DEF HandlerInv, chanVars, HandlerPc, RunningPc
    <2>6. UserInv' /\ ServedInv'
      BY <2>2, <2>3, <1>c DEF UserInv, ServedInv
    <2>7. stopWg' = IF \E k \in Handlers : pc'[k] \in RunningPc THEN 1 ELSE 0
      BY <2>2, <2>3, <2>4 DEF RunningPc, HandlerPc
    <2>8. stopWg' \in 0..Cardinality(Handlers)
      <3>1. Cardinality(Handlers) \in Nat /\ Cardinality(Handlers) # 0
        BY LifecycleAssumption, FS_CardinalityType, FS_EmptySet
      <3>2. QED
        BY <3>1, <2>2, <2>4
    <2>9. retries' \in [Handlers -> 0..DialRetryTime]
      BY <2>2, <1>a
    <2>10. TypeOK'
      BY <2>2, <2>3, <2>8, <2>9 DEF AInv, TypeOK, lockVars, chanVars, Alone
    <2>11. QED
      BY <2>2, <2>5, <2>6, <2>7, <2>10 DEF AInv
  <1>4. CASE Started(u)
    <2>1. /\ pc' = [pc EXCEPT ![u] = "idle"] /\ toSpawn[u] = 0 /\ startLock' = Nil /\ created' = TRUE
          /\ cmMutex' \in {Nil, cmMutex}
          /\ UNCHANGED <<stopLock, chanVars, stopWg, toSpawn, handlerVars, panicked>>
      BY <1>4 DEF Started, Goto
    <2>2. /\ pc'[u] = "idle" /\ pc' \in [Procs -> UserPc \cup HandlerPc]
          /\ \A k \in Handlers : pc'[k] = pc[k]
      BY <2>1, <1>a DEF UserPc
    <2>3. HandlerInv'
      BY <2>1, <2>2, <1>b DEF HandlerInv, chanVars, handlerVars
    <2>4. UserInv'
      BY <2>1, <2>2, <1>c DEF UserInv
    <2>5. ServedInv'
      BY <2>1, <2>2, <1>b, <1>c DEF ServedInv, chanVars
    <2>6. stopWg' = IF \E k \in Handlers : pc'[k] \in RunningPc THEN 1 ELSE 0
      BY <2>1, <2>2 DEF AInv
    <2>7. TypeOK'
      BY <2>1, <2>2 DEF AInv, TypeOK, chanVars, handlerVars
    <2>8. QED
      BY <2>1, <2>3, <2>4, <2>5, <2>6, <2>7 DEF AInv
  <1>5. ~UserStop(u)
    BY DEF UserStop, Alone
  <1>6. QED
    BY <1>1, <1>2, <1>3, <1>4, <1>5 DEF UserStep

\* The invariant gives the counts of OneSetOfHandlers.
LEMMA AloneRunning ==
    ASSUME Alone, AInv
    PROVE  OneSetOfHandlers
  <1>1. Running = {h \in Handlers : pc[h] \in RunningPc}
    BY DEF Running, RunningPc, AInv, HandlerInv
  <1>2. CASE \E h \in Handlers : pc[h] \in RunningPc
    <2>1. PICK h \in Handlers : pc[h] \in RunningPc
      BY <1>2
    <2>2. Running = {h}
      BY <1>1, <2>1 DEF AInv, HandlerInv, RunningPc
    <2>3. QED
      BY <1>2, <2>2, FS_Singleton DEF OneSetOfHandlers, AInv, Alone
  <1>3. CASE ~\E h \in Handlers : pc[h] \in RunningPc
    <2>1. Running = {}
      BY <1>1, <1>3
    <2>2. QED
      BY <1>3, <2>1, FS_EmptySet DEF OneSetOfHandlers, AInv, Alone
  <1>4. QED
    BY <1>2, <1>3

(* With one connection, one user of RpcClient and no Stop of its own, the      *)
(* client stays in step: Stop always finds an open channel, Start a stopped    *)
(* client, the only handler hears the next Stop, and a client handed out as    *)
(* started is served, however often the dial fails (client.go:39-160).         *)
THEOREM InStepAlone == Alone => (Spec => []ClientInStep)
  <1> SUFFICES ASSUME Alone PROVE Spec => []ClientInStep
    OBVIOUS
  <1>1. Init => AInv
    <2> SUFFICES ASSUME Init PROVE AInv
      OBVIOUS
    <2>1. TypeOK
      <3>1. 0 \in 0..Cardinality(Handlers)
        BY LifecycleAssumption, FS_CardinalityType
      <3>2. pc \in [Procs -> UserPc \cup HandlerPc]
        BY DEF Init, UserPc, HandlerPc
      <3>3. toSpawn \in [Users -> 0..Conns] /\ retries \in [Handlers -> 0..DialRetryTime]
        BY LifecycleAssumption DEF Init
      <3>4. QED
        BY <3>1, <3>2, <3>3 DEF Init, TypeOK
    <2>2. /\ \A h \in Handlers : pc[h] = "free" /\ ch[h] = Nil
          /\ \A u \in Users : pc[u] = "idle"
      BY LifecycleAssumption DEF Init, Procs
    <2>3. HandlerInv /\ UserInv /\ ServedInv
      BY <2>2 DEF Init, HandlerInv, UserInv, ServedInv, HandlerPc, RunningPc
    <2>4. QED
      BY <2>1, <2>2, <2>3 DEF Init, AInv, RunningPc
  <1>2. AInv /\ [Next]_vars => AInv'
    <2> SUFFICES ASSUME AInv, [Next]_vars PROVE AInv'
      OBVIOUS
    <2>1. CASE UNCHANGED vars
      BY <2>1 DEF vars, lockVars, chanVars, handlerVars, AInv, TypeOK, HandlerInv, UserInv, ServedInv
    <2>2. QED
      BY <2>1, AloneUserStep, AloneHandlerStep, AloneStopStep DEF Next
  <1>3. AInv => ClientInStep
    <2> SUFFICES ASSUME AInv PROVE ClientInStep
      OBVIOUS
    <2>1. StopFindsStarted /\ StartFindsStopped /\ HandlersHearStop
      BY DEF AInv, UserInv, HandlerInv, StopFindsStarted, StartFindsStopped, HandlersHearStop
    <2>2. StartedIsServed
      <3>1. SUFFICES ASSUME stopChan \notin closed \cup {Nil}, NEW h \in Handlers, pc[h] # "free"
                     PROVE  pc[h] \in RunningPc \cup {"stop"}
        BY DEF AInv, ServedInv, StartedIsServed, Running, RunningPc, HandlerPc
      <3>2. QED
        BY <3>1 DEF AInv, HandlerInv, RunningPc, HandlerPc
    <2>3. QED
      BY <2>1, <2>2, AloneRunning DEF ClientInStep, AInv
  <1>4. QED
    BY <1>1, <1>2, <1>3, PTL DEF Spec
=============================================================================
