--------------------------- MODULE ClientLifecycle ---------------------------
(***************************************************************************)
(* Who starts and who stops a dogrpc Client (net/dogrpc/client.go): users  *)
(* of RpcClient, which create the client and start it again when they find *)
(* it stopped, and the clientHandler goroutines themselves, whose deferred *)
(* function calls Stop when they return.  Channels are values: a goroutine *)
(* that waits on clientStopChan waits on the channel the field held when   *)
(* its select began, and closing a nil or a closed channel panics.         *)
(*                                                                         *)
(* What happens on an established connection is module DogClient.          *)
(***************************************************************************)
EXTENDS Integers, FiniteSets

CONSTANTS
    Users,          \* goroutines that use the RpcClient
    Handlers,       \* clientHandler goroutines (bound on the live ones)
    Chans,          \* channels (bound on the ones somebody refers to)
    Nil,            \* the nil channel; also: nobody holds this lock
    Conns,          \* c.Conns
    DialRetryTime,  \* c.DialRetryTime
    UsersStop       \* whether users call RpcClient.Stop

ASSUME LifecycleAssumption ==
    /\ IsFiniteSet(Handlers)
    /\ Nil \notin Users \cup Handlers \cup Chans
    /\ Users \cap Handlers = {}
    /\ Conns \in Nat \ {0}
    /\ DialRetryTime \in Nat
    /\ UsersStop \in BOOLEAN

VARIABLES
    created,    \* the client is in RpcClient.Cm
    cmMutex,    \* holder of RpcClient.cmMutex
    startLock,  \* holder of c.startLock
    stopLock,   \* holder of c.stopLock
    stopChan,   \* c.clientStopChan
    closed,     \* the channels that are closed
    stopWg,     \* the counter of c.stopWg
    pc,         \* where each user and each handler is
    toSpawn,    \* user: handlers Start has still to start
    ch,         \* handler: the channel its select waits on
    retries,    \* handler: dialRetryTime
    panicked    \* the process died: close of a nil or of a closed channel

lockVars == <<created, cmMutex, startLock, stopLock>>
chanVars == <<stopChan, closed>>
handlerVars == <<ch, retries>>
vars == <<lockVars, chanVars, stopWg, pc, toSpawn, handlerVars, panicked>>

Procs == Users \cup Handlers

UserPc == {"idle", "create", "start", "spawn", "stop", "wait", "reset"}
HandlerPc == {"free", "dial", "dialing", "failed", "retrying", "connected", "up",
              "check", "exit", "stop", "wait", "reset"}

TypeOK ==
    /\ created \in BOOLEAN
    /\ cmMutex \in Users \cup {Nil}
    /\ startLock \in Users \cup {Nil}
    /\ stopLock \in Procs \cup {Nil}
    /\ stopChan \in Chans \cup {Nil}
    /\ closed \subseteq Chans
    /\ stopWg \in 0..Cardinality(Handlers)
    /\ pc \in [Procs -> UserPc \cup HandlerPc]
    /\ toSpawn \in [Users -> 0..Conns]
    /\ ch \in [Handlers -> Chans \cup {Nil}]
    /\ retries \in [Handlers -> 0..DialRetryTime]
    /\ panicked \in BOOLEAN

Init ==
    /\ created = FALSE
    /\ cmMutex = Nil /\ startLock = Nil /\ stopLock = Nil
    /\ stopChan = Nil
    /\ closed = {}
    /\ stopWg = 0
    /\ pc = [p \in Procs |-> IF p \in Users THEN "idle" ELSE "free"]
    /\ toSpawn = [u \in Users |-> 0]
    /\ ch = [h \in Handlers |-> Nil]
    /\ retries = [h \in Handlers |-> 0]
    /\ panicked = FALSE

\* A goroutine moves on, unless a panic has ended the process.
Goto(p, l) == ~panicked /\ pc' = [pc EXCEPT ![p] = l]
Home(p) == IF p \in Users THEN "idle" ELSE "free"

\* The channels some variable or goroutine still refers to.
Live == {stopChan} \cup {ch[h] : h \in Handlers}

-----------------------------------------------------------------------------
(* RpcClient.Connect and DogConnect, and Client.Start inside them.         *)

\* Faulty variant: the client is started whatever its state.
ConnectRestarts(u) ==
    /\ pc[u] = "idle"
    /\ Goto(u, IF created THEN "start" ELSE "create")
    /\ UNCHANGED <<lockVars, chanVars, stopWg, toSpawn, handlerVars, panicked>>

\* A first look without the mutex: a client that is not there is created, one
\* whose stop channel is nil is started again, any other is just returned.
Connect(u) ==
    /\ pc[u] = "idle"
    /\ \/ ~created /\ Goto(u, "create")
       \/ created /\ stopChan = Nil /\ Goto(u, "start")
    /\ UNCHANGED <<lockVars, chanVars, stopWg, toSpawn, handlerVars, panicked>>

\* Faulty variant: no second look.
CreateUnchecked(u) ==
    /\ pc[u] = "create"
    /\ Goto(u, "start")
    /\ UNCHANGED <<lockVars, chanVars, stopWg, toSpawn, handlerVars, panicked>>

\* The second look, under cmMutex.
Create(u) ==
    /\ pc[u] = "create"
    /\ cmMutex = Nil
    /\ \/ ~created /\ cmMutex' = u /\ Goto(u, "start")
       \/ created /\ Goto(u, "idle") /\ UNCHANGED cmMutex
    /\ UNCHANGED <<created, startLock, stopLock, chanVars, stopWg, toSpawn,
                   handlerVars, panicked>>

\* Start: a client that is already started only gives a warning.
Start(u) ==
    /\ pc[u] = "start"
    /\ startLock = Nil
    /\ startLock' = u
    /\ \E c \in Chans \ Live : stopChan' = c /\ closed' = closed \ {c}
    /\ toSpawn' = [toSpawn EXCEPT ![u] = Conns]
    /\ Goto(u, "spawn")
    /\ UNCHANGED <<created, cmMutex, stopLock, stopWg, handlerVars, panicked>>

\* stopWg.Add(1); go clientHandler(c)
Spawn(u, h) ==
    /\ pc[u] = "spawn"
    /\ toSpawn[u] > 0
    /\ pc[h] = "free"
    /\ stopWg' = stopWg + 1
    /\ toSpawn' = [toSpawn EXCEPT ![u] = @ - 1]
    /\ retries' = [retries EXCEPT ![h] = DialRetryTime]
    /\ Goto(h, "dial")
    /\ UNCHANGED <<lockVars, chanVars, ch, panicked>>

\* Start returns, and so does Connect: the creator publishes the client.
Started(u) ==
    /\ pc[u] = "spawn"
    /\ toSpawn[u] = 0
    /\ startLock' = Nil
    /\ created' = TRUE
    /\ cmMutex' = IF cmMutex = u THEN Nil ELSE cmMutex
    /\ Goto(u, "idle")
    /\ UNCHANGED <<stopLock, chanVars, stopWg, toSpawn, handlerVars, panicked>>

-----------------------------------------------------------------------------
(* Client.Stop, called by a user or by a handler.                          *)

UserStop(u) ==
    /\ UsersStop
    /\ pc[u] = "idle"
    /\ created
    /\ Goto(u, "stop")
    /\ UNCHANGED <<lockVars, chanVars, stopWg, toSpawn, handlerVars, panicked>>

\* A client that is not started only gives an error message before the close.
StopCloses(p) ==
    /\ pc[p] = "stop"
    /\ stopLock = Nil
    /\ \/ /\ stopChan \in closed \cup {Nil}
          /\ ~panicked
          /\ panicked' = TRUE
          /\ UNCHANGED <<closed, stopLock, pc>>
       \/ /\ stopChan \notin closed \cup {Nil}
          /\ closed' = closed \cup {stopChan}
          /\ stopLock' = p
          /\ Goto(p, "wait")
          /\ UNCHANGED panicked
    /\ UNCHANGED <<created, cmMutex, startLock, stopChan, stopWg, toSpawn, handlerVars>>

\* stopWg.Wait() returns.
StopWaits(p) ==
    /\ pc[p] = "wait"
    /\ stopWg = 0
    /\ Goto(p, "reset")
    /\ UNCHANGED <<lockVars, chanVars, stopWg, toSpawn, handlerVars, panicked>>

StopResets(p) ==
    /\ pc[p] = "reset"
    /\ stopChan' = Nil
    /\ stopLock' = Nil
    /\ Goto(p, Home(p))
    /\ UNCHANGED <<created, cmMutex, startLock, closed, stopWg, toSpawn, handlerVars,
                   panicked>>

-----------------------------------------------------------------------------
(* clientHandler.                                                          *)

Rest(h) == UNCHANGED <<lockVars, chanVars, toSpawn, panicked>>

\* A blocking select begins: it reads the field once.
SelectPc == [dial |-> "dialing", failed |-> "retrying", connected |-> "up"]

Select(h) ==
    /\ pc[h] \in DOMAIN SelectPc
    /\ ch' = [ch EXCEPT ![h] = stopChan]
    /\ Goto(h, SelectPc[pc[h]])
    /\ UNCHANGED <<stopWg, retries>> /\ Rest(h)

\* The select sees the channel closed: the connection is torn down, or the
\* handler returns.
SeesStop(h) ==
    /\ pc[h] \in {"dialing", "retrying", "up"}
    /\ ch[h] \in closed
    /\ ch' = [ch EXCEPT ![h] = Nil]
    /\ Goto(h, IF pc[h] = "up" THEN "check" ELSE "exit")
    /\ UNCHANGED <<stopWg, retries>> /\ Rest(h)

Dialed(h) ==
    /\ pc[h] = "dialing"
    /\ ch' = [ch EXCEPT ![h] = Nil]
    /\ \/ Goto(h, "connected")
       \/ Goto(h, IF retries[h] > 0 THEN "failed" ELSE "exit")
    /\ UNCHANGED <<stopWg, retries>> /\ Rest(h)

RetryDial(h) ==
    /\ pc[h] = "retrying"
    /\ ch' = [ch EXCEPT ![h] = Nil]
    /\ retries' = [retries EXCEPT ![h] = @ - 1]
    /\ Goto(h, "dial")
    /\ UNCHANGED stopWg /\ Rest(h)

\* The reader or the writer of the connection has ended.
ConnectionEnds(h) ==
    /\ pc[h] = "up"
    /\ ch' = [ch EXCEPT ![h] = Nil]
    /\ Goto(h, "check")
    /\ UNCHANGED <<stopWg, retries>> /\ Rest(h)

\* The non-blocking select after the connection.
Check(h) ==
    /\ pc[h] = "check"
    /\ retries' = [retries EXCEPT ![h] = DialRetryTime]
    /\ Goto(h, IF stopChan \in closed THEN "exit" ELSE "dial")
    /\ UNCHANGED <<stopWg, ch>> /\ Rest(h)

\* Faulty variant: the handler does not stop the client.
ExitSilently(h) ==
    /\ pc[h] = "exit"
    /\ stopWg' = stopWg - 1
    /\ Goto(h, "free")
    /\ UNCHANGED handlerVars /\ Rest(h)

\* The deferred function: stopWg.Done(), then Stop.
Exit(h) ==
    /\ pc[h] = "exit"
    /\ stopWg' = stopWg - 1
    /\ Goto(h, "stop")
    /\ UNCHANGED handlerVars /\ Rest(h)

-----------------------------------------------------------------------------

StopStep(p) == StopCloses(p) \/ StopWaits(p) \/ StopResets(p)

UserStep(u) ==
    \/ Connect(u) \/ Create(u) \/ Start(u) \/ Started(u) \/ UserStop(u)
    \/ \E h \in Handlers : Spawn(u, h)

HandlerStep(h) ==
    \/ Select(h) \/ SeesStop(h) \/ Dialed(h) \/ RetryDial(h) \/ ConnectionEnds(h)
    \/ Check(h) \/ Exit(h)

Next ==
    \/ \E u \in Users : UserStep(u)
    \/ \E h \in Handlers : HandlerStep(h)
    \/ \E p \in Procs : StopStep(p)

Spec == Init /\ [][Next]_vars

\* A goroutine that can run does, and a dial ends (the dialer has a timeout).  A
\* connection need not end by itself, and users need not connect.
Fairness ==
    /\ \A h \in Handlers :
          WF_vars(Select(h) \/ SeesStop(h) \/ Dialed(h) \/ RetryDial(h) \/ Check(h)
                    \/ Exit(h))
    /\ \A p \in Procs : WF_vars(StopStep(p))
    /\ \A u \in Users :
          WF_vars(\/ Create(u) \/ Start(u) \/ Started(u)
                  \/ \E h \in Handlers : Spawn(u, h))

FairSpec == Spec /\ Fairness

-----------------------------------------------------------------------------
(* Properties.                                                             *)

Running == {h \in Handlers : pc[h] \notin {"free", "stop", "wait", "reset"}}

\* What line 95 asks for: Stop finds a started client, and so never closes a nil
\* or a closed channel, which would kill the process.
StopFindsStarted == ~panicked

\* What line 44 asks for: Start finds a stopped client, so that its handlers are
\* the only ones.
StartFindsStopped ==
    \A u \in Users : pc[u] = "start" /\ startLock = Nil => stopChan = Nil

\* No more handlers run than the client has connections, and stopWg counts them.
OneSetOfHandlers ==
    /\ Cardinality(Running) <= Conns
    /\ stopWg = Cardinality(Running)

\* A client that Connect hands out as started has handlers, or Start is still
\* starting them: requests queued on it are not ignored for ever.  A handler
\* about to stop the client counts.
StartedIsServed ==
    stopChan \notin closed \cup {Nil} =>
        \/ Running # {}
        \/ \E h \in Handlers : pc[h] = "stop"
        \/ \E u \in Users : pc[u] = "spawn"

\* A handler in a blocking select waits on the channel the next Stop will close.
HandlersHearStop ==
    \A h \in Handlers : ch[h] # Nil => ch[h] = stopChan

\* Only one user creates the client, however many find that it is not there.
OneCreator ==
    ~created => Cardinality({u \in Users : pc[u] \in {"start", "spawn"}}) <= 1

\* A stop comes to its end: every handler leaves, and the client can be started
\* again.
StopEnds == stopChan \in closed ~> stopChan = Nil

\* A handler that returns, because the dial failed for good, ends up with the
\* client stopped, so that the next Connect starts it again.
ExitStopsClient ==
    \A h \in Handlers : pc[h] = "exit" ~> stopChan = Nil

\* Users, Start, Stop and the handlers agree on the client they share
\* (client.go:39-160, rpc_client.go:110-154): nobody closes a channel that is nil
\* or closed, one set of handlers runs and hears the next Stop, and a client that
\* is handed out as started is served.
ClientInStep ==
    /\ TypeOK /\ StopFindsStarted /\ StartFindsStopped
    /\ OneSetOfHandlers /\ StartedIsServed /\ HandlersHearStop

\* Stopping comes to its end, whether a Stop has closed the channel or a handler
\* has given up dialling (client.go:91-106, 137-148).
StopsEnd == StopEnds /\ ExitStopsClient
=============================================================================
