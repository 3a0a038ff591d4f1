------------------------------ MODULE DogClient ------------------------------
(***************************************************************************)
(* The data path of one dogrpc Client between Start and Stop              *)
(* (net/dogrpc/client.go): goroutines that call CallRetry, CallAsync or    *)
(* SendUDP, the bounded channel requestsChan they share, and for each of   *)
(* the c.Conns connections a writer goroutine, a reader goroutine and the  *)
(* handler that starts them and tears them down.  The pool of AsyncResult  *)
(* objects is part of the model: an object is recycled while other         *)
(* goroutines may still hold a pointer to it.                              *)
(*                                                                         *)
(* Start, Stop and the goroutines that outlive them are the subject of     *)
(* module ClientLifecycle; here `stopped` says that clientStopChan is      *)
(* closed.                                                                 *)
(***************************************************************************)
EXTENDS Integers, Sequences, FiniteSets

CONSTANTS
    Callers,          \* goroutines that use the client
    Conns,            \* connection slots, c.Conns of them
    Objs,             \* AsyncResult objects (bound on the live ones)
    NoObj,            \* the nil *AsyncResult
    Kinds,            \* the entry points used: "call", "async", "udp"
    PendingRequests,  \* capacity of requestsChan
    RetryNum,         \* retryNum of CallRetry
    MaxSeq,           \* bound on the sequence numbers nextSeq hands out
    CountMod          \* 2^32 in the code: width of pendingRequestsCount

ASSUME ClientAssumption ==
    /\ NoObj \notin Objs
    /\ Kinds \subseteq {"call", "async", "udp"}
    /\ PendingRequests \in Nat \ {0}
    /\ RetryNum \in Nat
    /\ MaxSeq \in Nat
    /\ CountMod \in Nat \ {0}

VARIABLES
    seq,      \* globalSeq: the last sequence number handed out
    obj,      \* the fields of every AsyncResult
    pool,     \* asyncResultPool
    queue,    \* requestsChan
    caller,   \* where each calling goroutine is in CallTimeout / callAsync
    conn,     \* where each clientHandler / clientHandleConnection is
    connErr,  \* whether that function's err is non-nil
    pending,  \* pendingRequests of each connection
    wr,       \* the clientWriter of each connection
    rd,       \* the clientReader of each connection
    buf,      \* packets in the encoder's bufio.Writer, per sequence number
    wire,     \* packets flushed whose answer has not been read
    count,    \* pendingRequestsCount
    stopped,  \* clientStopChan is closed
    dropped   \* history: the objects line 270 removed from a pending map

callVars == <<seq, caller>>
resVars == <<obj, pool, queue, dropped>>
connVars == <<conn, connErr, stopped>>
mapVars == <<pending, count>>
goVars == <<wr, rd>>
netVars == <<buf, wire>>
vars == <<callVars, resVars, connVars, mapVars, goVars, netVars>>

Ids == 1..MaxSeq
NoId == 0

AsyncResult ==
    [req: Ids \cup {NoId}, done: {"nil", "open", "closed"},
     rsp: Ids \cup {NoId}, err: {"none", "overflow", "canceled", "conn"},
     canceled: BOOLEAN, skip: BOOLEAN]

Caller == [pc: {"idle", "evict", "resend", "wait", "retry"},
           kind: {"call", "async", "udp"}, id: Ids \cup {NoId},
           m: Objs \cup {NoObj}, tries: Nat]

Writer == [pc: {"off", "select", "block", "register", "clean", "recheck",
                "encode", "done"},
           m: Objs \cup {NoObj}, id: Ids \cup {NoId}, flush: BOOLEAN,
           failed: BOOLEAN]

Reader == [pc: {"off", "read", "complete", "done"},
           m: Objs \cup {NoObj}, id: Ids \cup {NoId}]

TypeOK ==
    /\ seq \in 0..MaxSeq
    /\ obj \in [Objs -> AsyncResult]
    /\ pool \subseteq Objs
    /\ queue \in Seq(Objs)
    /\ caller \in [Callers -> Caller]
    /\ conn \in [Conns -> {"dial", "up", "closing", "drain", "gone"}]
    /\ connErr \in [Conns -> BOOLEAN]
    /\ pending \in [Conns -> [Ids -> Objs \cup {NoObj}]]
    /\ wr \in [Conns -> Writer]
    /\ rd \in [Conns -> Reader]
    /\ buf \in [Conns -> [Ids -> Nat]]
    /\ wire \in [Conns -> [Ids -> Nat]]
    /\ count \in 0..(CountMod - 1)
    /\ stopped \in BOOLEAN
    /\ dropped \subseteq Objs

-----------------------------------------------------------------------------
(* AsyncResult objects and their pool.                                     *)

ZeroResult == [req |-> NoId, done |-> "nil", rsp |-> NoId, err |-> "none",
               canceled |-> FALSE, skip |-> FALSE]

\* Faulty variant: the response of the last call stays.
ReleasedKeepingResponse(o) == [o EXCEPT !.req = NoId, !.done = "nil", !.err = "none"]

\* releaseAsyncResult: every field but canceled and skipResponse is cleared.
Released(o) == [o EXCEPT !.req = NoId, !.done = "nil", !.rsp = NoId,
                         !.err = "none"]

RecycleIf(usePool, m) ==
    IF usePool THEN /\ obj' = [obj EXCEPT ![m] = Released(@)]
                    /\ pool' = pool \cup {m}
               ELSE UNCHANGED <<obj, pool>>

\* Faulty variant: Done is never closed.
FailedUnnoticed(o, e) == [o EXCEPT !.err = e]

\* m.Error = e; close(m.Done)
Failed(o, e) == [o EXCEPT !.err = e, !.done = "closed"]

Finish(m, e) == /\ obj' = [obj EXCEPT ![m] = Failed(@, e)]
                /\ UNCHANGED pool

InQueue(m) == \E i \in 1..Len(queue) : queue[i] = m

\* The objects some goroutine, channel, map or the pool still points to.  An
\* object outside this set is garbage: allocating it models &AsyncResult{}.
Referenced ==
    pool \cup {queue[i] : i \in 1..Len(queue)}
         \cup {caller[k].m : k \in Callers}
         \cup {wr[c].m : c \in Conns} \cup {rd[c].m : c \in Conns}
         \cup {pending[c][id] : c \in Conns, id \in Ids}

Garbage == Objs \ Referenced

\* acquireAsyncResult.  sync.Pool may miss even when it holds an object.
Available(kind) == IF kind = "async" THEN Garbage ELSE pool \cup Garbage

\* An object as callAsync fills it in (lines 392-397).  A recycled object
\* keeps the canceled flag it was released with.
Filled(m, kind, id) ==
    [IF m \in pool THEN obj[m] ELSE ZeroResult EXCEPT
        !.req = id,
        !.skip = (kind = "udp"),
        !.done = IF kind = "udp" THEN "nil" ELSE "open"]

PendingIds(c) == {id \in Ids : pending[c][id] # NoObj}

NoPending == [id \in Ids |-> NoObj]
NoPackets == [id \in Ids |-> 0]

IdleCaller == [pc |-> "idle", kind |-> "call", id |-> NoId, m |-> NoObj,
               tries |-> 0]
IdleWriter == [pc |-> "select", m |-> NoObj, id |-> NoId, flush |-> FALSE,
               failed |-> FALSE]
IdleReader == [pc |-> "read", m |-> NoObj, id |-> NoId]

\* Start has run: the channels exist and each clientHandler is dialling.
Init ==
    /\ seq = 0
    /\ obj = [m \in Objs |-> ZeroResult]
    /\ pool = {}
    /\ queue = <<>>
    /\ caller = [k \in Callers |-> IdleCaller]
    /\ conn = [c \in Conns |-> "dial"]
    /\ connErr = [c \in Conns |-> FALSE]
    /\ pending = [c \in Conns |-> NoPending]
    /\ wr = [c \in Conns |-> [IdleWriter EXCEPT !.pc = "off"]]
    /\ rd = [c \in Conns |-> [IdleReader EXCEPT !.pc = "off"]]
    /\ buf = [c \in Conns |-> NoPackets]
    /\ wire = [c \in Conns |-> NoPackets]
    /\ count = 0
    /\ stopped = FALSE
    /\ dropped = {}

-----------------------------------------------------------------------------
(* The calling goroutines: CallTimeout, callAsync, SendUDP, Cancel.        *)

\* callAsync up to the end of its first select (lines 383-405): the request is
\* queued, or the channel is full and a skip-response request gives up with
\* TimeOutError, or the caller goes on to evict the oldest queued request.
TrySend(k, kind, id, tries) ==
    \E m \in Available(kind) :
        LET o == Filled(m, kind, id)
            At(pc) == [caller EXCEPT ![k] = [pc |-> pc, kind |-> kind, id |-> id,
                                             m |-> m, tries |-> tries]]
            idle == [caller EXCEPT ![k] = IdleCaller]
        IN  /\ dropped' = dropped \ {m}
            /\ \/ /\ Len(queue) < PendingRequests
                  /\ queue' = Append(queue, m)
                  /\ obj' = [obj EXCEPT ![m] = o]
                  /\ pool' = pool \ {m}
                  /\ caller' = IF kind = "udp" THEN idle ELSE At("wait")
               \/ /\ Len(queue) >= PendingRequests
                  /\ kind = "udp"
                  /\ obj' = [obj EXCEPT ![m] = Released(o)]
                  /\ pool' = pool \cup {m}
                  /\ caller' = idle
                  /\ UNCHANGED queue
               \/ /\ Len(queue) >= PendingRequests
                  /\ kind # "udp"
                  /\ obj' = [obj EXCEPT ![m] = o]
                  /\ pool' = pool \ {m}
                  /\ caller' = At("evict")
                  /\ UNCHANGED queue

\* A new call: NewRpcPacket takes the next sequence number.
Call(k, kind) ==
    /\ caller[k].pc = "idle"
    /\ seq < MaxSeq
    /\ seq' = seq + 1
    /\ TrySend(k, kind, seq + 1, 0)
    /\ UNCHANGED <<connVars, mapVars, goVars, netVars>>

\* goto retry: the same packet, hence the same sequence number, is sent again.
Retry(k) ==
    /\ caller[k].pc = "retry"
    /\ TrySend(k, caller[k].kind, caller[k].id, caller[k].tries)
    /\ UNCHANGED <<seq, connVars, mapVars, goVars, netVars>>

\* The channel was full: take the oldest request out of it and fail it with
\* OverflowError (lines 407-418), or find it empty by now.
Evict(k) ==
    /\ caller[k].pc = "evict"
    /\ caller' = [caller EXCEPT ![k].pc = "resend"]
    /\ \/ /\ queue # <<>>
          /\ LET mm == Head(queue) IN
               \/ obj[mm].done # "nil" /\ Finish(mm, "overflow")
               \/ obj[mm].done = "nil" /\ RecycleIf(caller[k].kind = "call", mm)
          /\ queue' = Tail(queue)
       \/ /\ queue = <<>>
          /\ UNCHANGED <<obj, pool, queue>>
    /\ UNCHANGED <<seq, dropped, connVars, mapVars, goVars, netVars>>

\* The second and last attempt to queue the request (lines 419-427).
Resend(k) ==
    /\ caller[k].pc = "resend"
    /\ \/ /\ Len(queue) < PendingRequests
          /\ queue' = Append(queue, caller[k].m)
          /\ caller' = [caller EXCEPT ![k].pc = "wait"]
          /\ UNCHANGED <<obj, pool>>
       \/ /\ Len(queue) >= PendingRequests
          /\ RecycleIf(caller[k].kind = "call", caller[k].m)
          /\ caller' = [caller EXCEPT ![k] = IdleCaller]
          /\ UNCHANGED queue
    /\ UNCHANGED <<seq, dropped, connVars, mapVars, goVars, netVars>>

\* Done is closed: the caller reads Response and Error.  CallTimeout recycles
\* the object, the user of CallAsync just forgets it.
Receive(k) ==
    /\ caller[k].pc = "wait"
    /\ obj[caller[k].m].done = "closed"
    /\ RecycleIf(caller[k].kind = "call", caller[k].m)
    /\ caller' = [caller EXCEPT ![k] = IdleCaller]
    /\ UNCHANGED <<seq, queue, dropped, connVars, mapVars, goVars, netVars>>

\* Faulty variants: the timed out object is recycled; it is not canceled.
TimeoutReleases(k) ==
    /\ caller[k].pc = "wait"
    /\ caller[k].kind = "call"
    /\ RecycleIf(TRUE, caller[k].m)
    /\ caller' = [caller EXCEPT ![k] = IdleCaller]
    /\ UNCHANGED <<seq, queue, dropped, connVars, mapVars, goVars, netVars>>

TimeoutForgets(k) ==
    /\ caller[k].pc = "wait"
    /\ caller[k].kind = "call"
    /\ caller' = [caller EXCEPT ![k] = IdleCaller]
    /\ UNCHANGED <<seq, resVars, connVars, mapVars, goVars, netVars>>

\* Faulty variant: tryNum is not incremented.
TimeoutUncounted(k) ==
    /\ caller[k].pc = "wait"
    /\ caller[k].kind = "call"
    /\ obj' = [obj EXCEPT ![caller[k].m].canceled = TRUE]
    /\ caller' = [caller EXCEPT ![k].pc = "retry", ![k].m = NoObj]
    /\ UNCHANGED <<seq, pool, queue, dropped, connVars, mapVars, goVars, netVars>>

\* The timer of CallTimeout fires (lines 362-373), possibly when Done is already
\* closed too.  The object is canceled and never recycled.
Timeout(k) ==
    /\ caller[k].pc = "wait"
    /\ caller[k].kind = "call"
    /\ obj' = [obj EXCEPT ![caller[k].m].canceled = TRUE]
    /\ \/ /\ caller[k].tries + 1 <= RetryNum
          /\ caller' = [caller EXCEPT ![k].pc = "retry", ![k].m = NoObj,
                                      ![k].tries = @ + 1]
       \/ /\ caller[k].tries + 1 > RetryNum
          /\ caller' = [caller EXCEPT ![k] = IdleCaller]
    /\ UNCHANGED <<seq, pool, queue, dropped, connVars, mapVars, goVars, netVars>>

\* The user of CallAsync cancels the request it waits for.
Cancel(k) ==
    /\ caller[k].pc = "wait"
    /\ caller[k].kind = "async"
    /\ ~obj[caller[k].m].canceled
    /\ obj' = [obj EXCEPT ![caller[k].m].canceled = TRUE]
    /\ UNCHANGED <<callVars, pool, queue, dropped, connVars, mapVars, goVars, netVars>>

-----------------------------------------------------------------------------
(* clientHandler and clientHandleConnection: one connection slot.          *)

\* The dial succeeds: fresh channels, a fresh pending map, two goroutines.
DialOk(c) ==
    /\ conn[c] = "dial"
    /\ conn' = [conn EXCEPT ![c] = "up"]
    /\ connErr' = [connErr EXCEPT ![c] = FALSE]
    /\ pending' = [pending EXCEPT ![c] = NoPending]
    /\ wr' = [wr EXCEPT ![c] = IdleWriter]
    /\ rd' = [rd EXCEPT ![c] = IdleReader]
    /\ buf' = [buf EXCEPT ![c] = NoPackets]
    /\ wire' = [wire EXCEPT ![c] = NoPackets]
    /\ UNCHANGED <<callVars, resVars, stopped, count>>

\* The dial fails and no retry is left: the handler returns, and its deferred
\* Stop closes clientStopChan.
DialFail(c) ==
    /\ conn[c] = "dial"
    /\ conn' = [conn EXCEPT ![c] = "gone"]
    /\ stopped' = TRUE
    /\ UNCHANGED <<callVars, resVars, connErr, mapVars, goVars, netVars>>

\* The client is stopped while the handler dials, or between two dials.
DialStopped(c) ==
    /\ conn[c] = "dial"
    /\ stopped
    /\ conn' = [conn EXCEPT ![c] = "gone"]
    /\ UNCHANGED <<callVars, resVars, connErr, stopped, mapVars, goVars, netVars>>

\* A user calls Stop.
Stop ==
    /\ ~stopped
    /\ stopped' = TRUE
    /\ UNCHANGED <<callVars, resVars, conn, connErr, mapVars, goVars, netVars>>

\* The select of clientHandleConnection (lines 175-189): the first goroutine to
\* end gives err; a stop gives none.  stopChan is closed, then the connection.
Teardown(c) ==
    /\ conn[c] = "up"
    /\ conn' = [conn EXCEPT ![c] = "closing"]
    /\ \/ /\ wr[c].pc = "done"
          /\ connErr' = [connErr EXCEPT ![c] = wr[c].failed]
       \/ /\ rd[c].pc = "done"
          /\ connErr' = [connErr EXCEPT ![c] = TRUE]
       \/ /\ stopped
          /\ connErr' = [connErr EXCEPT ![c] = FALSE]
    /\ UNCHANGED <<callVars, resVars, stopped, mapVars, goVars, netVars>>

\* Both goroutines have ended.
Joined(c) ==
    /\ conn[c] = "closing"
    /\ wr[c].pc = "done"
    /\ rd[c].pc = "done"
    /\ conn' = [conn EXCEPT ![c] = "drain"]
    /\ UNCHANGED <<callVars, resVars, connErr, stopped, mapVars, goVars, netVars>>

\* One turn of the loop that fails the pending requests (lines 195-201).
Drain(c, id) ==
    LET m == pending[c][id] IN
    /\ conn[c] = "drain"
    /\ m # NoObj
    /\ count' = (count - 1) % CountMod
    /\ Finish(m, IF connErr[c] THEN "conn" ELSE "none")
    /\ pending' = [pending EXCEPT ![c][id] = NoObj]
    /\ UNCHANGED <<callVars, queue, dropped, connVars, goVars, netVars>>

\* The loop is over: clientHandler returns if stopped, else it dials again.
Drained(c) ==
    /\ conn[c] = "drain"
    /\ PendingIds(c) = {}
    /\ conn' = [conn EXCEPT ![c] = IF stopped THEN "gone" ELSE "dial"]
    /\ wr' = [wr EXCEPT ![c] = [IdleWriter EXCEPT !.pc = "off"]]
    /\ rd' = [rd EXCEPT ![c] = [IdleReader EXCEPT !.pc = "off"]]
    /\ UNCHANGED <<callVars, resVars, connErr, stopped, mapVars, netVars>>

-----------------------------------------------------------------------------
(* clientWriter.                                                           *)

WriterEnds(c, failed) ==
    wr' = [wr EXCEPT ![c] = [IdleWriter EXCEPT !.pc = "done", !.failed = failed]]

\* The non-blocking select finds requestsChan empty.
WriterPoll(c) ==
    /\ wr[c].pc = "select"
    /\ queue = <<>>
    /\ wr' = [wr EXCEPT ![c].pc = "block"]
    /\ UNCHANGED <<callVars, resVars, connVars, mapVars, rd, netVars>>

\* Either select takes the oldest request; the flush timer is armed; a canceled
\* request is finished on the spot (lines 239-252).
WriterTake(c) ==
    /\ wr[c].pc \in {"select", "block"}
    /\ queue # <<>>
    /\ queue' = Tail(queue)
    /\ LET m == Head(queue)
           At(pc, mm, id) == [wr EXCEPT ![c] = [pc |-> pc, m |-> mm, id |-> id,
                                                flush |-> TRUE, failed |-> FALSE]]
       IN  \/ /\ obj[m].canceled
              /\ wr' = At("select", NoObj, NoId)
              /\ IF obj[m].done # "nil" THEN Finish(m, "canceled")
                                         ELSE RecycleIf(TRUE, m)
           \/ /\ ~obj[m].canceled
              /\ wr' = At(IF obj[m].skip THEN "encode" ELSE "register", m, obj[m].req)
              /\ UNCHANGED <<obj, pool>>
    /\ UNCHANGED <<callVars, dropped, connVars, mapVars, rd, netVars>>

\* Faulty variant: the size is not looked at.
WriterRegisterUnbounded(c) ==
    /\ wr[c].pc = "register"
    /\ pending' = [pending EXCEPT ![c][wr[c].id] = wr[c].m]
    /\ count' = (count + 1) % CountMod
    /\ wr' = [wr EXCEPT ![c].pc = "encode"]
    /\ UNCHANGED <<callVars, resVars, connVars, rd, netVars>>

\* The request enters the pending map; n is the size before that.
WriterRegister(c) ==
    /\ wr[c].pc = "register"
    /\ pending' = [pending EXCEPT ![c][wr[c].id] = wr[c].m]
    /\ count' = (count + 1) % CountMod
    /\ wr' = [wr EXCEPT ![c].pc =
                IF Cardinality(PendingIds(c)) > 3 * PendingRequests
                THEN "clean" ELSE "encode"]
    /\ UNCHANGED <<callVars, resVars, connVars, rd, netVars>>

\* "clean canceled req..." (lines 266-273).  For every canceled request the loop
\* meets it deletes msgID, the request just registered.  The count goes down
\* once per request visited; the deleted one may or may not have been visited.
WriterClean(c) ==
    /\ wr[c].pc = "clean"
    /\ wr' = [wr EXCEPT ![c].pc = "recheck"]
    /\ LET cur == wr[c].id
           found == {id \in PendingIds(c) : obj[pending[c][id]].canceled}
           n == Cardinality(PendingIds(c))
       IN  \/ /\ found = {}
              /\ count' = (count - n) % CountMod
              /\ UNCHANGED <<dropped, pending>>
           \/ /\ found # {}
              /\ pending' = [pending EXCEPT ![c][cur] = NoObj]
              /\ dropped' = dropped \cup ({pending[c][cur]} \ {NoObj})
              /\ \/ count' = (count - n) % CountMod
                 \/ /\ pending[c][cur] # NoObj
                    /\ found # {cur}
                    /\ count' = (count - (n - 1)) % CountMod
    /\ UNCHANGED <<callVars, obj, pool, queue, connVars, rd, netVars>>

\* The size is read again, without the lock; too many requests left means that
\* the writer gives the connection up (lines 274-278).
WriterRecheck(c) ==
    /\ wr[c].pc = "recheck"
    /\ \/ /\ Cardinality(PendingIds(c)) > 3 * PendingRequests
          /\ WriterEnds(c, TRUE)
       \/ /\ Cardinality(PendingIds(c)) <= 3 * PendingRequests
          /\ wr' = [wr EXCEPT ![c].pc = "encode"]
    /\ UNCHANGED <<callVars, resVars, connVars, mapVars, rd, netVars>>

Plus(f, g) == [id \in Ids |-> f[id] + g[id]]
Packet(r) == [id \in Ids |-> IF id = r THEN 1 ELSE 0]

\* enc.Encode(m.Request) appends the packet to the bufio.Writer, which empties
\* itself into the connection when it is full.  m.Request is read only now: a
\* recycled object has none, and the encoder refuses that (encoding.go:121).
WriterEncode(c) ==
    LET r == obj[wr[c].m].req IN
    /\ wr[c].pc = "encode"
    /\ \/ /\ r # NoId
          /\ wr' = [wr EXCEPT ![c].pc = "select", ![c].m = NoObj, ![c].id = NoId]
          /\ \/ /\ buf' = [buf EXCEPT ![c] = Plus(@, Packet(r))]
                /\ UNCHANGED wire
             \/ /\ conn[c] = "up"
                /\ wire' = [wire EXCEPT ![c] = Plus(@, Plus(buf[c], Packet(r)))]
                /\ buf' = [buf EXCEPT ![c] = NoPackets]
       \/ /\ r = NoId
          /\ WriterEnds(c, TRUE)
          /\ UNCHANGED netVars
    /\ UNCHANGED <<callVars, resVars, connVars, mapVars, rd>>

\* Faulty variant: the timer is reset, the buffer is not flushed.
WriterFlushForgets(c) ==
    /\ wr[c].pc = "block"
    /\ wr[c].flush
    /\ wr' = [wr EXCEPT ![c].pc = "select", ![c].flush = FALSE]
    /\ UNCHANGED <<callVars, resVars, connVars, mapVars, rd, netVars>>

\* The flush timer fires in the blocking select (lines 229-235).
WriterFlush(c) ==
    /\ wr[c].pc = "block"
    /\ wr[c].flush
    /\ conn[c] = "up" \/ buf[c] = NoPackets
    /\ wire' = [wire EXCEPT ![c] = Plus(@, buf[c])]
    /\ buf' = [buf EXCEPT ![c] = NoPackets]
    /\ wr' = [wr EXCEPT ![c].pc = "select", ![c].flush = FALSE]
    /\ UNCHANGED <<callVars, resVars, connVars, mapVars, rd>>

\* The connection refuses the bytes of an Encode or of a Flush.
WriterFail(c) ==
    /\ \/ wr[c].pc = "encode"
       \/ wr[c].pc = "block" /\ wr[c].flush /\ buf[c] # NoPackets
    /\ WriterEnds(c, TRUE)
    /\ UNCHANGED <<callVars, resVars, connVars, mapVars, rd, netVars>>

\* Faulty variant: the writer waits for clientStopChan instead of stopChan.
WriterStopsWithClient(c) ==
    /\ wr[c].pc = "block"
    /\ stopped
    /\ WriterEnds(c, FALSE)
    /\ UNCHANGED <<callVars, resVars, connVars, mapVars, rd, netVars>>

\* The blocking select sees stopChan closed.
WriterStop(c) ==
    /\ wr[c].pc = "block"
    /\ conn[c] = "closing"
    /\ WriterEnds(c, FALSE)
    /\ UNCHANGED <<callVars, resVars, connVars, mapVars, rd, netVars>>

-----------------------------------------------------------------------------
(* clientReader, and the server at the other end.                          *)

\* Faulty variant: the entry stays in the pending map.
ReaderReceiveKeeps(c, id) ==
    /\ rd[c].pc = "read"
    /\ wire[c][id] > 0
    /\ wire' = [wire EXCEPT ![c][id] = @ - 1]
    /\ pending[c][id] # NoObj
    /\ rd' = [rd EXCEPT ![c] = [pc |-> "complete", m |-> pending[c][id], id |-> id]]
    /\ UNCHANGED <<callVars, resVars, connVars, mapVars, wr, buf>>

\* The answer to a packet of this connection is decoded and looked up.  The
\* server answers in any order; an answer nobody waits for is skipped.
ReaderReceive(c, id) ==
    /\ rd[c].pc = "read"
    /\ wire[c][id] > 0
    /\ wire' = [wire EXCEPT ![c][id] = @ - 1]
    /\ \/ /\ pending[c][id] # NoObj
          /\ rd' = [rd EXCEPT ![c] = [pc |-> "complete", m |-> pending[c][id],
                                      id |-> id]]
          /\ pending' = [pending EXCEPT ![c][id] = NoObj]
       \/ /\ pending[c][id] = NoObj
          /\ UNCHANGED <<pending, rd>>
    /\ UNCHANGED <<callVars, resVars, connVars, count, wr, buf>>

\* Faulty variant: the counter is not decremented.
ReaderCompleteUncounted(c) ==
    /\ rd[c].pc = "complete"
    /\ obj' = [obj EXCEPT ![rd[c].m] = [@ EXCEPT !.rsp = rd[c].id, !.done = "closed"]]
    /\ rd' = [rd EXCEPT ![c] = IdleReader]
    /\ UNCHANGED <<callVars, pool, queue, dropped, connVars, mapVars, wr, netVars>>

\* The response is stored and Done closed (lines 323-326).
ReaderComplete(c) ==
    /\ rd[c].pc = "complete"
    /\ count' = (count - 1) % CountMod
    /\ obj' = [obj EXCEPT ![rd[c].m] = [@ EXCEPT !.rsp = rd[c].id, !.done = "closed"]]
    /\ rd' = [rd EXCEPT ![c] = IdleReader]
    /\ UNCHANGED <<callVars, pool, queue, dropped, connVars, pending, wr, netVars>>

\* Decode fails: the server or the network is gone, the stream is corrupt, or
\* clientHandleConnection has closed the connection.
ReaderFail(c) ==
    /\ rd[c].pc = "read"
    /\ rd' = [rd EXCEPT ![c].pc = "done"]
    /\ UNCHANGED <<callVars, resVars, connVars, mapVars, wr, netVars>>

-----------------------------------------------------------------------------

CallerStep(k) ==
    \/ \E kind \in Kinds : Call(k, kind)
    \/ Retry(k) \/ Evict(k) \/ Resend(k) \/ Receive(k) \/ Timeout(k) \/ Cancel(k)

HandlerStep(c) ==
    \/ DialOk(c) \/ DialFail(c) \/ DialStopped(c)
    \/ Teardown(c) \/ Joined(c) \/ Drained(c)
    \/ \E id \in Ids : Drain(c, id)

WriterStep(c) ==
    \/ WriterPoll(c) \/ WriterTake(c) \/ WriterRegister(c) \/ WriterClean(c)
    \/ WriterRecheck(c) \/ WriterEncode(c) \/ WriterFlush(c) \/ WriterFail(c)
    \/ WriterStop(c)

ReaderStep(c) ==
    \/ \E id \in Ids : ReaderReceive(c, id)
    \/ ReaderComplete(c) \/ ReaderFail(c)

Next ==
    \/ \E k \in Callers : CallerStep(k)
    \/ \E c \in Conns : HandlerStep(c) \/ WriterStep(c) \/ ReaderStep(c)
    \/ Stop

Spec == Init /\ [][Next]_vars

-----------------------------------------------------------------------------
(* Fairness: goroutines that can run do run, an expired timer is received, *)
(* and reading from a closed connection fails.  The network, the server,   *)
(* the dialer and the users owe nothing.                                   *)

Fairness ==
    /\ \A k \in Callers :
          /\ WF_vars(Retry(k) \/ Evict(k) \/ Resend(k))
          /\ WF_vars(Receive(k) \/ Timeout(k))
    /\ \A c \in Conns :
          /\ WF_vars(Teardown(c) \/ Joined(c) \/ Drained(c))
          /\ WF_vars(\E id \in Ids : Drain(c, id))
          /\ WF_vars(WriterPoll(c) \/ WriterTake(c) \/ WriterRegister(c)
                       \/ WriterClean(c) \/ WriterRecheck(c) \/ WriterEncode(c))
          /\ WF_vars(WriterFlush(c))
          /\ WF_vars(WriterStop(c))
          /\ WF_vars(ReaderComplete(c))
          /\ WF_vars(conn[c] = "closing" /\ ReaderFail(c))

FairSpec == Spec /\ Fairness

-----------------------------------------------------------------------------
(* Properties.                                                             *)

AtWriter(m) == \E c \in Conns : wr[c].pc = "register" /\ wr[c].m = m
AtReader(m) == \E c \in Conns : rd[c].pc = "complete" /\ rd[c].m = m
InPending(m) == \E c \in Conns : /\ conn[c] \in {"up", "closing", "drain"}
                                 /\ \E id \in Ids : pending[c][id] = m

\* Nobody ever closes a Done channel that is nil or already closed, which would
\* panic: every place whose owner is going to close one holds an open one, for
\* all interleavings of writers, readers, teardowns, evictions and recycling.
CloseIsSafe ==
    /\ \A i \in 1..Len(queue) :
          obj[queue[i]].done = IF obj[queue[i]].skip THEN "nil" ELSE "open"
    /\ \A c \in Conns :
          /\ wr[c].pc = "register" => obj[wr[c].m].done = "open"
          /\ rd[c].pc = "complete" => obj[rd[c].m].done = "open"
          /\ \A id \in Ids :
                pending[c][id] # NoObj => obj[pending[c][id]].done = "open"

\* A call that still waits is somewhere a goroutine will find it: queued, in a
\* writer's or a reader's hands, or in the pending map of a connection that is
\* not finished.  The one exception is the request line 270 deletes.
NoLostCall ==
    \A k \in Callers :
        LET m == caller[k].m IN
        caller[k].pc = "wait" /\ obj[m].done = "open" =>
            InQueue(m) \/ AtWriter(m) \/ AtReader(m) \/ InPending(m) \/ m \in dropped

\* A caller is never given the response to another request, although objects are
\* recycled between calls and a retry reuses the sequence number.
ReplyMatches ==
    \A k \in Callers :
        caller[k].pc = "wait" => obj[caller[k].m].rsp \in {NoId, caller[k].id}

\* A recycled object belongs to nobody else: not to a waiting caller, not to the
\* channel, not to a pending map, and its Done cannot be closed through them.
PoolIsPrivate ==
    \A m \in pool :
        /\ ~InQueue(m) /\ ~AtWriter(m) /\ ~AtReader(m) /\ ~InPending(m)
        /\ \A k \in Callers : caller[k].m # m
        /\ obj[m].done = "nil"

\* The packet the writer is about to encode is that of the request it took from
\* the channel: the object has not been recycled under its hands.
EncodesOwnRequest ==
    \A c \in Conns : wr[c].pc = "encode" => obj[wr[c].m].req = wr[c].id

\* The encoder is never handed a nil packet, which it refuses with "Encode occur
\* error" and which costs the connection and every request pending on it.
EncodesAPacket ==
    \A c \in Conns : wr[c].pc = "encode" => obj[wr[c].m].req # NoId

EmptyAnswer(k) ==
    /\ caller[k].pc = "wait"
    /\ obj[caller[k].m].done = "closed"
    /\ obj[caller[k].m].err = "none"
    /\ obj[caller[k].m].rsp = NoId

\* A call ends with neither an error nor a response only on a stopped client.
EmptyOnlyOnStop == \A k \in Callers : EmptyAnswer(k) => stopped

\* The pending map of a connection cannot grow without bound: outside the
\* clean-up it never exceeds the limit by more than one, because the writer cleans
\* or gives the connection up before (lines 263 and 275).
PendingBounded ==
    \A c \in Conns :
        wr[c].pc \in {"select", "block", "register", "encode"} =>
            Cardinality(PendingIds(c)) <= 3 * PendingRequests + 1

\* pendingRequestsCount is the number of requests that wait for a response,
\* when no call is retried and no pending map overflows.
CountExact ==
    count = (Cardinality({ci \in Conns \X Ids : pending[ci[1]][ci[2]] # NoObj})
              + Cardinality({c \in Conns : rd[c].pc = "complete"})) % CountMod

\* A connection that is torn down is finished: both goroutines end, every pending
\* call is released, and the slot dials again or goes away.
TeardownEnds ==
    \A c \in Conns : conn[c] = "closing" ~> conn[c] \in {"dial", "gone"}

\* CallTimeout always returns, whatever the network, the server and Stop do.
EveryCallReturns ==
    \A k \in Callers :
        (caller[k].pc # "idle" /\ caller[k].kind = "call") ~> caller[k].pc = "idle"

\* What the writer encoded does not stay in the buffer of a live connection.
BufferFlushed ==
    \A c \in Conns : buf[c] # NoPackets ~> (buf[c] = NoPackets \/ conn[c] # "up")
=============================================================================
