------------------------------ MODULE DogServer ------------------------------
(***************************************************************************)
(* The dogrpc Server (net/dogrpc/server.go): the accepting goroutine, for  *)
(* each connection a handler with a reader and a writer goroutine, and one *)
(* goroutine per request.  The connections accepted after one Start share  *)
(* a channel workersCh, which bounds the requests being handled; each      *)
(* connection has its own responsesChan.                                   *)
(*                                                                         *)
(* A connection and a request of the model are used once.  The handler of  *)
(* a request is external: it returns a response.                           *)
(***************************************************************************)
EXTENDS Integers, Sequences, FiniteSets

CONSTANTS
    Conns,             \* connections clients open (bound)
    Reqs,              \* requests clients send (bound)
    None,              \* no connection, no request
    Concurrency,       \* capacity of workersCh
    PendingResponses,  \* capacity of each responsesChan
    MaxStarts          \* bound on the calls of Serve

ASSUME ServerAssumption ==
    /\ IsFiniteSet(Conns) /\ IsFiniteSet(Reqs)
    /\ None \notin Conns \cup Reqs
    /\ Concurrency \in Nat \ {0}
    /\ PendingResponses \in Nat \ {0}
    /\ MaxStarts \in Nat

VARIABLES
    stopChan,   \* serverStopChan: "nil", "open" or "closed"
    starts,     \* how often Start has run
    stopping,   \* Stop is in stopWg.Wait
    stopWg,     \* the counter of stopWg
    bound,      \* the listener holds the port
    handler,    \* where serverHandler is
    conn,       \* where each serverHandleConnection is
    rd,         \* each serverReader
    wr,         \* each serverWriter
    era,        \* the Start each connection was accepted after
    workers,    \* tokens in the workersCh of each Start
    owner,      \* the connection a request was read from
    req,        \* where each serverRequest is
    responses,  \* responsesChan of each connection
    buf,        \* responses in the encoder's bufio.Writer
    wire        \* responses handed to the connection, in order

serverVars == <<stopChan, starts, stopping, bound, handler>>
connVars == <<conn, era>>
requestVars == <<workers, owner, req>>
outVars == <<buf, wire>>
vars == <<serverVars, stopWg, connVars, rd, wr, requestVars, responses, outVars>>

Readers == [pc: {"off", "read", "acquire", "blocked", "done"}, r: Reqs \cup {None}]
Writers == [pc: {"off", "select", "block", "encode", "done"},
            r: Reqs \cup {None}, flush: BOOLEAN]
RequestStates == {"none", "handle", "reply", "blocked", "release", "done"}

TypeOK ==
    /\ stopChan \in {"nil", "open", "closed"}
    /\ starts \in 0..MaxStarts
    /\ stopping \in BOOLEAN
    /\ stopWg \in 0..(1 + Cardinality(Conns))
    /\ bound \in BOOLEAN
    /\ handler \in {"off", "accept", "backoff"}
    /\ conn \in [Conns -> {"new", "up", "closing", "gone", "lost"}]
    /\ rd \in [Conns -> Readers]
    /\ wr \in [Conns -> Writers]
    /\ era \in [Conns -> 0..MaxStarts]
    /\ workers \in [1..MaxStarts -> 0..Concurrency]
    /\ owner \in [Reqs -> Conns \cup {None}]
    /\ req \in [Reqs -> RequestStates]
    /\ responses \in [Conns -> Seq(Reqs)]
    /\ buf \in [Conns -> Seq(Reqs)]
    /\ wire \in [Conns -> Seq(Reqs)]

IdleReader == [pc |-> "read", r |-> None]
IdleWriter == [pc |-> "select", r |-> None, flush |-> FALSE]

Init ==
    /\ stopChan = "nil" /\ starts = 0 /\ stopping = FALSE /\ stopWg = 0
    /\ bound = FALSE /\ handler = "off"
    /\ conn = [c \in Conns |-> "new"]
    /\ rd = [c \in Conns |-> [IdleReader EXCEPT !.pc = "off"]]
    /\ wr = [c \in Conns |-> [IdleWriter EXCEPT !.pc = "off"]]
    /\ era = [c \in Conns |-> 0]
    /\ workers = [n \in 1..MaxStarts |-> 0]
    /\ owner = [r \in Reqs |-> None]
    /\ req = [r \in Reqs |-> "none"]
    /\ responses = [c \in Conns |-> <<>>]
    /\ buf = [c \in Conns |-> <<>>]
    /\ wire = [c \in Conns |-> <<>>]

-----------------------------------------------------------------------------
(* Start, Stop and serverHandler.                                          *)

\* Serve runs Start.  A failing Listener.Init leaves serverStopChan set; it fails
\* when an earlier listener still holds the port.
Start ==
    /\ stopChan = "nil"
    /\ starts < MaxStarts
    /\ starts' = starts + 1
    /\ stopChan' = "open"
    /\ \/ /\ ~bound
          /\ bound' = TRUE
          /\ handler' = "accept"
          /\ stopWg' = stopWg + 1
       \/ UNCHANGED <<bound, handler, stopWg>>
    /\ UNCHANGED <<stopping, connVars, rd, wr, requestVars, responses, outVars>>

\* Stop up to stopWg.Wait().
Stop ==
    /\ stopChan = "open"
    /\ stopChan' = "closed"
    /\ stopping' = TRUE
    /\ UNCHANGED <<starts, bound, handler, stopWg, connVars, rd, wr, requestVars, responses,
                   outVars>>

Stopped ==
    /\ stopping
    /\ stopWg = 0
    /\ stopping' = FALSE
    /\ stopChan' = "nil"
    /\ UNCHANGED <<starts, bound, handler, stopWg, connVars, rd, wr, requestVars, responses,
                   outVars>>

\* Faulty variant: stopWg.Add(1) is missing.
AcceptUncounted(c) ==
    /\ handler = "accept"
    /\ conn[c] = "new"
    /\ conn' = [conn EXCEPT ![c] = "up"]
    /\ era' = [era EXCEPT ![c] = starts]
    /\ rd' = [rd EXCEPT ![c] = IdleReader]
    /\ wr' = [wr EXCEPT ![c] = IdleWriter]
    /\ UNCHANGED <<serverVars, stopWg, requestVars, responses, outVars>>

\* A client connects: stopWg.Add(1); go serverHandleConnection, which starts the
\* reader and the writer.
Accept(c) ==
    /\ handler = "accept"
    /\ conn[c] = "new"
    /\ stopWg' = stopWg + 1
    /\ conn' = [conn EXCEPT ![c] = "up"]
    /\ era' = [era EXCEPT ![c] = starts]
    /\ rd' = [rd EXCEPT ![c] = IdleReader]
    /\ wr' = [wr EXCEPT ![c] = IdleWriter]
    /\ UNCHANGED <<serverVars, requestVars, responses, outVars>>

\* Accept fails: serverHandler backs off for a second.
AcceptFails ==
    /\ handler = "accept"
    /\ handler' = "backoff"
    /\ UNCHANGED <<stopChan, starts, stopping, bound, stopWg, connVars, rd, wr, requestVars,
                   responses, outVars>>

AcceptAgain ==
    /\ handler = "backoff"
    /\ handler' = "accept"
    /\ UNCHANGED <<stopChan, starts, stopping, bound, stopWg, connVars, rd, wr, requestVars,
                   responses, outVars>>

\* The stop is seen in the first select: the listener is closed.  A connection
\* that was accepted at the same moment is forgotten (line 135).
HandlerStops ==
    /\ handler = "accept"
    /\ stopChan = "closed"
    /\ bound' = FALSE
    /\ handler' = "off"
    /\ stopWg' = stopWg - 1
    /\ \/ UNCHANGED conn
       \/ \E c \in Conns : conn[c] = "new" /\ conn' = [conn EXCEPT ![c] = "lost"]
    /\ UNCHANGED <<stopChan, starts, stopping, era, rd, wr, requestVars, responses, outVars>>

\* The stop is seen in the back-off: the listener stays (line 144).
HandlerStopsInBackoff ==
    /\ handler = "backoff"
    /\ stopChan = "closed"
    /\ handler' = "off"
    /\ stopWg' = stopWg - 1
    /\ UNCHANGED <<stopChan, starts, stopping, bound, connVars, rd, wr, requestVars, responses,
                   outVars>>

-----------------------------------------------------------------------------
(* serverHandleConnection.                                                 *)

\* The first of the three: the reader ended, the writer ended, the server stops.
\* stopChan of the connection is closed, then the connection.
Teardown(c) ==
    /\ conn[c] = "up"
    /\ rd[c].pc = "done" \/ wr[c].pc = "done" \/ stopChan = "closed"
    /\ conn' = [conn EXCEPT ![c] = "closing"]
    /\ UNCHANGED <<serverVars, stopWg, era, rd, wr, requestVars, responses, outVars>>

\* Faulty variant: stopWg.Done() is missing.
JoinedUncounted(c) ==
    /\ conn[c] = "closing"
    /\ rd[c].pc = "done"
    /\ wr[c].pc = "done"
    /\ conn' = [conn EXCEPT ![c] = "gone"]
    /\ UNCHANGED <<serverVars, stopWg, era, rd, wr, requestVars, responses, outVars>>

\* Both goroutines have ended.
Joined(c) ==
    /\ conn[c] = "closing"
    /\ rd[c].pc = "done"
    /\ wr[c].pc = "done"
    /\ conn' = [conn EXCEPT ![c] = "gone"]
    /\ stopWg' = stopWg - 1
    /\ UNCHANGED <<serverVars, era, rd, wr, requestVars, responses, outVars>>

-----------------------------------------------------------------------------
(* serverReader.                                                           *)

\* A request of the client is decoded.
Read(c, r) ==
    /\ rd[c].pc = "read"
    /\ owner[r] = None
    /\ owner' = [owner EXCEPT ![r] = c]
    /\ rd' = [rd EXCEPT ![c] = [pc |-> "acquire", r |-> r]]
    /\ UNCHANGED <<serverVars, stopWg, connVars, wr, workers, req, responses, outVars>>

\* The client is gone, the stream is corrupt, or the connection is closed.
ReadFails(c) ==
    /\ rd[c].pc = "read"
    /\ rd' = [rd EXCEPT ![c].pc = "done"]
    /\ UNCHANGED <<serverVars, stopWg, connVars, wr, requestVars, responses, outVars>>

\* workersCh <- struct{}{} in either select, then go serverRequest.
Acquire(c) ==
    LET r == rd[c].r IN
    /\ rd[c].pc \in {"acquire", "blocked"}
    /\ workers[era[c]] < Concurrency
    /\ workers' = [workers EXCEPT ![era[c]] = @ + 1]
    /\ req' = [req EXCEPT ![r] = "handle"]
    /\ rd' = [rd EXCEPT ![c] = IdleReader]
    /\ UNCHANGED <<serverVars, stopWg, connVars, wr, owner, responses, outVars>>

AcquireBlocks(c) ==
    /\ rd[c].pc = "acquire"
    /\ workers[era[c]] = Concurrency
    /\ rd' = [rd EXCEPT ![c].pc = "blocked"]
    /\ UNCHANGED <<serverVars, stopWg, connVars, wr, requestVars, responses, outVars>>

\* stopChan is closed while the reader waits for a worker: the request is dropped.
ReaderStops(c) ==
    /\ rd[c].pc = "blocked"
    /\ conn[c] = "closing"
    /\ rd' = [rd EXCEPT ![c] = [pc |-> "done", r |-> None]]
    /\ UNCHANGED <<serverVars, stopWg, connVars, wr, requestVars, responses, outVars>>

-----------------------------------------------------------------------------
(* serverRequest.                                                          *)

Handled(r) ==
    /\ req[r] = "handle"
    /\ req' = [req EXCEPT ![r] = "reply"]
    /\ UNCHANGED <<serverVars, stopWg, connVars, rd, wr, workers, owner, responses, outVars>>

\* responsesChan <- m in either select.
Reply(r) ==
    /\ req[r] \in {"reply", "blocked"}
    /\ Len(responses[owner[r]]) < PendingResponses
    /\ responses' = [responses EXCEPT ![owner[r]] = Append(@, r)]
    /\ req' = [req EXCEPT ![r] = "release"]
    /\ UNCHANGED <<serverVars, stopWg, connVars, rd, wr, workers, owner, outVars>>

ReplyBlocks(r) ==
    /\ req[r] = "reply"
    /\ Len(responses[owner[r]]) >= PendingResponses
    /\ req' = [req EXCEPT ![r] = "blocked"]
    /\ UNCHANGED <<serverVars, stopWg, connVars, rd, wr, workers, owner, responses, outVars>>

\* Faulty variants: the response is dropped when the channel is full; the worker
\* token is kept.
ReplyDrops(r) ==
    /\ req[r] = "blocked"
    /\ req' = [req EXCEPT ![r] = "release"]
    /\ UNCHANGED <<serverVars, stopWg, connVars, rd, wr, workers, owner, responses, outVars>>

ReplyKeepsWorker(r) ==
    /\ req[r] = "blocked"
    /\ conn[owner[r]] \in {"closing", "gone"}
    /\ req' = [req EXCEPT ![r] = "done"]
    /\ UNCHANGED <<serverVars, stopWg, connVars, rd, wr, workers, owner, responses, outVars>>

\* stopChan of the connection is closed: the response is dropped.
ReplyStops(r) ==
    /\ req[r] = "blocked"
    /\ conn[owner[r]] \in {"closing", "gone"}
    /\ req' = [req EXCEPT ![r] = "release"]
    /\ UNCHANGED <<serverVars, stopWg, connVars, rd, wr, workers, owner, responses, outVars>>

\* <-workersChan
Release(r) ==
    /\ req[r] = "release"
    /\ workers[era[owner[r]]] > 0
    /\ workers' = [workers EXCEPT ![era[owner[r]]] = @ - 1]
    /\ req' = [req EXCEPT ![r] = "done"]
    /\ UNCHANGED <<serverVars, stopWg, connVars, rd, wr, owner, responses, outVars>>

-----------------------------------------------------------------------------
(* serverWriter.                                                           *)

WriterEnds(c) == wr' = [wr EXCEPT ![c] = [IdleWriter EXCEPT !.pc = "done"]]

\* The non-blocking select finds responsesChan empty.
WriterPoll(c) ==
    /\ wr[c].pc = "select"
    /\ responses[c] = <<>>
    /\ wr' = [wr EXCEPT ![c].pc = "block"]
    /\ UNCHANGED <<serverVars, stopWg, connVars, rd, requestVars, responses, outVars>>

\* Either select takes the oldest response; the flush timer is armed.
WriterTake(c) ==
    /\ wr[c].pc \in {"select", "block"}
    /\ responses[c] # <<>>
    /\ wr' = [wr EXCEPT ![c] = [pc |-> "encode", r |-> Head(responses[c]), flush |-> TRUE]]
    /\ responses' = [responses EXCEPT ![c] = Tail(@)]
    /\ UNCHANGED <<serverVars, stopWg, connVars, rd, requestVars, outVars>>

\* Encode appends to the bufio.Writer, which empties itself when it is full.
WriterEncode(c) ==
    LET b == Append(buf[c], wr[c].r) IN
    /\ wr[c].pc = "encode"
    /\ wr' = [wr EXCEPT ![c].pc = "select", ![c].r = None]
    /\ \/ /\ buf' = [buf EXCEPT ![c] = b]
          /\ UNCHANGED wire
       \/ /\ conn[c] = "up"
          /\ wire' = [wire EXCEPT ![c] = @ \o b]
          /\ buf' = [buf EXCEPT ![c] = <<>>]
    /\ UNCHANGED <<serverVars, stopWg, connVars, rd, requestVars, responses>>

\* Faulty variant: the timer is reset, the buffer is not flushed.
WriterFlushForgets(c) ==
    /\ wr[c].pc = "block"
    /\ wr[c].flush
    /\ wr' = [wr EXCEPT ![c].pc = "select", ![c].flush = FALSE]
    /\ UNCHANGED <<serverVars, stopWg, connVars, rd, requestVars, responses, outVars>>

\* The flush timer fires in the blocking select.
WriterFlush(c) ==
    /\ wr[c].pc = "block"
    /\ wr[c].flush
    /\ conn[c] = "up" \/ buf[c] = <<>>
    /\ wire' = [wire EXCEPT ![c] = @ \o buf[c]]
    /\ buf' = [buf EXCEPT ![c] = <<>>]
    /\ wr' = [wr EXCEPT ![c].pc = "select", ![c].flush = FALSE]
    /\ UNCHANGED <<serverVars, stopWg, connVars, rd, requestVars, responses>>

\* The connection refuses the bytes of an Encode or of a Flush.
WriterFails(c) ==
    /\ \/ wr[c].pc = "encode"
       \/ wr[c].pc = "block" /\ wr[c].flush /\ buf[c] # <<>>
    /\ WriterEnds(c)
    /\ UNCHANGED <<serverVars, stopWg, connVars, rd, requestVars, responses, outVars>>

WriterStops(c) ==
    /\ wr[c].pc = "block"
    /\ conn[c] = "closing"
    /\ WriterEnds(c)
    /\ UNCHANGED <<serverVars, stopWg, connVars, rd, requestVars, responses, outVars>>

-----------------------------------------------------------------------------

HandlerStep ==
    \/ AcceptFails \/ AcceptAgain \/ HandlerStops \/ HandlerStopsInBackoff
    \/ \E c \in Conns : Accept(c)

ReaderStep(c) ==
    \/ \E r \in Reqs : Read(c, r)
    \/ ReadFails(c) \/ Acquire(c) \/ AcquireBlocks(c) \/ ReaderStops(c)

RequestStep(r) ==
    Handled(r) \/ Reply(r) \/ ReplyBlocks(r) \/ ReplyStops(r) \/ Release(r)

WriterStep(c) ==
    \/ WriterPoll(c) \/ WriterTake(c) \/ WriterEncode(c) \/ WriterFlush(c)
    \/ WriterFails(c) \/ WriterStops(c)

Next ==
    \/ Start \/ Stop \/ Stopped \/ HandlerStep
    \/ \E c \in Conns : Teardown(c) \/ Joined(c) \/ ReaderStep(c) \/ WriterStep(c)
    \/ \E r \in Reqs : RequestStep(r)

Spec == Init /\ [][Next]_vars

\* Goroutines that can run do run, handlers return, clients read what is sent to
\* them, and reading from a closed connection fails.  A goroutine blocked on
\* workersCh gets its turn: channels serve blocked senders in order.
Fairness ==
    /\ WF_vars(Stopped)
    /\ WF_vars(HandlerStops \/ HandlerStopsInBackoff)
    /\ \A c \in Conns :
          /\ WF_vars(Teardown(c) \/ Joined(c))
          /\ WF_vars(conn[c] = "closing" /\ ReadFails(c))
          /\ WF_vars(AcquireBlocks(c) \/ ReaderStops(c))
          /\ SF_vars(Acquire(c))
          /\ WF_vars(WriterPoll(c) \/ WriterTake(c) \/ WriterEncode(c))
          /\ WF_vars(WriterFlush(c))
          /\ WF_vars(WriterStops(c))
    /\ \A r \in Reqs :
          /\ WF_vars(Handled(r) \/ ReplyBlocks(r) \/ ReplyStops(r) \/ Release(r))
          /\ SF_vars(Reply(r))

FairSpec == Spec /\ Fairness

-----------------------------------------------------------------------------
(* Properties.                                                             *)

Count(s, r) == Cardinality({i \in 1..Len(s) : s[i] = r})

InHand(b) == IF b THEN 1 ELSE 0

\* How many goroutines, channels and buffers of connection c hold request r or
\* its response.
Places(c, r) ==
    InHand(rd[c].r = r) + InHand(req[r] \in {"handle", "reply", "blocked"})
      + Count(responses[c], r) + InHand(wr[c].r = r) + Count(buf[c], r) + Count(wire[c], r)

\* While a connection works, each request read from it is in exactly one place:
\* none is lost between the goroutines and none is answered twice.
RequestKept ==
    \A r \in Reqs : owner[r] # None =>
        LET c == owner[r] IN
        conn[c] = "up" /\ wr[c].pc # "done" => Places(c, r) = 1

\* A response goes to the connection its request came from, and at most once,
\* whatever was torn down in between.
ReplyToOwner ==
    \A c \in Conns, r \in Reqs :
        /\ Count(wire[c], r) + Count(buf[c], r) + Count(responses[c], r) <= 1
        /\ Count(wire[c], r) + Count(buf[c], r) + Count(responses[c], r) = 1 => owner[r] = c

\* workersCh holds one token per live serverRequest, also for requests whose
\* connection is gone or that outlive a Stop: Concurrency bounds the handlers
\* that run at once, and no <-workersCh ever blocks.
WorkersExact ==
    \A n \in 1..MaxStarts :
        workers[n] = Cardinality({r \in Reqs : /\ req[r] \notin {"none", "done"}
                                               /\ era[owner[r]] = n})

\* Stop returns only when the accepting goroutine and every reader and writer have
\* ended; stopWg.Add in serverHandler never races with a Wait that returns.
StopJoins ==
    stopping /\ stopWg = 0 =>
        /\ handler = "off"
        /\ \A c \in Conns : conn[c] \in {"new", "gone", "lost"}

\* Stop comes to its end.
StopReturns == stopping ~> ~stopping

\* A request is answered, unless its connection ends.
RequestAnswered ==
    \A r \in Reqs, c \in Conns :
        owner[r] = c ~> Count(wire[c], r) = 1 \/ conn[c] # "up"

\* The worker token of a request comes back, also when its connection ended while
\* responsesChan was full.
WorkerReleased == \A r \in Reqs : req[r] = "handle" ~> req[r] = "done"

\* What becomes of a request (server.go:187-312): it is in one place until it is
\* answered, and it is answered at most once and on the connection it came from,
\* however many goroutines, connections and restarts there are in between.
RequestsExact == TypeOK /\ RequestKept /\ ReplyToOwner

\* A request comes to its end (server.go:215-246, 287-312): it is answered while its
\* connection lives, and its worker token comes back in any case.
RequestsEnd == RequestAnswered /\ WorkerReleased
=============================================================================
