--------------------------- MODULE DogClientProofs ---------------------------
(***************************************************************************)
(* The inductive invariant of DogClient and the theorems it gives, for any *)
(* number of callers, connections, objects and requests.                   *)
(***************************************************************************)
EXTENDS DogClient, FiniteSetTheorems, SequenceTheorems, TLAPS

Waits(k, m) == caller[k].pc = "wait" /\ caller[k].m = m

\* A caller is in callAsync, or waits for Done: it points to its object.
Active(k) == caller[k].pc \in {"evict", "resend", "wait"}

\* m carries request id, its Done is open, and neither the pool nor the channel
\* holds it.
InFlight(m, id) ==
    /\ m \in Objs \ pool
    /\ id \in Ids
    /\ obj[m].req = id
    /\ obj[m].done = "open"
    /\ ~obj[m].skip
    /\ ~InQueue(m)

\* A queued object is queued once.
QueueDistinct ==
    \A i, j \in 1..Len(queue) : queue[i] = queue[j] => i = j

\* A queued object carries a request and, unless it asked for no response, an
\* open Done.  While it is not canceled its caller waits.
QueueInv ==
    \A m \in Objs : InQueue(m) =>
        /\ m \notin pool
        /\ obj[m].req \in Ids
        /\ obj[m].done = IF obj[m].skip THEN "nil" ELSE "open"
        /\ obj[m].skip => ~obj[m].canceled
        /\ ~obj[m].skip /\ ~obj[m].canceled => \E k \in Callers : Waits(k, m)

\* The object a writer is about to register is in its hands only, and the entry
\* it will overwrite, if any, is one no caller waits for.
WriterInv ==
    \A c \in Conns :
      /\ wr[c].pc \in {"register", "clean", "recheck", "encode"} =>
            wr[c].m \in Objs /\ wr[c].id \in Ids
      /\ wr[c].pc = "register" =>
        /\ InFlight(wr[c].m, wr[c].id)
        /\ \A d \in Conns : wr[d].pc = "register" /\ wr[d].m = wr[c].m => d = c
        /\ \A d \in Conns : rd[d].pc = "complete" => rd[d].m # wr[c].m
        /\ \A d \in Conns, i \in Ids : pending[d][i] # wr[c].m
        /\ pending[c][wr[c].id] # NoObj =>
              \A k \in Callers : caller[k].m # pending[c][wr[c].id]

\* A pending object is pending once, under its own sequence number.
PendingInv ==
    \A c \in Conns, i \in Ids : pending[c][i] # NoObj =>
        /\ InFlight(pending[c][i], i)
        /\ \A d \in Conns, j \in Ids :
              pending[d][j] = pending[c][i] => d = c /\ j = i
        /\ \A d \in Conns : rd[d].pc = "complete" => rd[d].m # pending[c][i]

\* The object a reader is about to complete is in its hands only.
ReaderInv ==
    \A c \in Conns : rd[c].pc = "complete" =>
        /\ InFlight(rd[c].m, rd[c].id)
        /\ \A d \in Conns : rd[d].pc = "complete" /\ rd[d].m = rd[c].m => d = c

\* A caller that waits, or is about to queue, holds an object of its own, which
\* carries its sequence number.
CallerOwns(k) ==
    /\ caller[k].pc # "idle" => caller[k].id \in 1..seq /\ caller[k].kind # "udp"
    /\ ~Active(k) => caller[k].m = NoObj
    /\ Active(k) =>
          /\ caller[k].m \in Objs \ pool
          /\ obj[caller[k].m].req = caller[k].id
          /\ obj[caller[k].m].done # "nil"
          /\ ~obj[caller[k].m].skip
          /\ caller[k].kind = "call" => ~obj[caller[k].m].canceled

\* The object of a caller that has not queued it yet is in nobody else's hands.
CallerUnqueued(k) ==
    caller[k].pc \in {"evict", "resend"} =>
        /\ InFlight(caller[k].m, caller[k].id)
        /\ ~AtWriter(caller[k].m) /\ ~AtReader(caller[k].m)
        /\ ~obj[caller[k].m].canceled
        /\ \A c \in Conns, i \in Ids : pending[c][i] # caller[k].m

\* Callers have distinct sequence numbers and distinct objects.
CallersApart ==
    \A k, l \in Callers :
        /\ caller[k].id = caller[l].id /\ caller[k].pc # "idle"
              /\ caller[l].pc # "idle" => k = l
        /\ caller[k].m = caller[l].m /\ Active(k) => k = l

CallerInv ==
    /\ \A k \in Callers : CallerOwns(k) /\ CallerUnqueued(k)
    /\ CallersApart

\* A recycled object is clean, its canceled flag included.
PoolInv ==
    \A m \in pool : /\ obj[m].done = "nil"
                    /\ obj[m].rsp = NoId
                    /\ ~obj[m].canceled

\* Phases of a connection and of its goroutines.
ConnInv ==
    \A c \in Conns :
        /\ conn[c] \in {"dial", "gone"} =>
              wr[c].pc = "off" /\ rd[c].pc = "off" /\ pending[c] = NoPending
        /\ conn[c] = "drain" => wr[c].pc = "done" /\ rd[c].pc = "done"
        /\ conn[c] = "up" /\ wr[c].pc = "done" => wr[c].failed
        /\ conn[c] \in {"closing", "drain"} /\ ~connErr[c] => stopped

\* What an object says about how its call ended.
ResultInv ==
    \A m \in Objs :
        /\ obj[m].rsp \in {NoId, obj[m].req}
        /\ obj[m].done = "closed" /\ obj[m].err = "none" /\ obj[m].rsp = NoId
              => stopped

IInv ==
    /\ TypeOK
    /\ QueueDistinct /\ QueueInv /\ WriterInv /\ PendingInv /\ ReaderInv /\ CallerInv
    /\ PoolInv /\ ConnInv /\ ResultInv /\ NoLostCall

-----------------------------------------------------------------------------
(* Facts about the helpers.                                                *)

\* A counter reduced modulo its width is in range.
LEMMA ModRange ==
    ASSUME NEW x \in Int
    PROVE  x % CountMod \in 0..(CountMod - 1)
  BY ClientAssumption

\* A pending map is finite, so its size is a number.
LEMMA PendingCard ==
    ASSUME TypeOK, NEW c \in Conns
    PROVE  /\ IsFiniteSet(PendingIds(c))
           /\ Cardinality(PendingIds(c)) \in Nat
  <1>1. IsFiniteSet(Ids)
    BY FS_Interval, ClientAssumption DEF Ids
  <1>2. PendingIds(c) \subseteq Ids
    BY DEF PendingIds
  <1> QED
    BY <1>1, <1>2, FS_Subset, FS_CardinalityType

\* What sending on requestsChan does to the sequence that models it.
LEMMA QueueAppend ==
    ASSUME TypeOK, NEW m \in Objs
    PROVE  /\ Append(queue, m) \in Seq(Objs)
           /\ Len(queue) \in Nat
           /\ Len(Append(queue, m)) = Len(queue) + 1
           /\ \A i \in 1..Len(queue) : Append(queue, m)[i] = queue[i]
           /\ Append(queue, m)[Len(queue) + 1] = m
  BY AppendProperties, LenProperties DEF TypeOK

\* What receiving from requestsChan does to it.
LEMMA QueueTail ==
    ASSUME TypeOK, queue # <<>>
    PROVE  /\ Head(queue) \in Objs
           /\ Head(queue) = queue[1]
           /\ Tail(queue) \in Seq(Objs)
           /\ Len(queue) \in Nat \ {0}
           /\ Len(Tail(queue)) = Len(queue) - 1
           /\ \A i \in 1..Len(Tail(queue)) : Tail(queue)[i] = queue[i + 1]
  BY HeadTailProperties, LenProperties, EmptySeq DEF TypeOK

\* Adding packet counts keeps their type.
LEMMA PlusType ==
    ASSUME NEW f \in [Ids -> Nat], NEW g \in [Ids -> Nat]
    PROVE  Plus(f, g) \in [Ids -> Nat]
  BY DEF Plus

\* One encoded packet is a packet count.
LEMMA PacketType == \A r : Packet(r) \in [Ids -> Nat]
  BY DEF Packet

\* Writing one entry of a pending map keeps its type.
LEMMA PendingUpdate ==
    ASSUME TypeOK, NEW c \in Conns, NEW id \in Ids, NEW m \in Objs \cup {NoObj}
    PROVE  [pending EXCEPT ![c][id] = m] \in [Conns -> [Ids -> Objs \cup {NoObj}]]
  <1>1. [pending[c] EXCEPT ![id] = m] \in [Ids -> Objs \cup {NoObj}]
    BY DEF TypeOK
  <1> QED
    BY <1>1 DEF TypeOK

\* callAsync fills a well-typed object.
LEMMA FilledType ==
    ASSUME TypeOK, NEW m \in Objs, NEW kind, NEW id \in Ids
    PROVE  Filled(m, kind, id) \in AsyncResult
  <1> DEFINE o == IF m \in pool THEN obj[m] ELSE ZeroResult
  <1>1. o \in AsyncResult
    BY DEF TypeOK, AsyncResult, ZeroResult, NoId
  <1>2. CASE kind = "udp"
    BY <1>1, <1>2 DEF Filled, AsyncResult
  <1>3. CASE kind # "udp"
    BY <1>1, <1>3 DEF Filled, AsyncResult
  <1> QED
    BY <1>2, <1>3

-----------------------------------------------------------------------------
(* Type correctness.                                                       *)

\* The initial records are well typed.
LEMMA IdleTypes ==
    /\ ZeroResult \in AsyncResult
    /\ IdleCaller \in Caller
    /\ IdleWriter \in Writer
    /\ IdleReader \in Reader
    /\ NoPending \in [Ids -> Objs \cup {NoObj}]
    /\ NoPackets \in [Ids -> Nat]
  <1>1. ZeroResult \in AsyncResult
    BY DEF ZeroResult, AsyncResult
  <1>2. IdleCaller \in Caller
    BY DEF IdleCaller, Caller
  <1>3. IdleWriter \in Writer
    BY DEF IdleWriter, Writer
  <1>4. IdleReader \in Reader
    BY DEF IdleReader, Reader
  <1> QED
    BY <1>1, <1>2, <1>3, <1>4 DEF NoPending, NoPackets

\* Start establishes the types.
LEMMA InitType == Init => TypeOK
  <1> SUFFICES ASSUME Init PROVE TypeOK
    OBVIOUS
  <1>1. [IdleWriter EXCEPT !.pc = "off"] \in Writer
    BY IdleTypes DEF Writer
  <1>2. [IdleReader EXCEPT !.pc = "off"] \in Reader
    BY IdleTypes DEF Reader
  <1>3. seq \in 0..MaxSeq /\ count \in 0..(CountMod - 1) /\ queue \in Seq(Objs)
    BY ClientAssumption DEF Init
  <1> QED
    BY <1>1, <1>2, <1>3, IdleTypes DEF Init, TypeOK

\* callAsync, up to its first select, keeps the types.
LEMMA TrySendType ==
    ASSUME TypeOK, NEW k \in Callers, NEW kind \in {"call", "async", "udp"},
           NEW id \in Ids, NEW tries \in Nat, TrySend(k, kind, id, tries)
    PROVE  /\ obj' \in [Objs -> AsyncResult]
           /\ pool' \subseteq Objs
           /\ queue' \in Seq(Objs)
           /\ caller' \in [Callers -> Caller]
           /\ dropped' \subseteq Objs
  <1>1. PICK m \in Available(kind) : TrySend(k, kind, id, tries)!(m)
    BY DEF TrySend
  <1>2. m \in Objs
    BY <1>1 DEF Available, Garbage, TypeOK
  <1>3. Filled(m, kind, id) \in AsyncResult
    BY <1>2, FilledType
  <1>4. Released(Filled(m, kind, id)) \in AsyncResult
    BY <1>3 DEF Released, AsyncResult, NoId
  <1>5. \A pc \in {"wait", "evict"} :
            [pc |-> pc, kind |-> kind, id |-> id, m |-> m, tries |-> tries] \in Caller
    BY <1>2 DEF Caller
  <1>6. obj' \in [Objs -> AsyncResult]
    BY <1>1, <1>2, <1>3, <1>4 DEF TypeOK
  <1>7. queue' \in Seq(Objs)
    <2>1. queue' = queue \/ queue' = Append(queue, m)
      BY <1>1
    <2> QED
      BY <1>2, <2>1, QueueAppend DEF TypeOK
  <1>8. caller' \in [Callers -> Caller]
    BY <1>1, <1>5, IdleTypes DEF TypeOK
  <1>9. pool' \subseteq Objs /\ dropped' \subseteq Objs
    BY <1>1, <1>2 DEF TypeOK
  <1> QED
    BY <1>6, <1>7, <1>8, <1>9

\* Recycling, failing, canceling and answering keep an object well typed.
LEMMA ResultTypes ==
    ASSUME NEW o \in AsyncResult
    PROVE  /\ Released(o) \in AsyncResult
           /\ \A e \in {"none", "overflow", "canceled", "conn"} :
                 Failed(o, e) \in AsyncResult
           /\ [o EXCEPT !.canceled = TRUE] \in AsyncResult
           /\ \A id \in Ids : [o EXCEPT !.rsp = id, !.done = "closed"] \in AsyncResult
  BY DEF Released, Failed, AsyncResult

\* A caller record stays well typed as the caller moves.
LEMMA CallerTypes ==
    ASSUME NEW k \in Caller
    PROVE  /\ \A pc \in {"resend", "wait"} : [k EXCEPT !.pc = pc] \in Caller
           /\ [k EXCEPT !.pc = "retry", !.m = NoObj, !.tries = k.tries + 1] \in Caller
  <1>1. \A pc \in {"resend", "wait"} : [k EXCEPT !.pc = pc] \in Caller
    BY DEF Caller
  <1>2. k.tries + 1 \in Nat
    BY DEF Caller
  <1>3. [k EXCEPT !.pc = "retry", !.m = NoObj, !.tries = k.tries + 1] \in Caller
    BY <1>2 DEF Caller
  <1> QED
    BY <1>1, <1>3

\* releaseAsyncResult keeps the types.
LEMMA RecycleType ==
    ASSUME TypeOK, NEW m \in Objs, NEW usePool, RecycleIf(usePool, m)
    PROVE  obj' \in [Objs -> AsyncResult] /\ pool' \subseteq Objs
  <1>1. Released(obj[m]) \in AsyncResult
    BY ResultTypes DEF TypeOK
  <1> QED
    BY <1>1 DEF RecycleIf, TypeOK

\* Closing Done with an error keeps the types.
LEMMA FinishType ==
    ASSUME TypeOK, NEW m \in Objs, NEW e \in {"none", "overflow", "canceled", "conn"},
           Finish(m, e)
    PROVE  obj' \in [Objs -> AsyncResult] /\ pool' \subseteq Objs
  <1>1. Failed(obj[m], e) \in AsyncResult
    BY ResultTypes DEF TypeOK
  <1> QED
    BY <1>1 DEF Finish, TypeOK

\* A writer record stays well typed as the writer moves.
LEMMA WriterTypes ==
    ASSUME NEW w \in Writer
    PROVE  /\ \A pc \in {"block", "clean", "recheck", "encode", "off"} :
                 [w EXCEPT !.pc = pc] \in Writer
           /\ [w EXCEPT !.pc = "select", !.m = NoObj, !.id = NoId] \in Writer
           /\ [w EXCEPT !.pc = "select", !.flush = FALSE] \in Writer
           /\ \A failed \in BOOLEAN :
                 [w EXCEPT !.pc = "done", !.failed = failed] \in Writer
  <1>1. \A pc \in {"block", "clean", "recheck", "encode", "off"} :
                 [w EXCEPT !.pc = pc] \in Writer
    BY DEF Writer
  <1>2. [w EXCEPT !.pc = "select", !.m = NoObj, !.id = NoId] \in Writer
    BY DEF Writer
  <1>3. [w EXCEPT !.pc = "select", !.flush = FALSE] \in Writer
    BY DEF Writer
  <1>4. \A failed \in BOOLEAN : [w EXCEPT !.pc = "done", !.failed = failed] \in Writer
    BY DEF Writer
  <1> QED
    BY <1>1, <1>2, <1>3, <1>4

\* A reader record stays well typed as the reader moves.
LEMMA ReaderTypes ==
    ASSUME NEW r \in Reader
    PROVE  \A pc \in {"done", "off"} : [r EXCEPT !.pc = pc] \in Reader
  BY DEF Reader

\* Every step keeps the types, given the invariant.
LEMMA NextType == IInv /\ [Next]_vars => TypeOK'
  <1> SUFFICES ASSUME IInv, [Next]_vars PROVE TypeOK'
    OBVIOUS
  <1> USE DEF callVars, resVars, connVars, mapVars, goVars, netVars
  <1>0. TypeOK
    BY DEF IInv
  <1>1. ASSUME NEW k \in Callers, NEW kind \in Kinds, Call(k, kind) PROVE TypeOK'
    <2>1. seq + 1 \in Ids /\ kind \in {"call", "async", "udp"} /\ seq' \in 0..MaxSeq
      BY <1>0, <1>1, ClientAssumption DEF Call, TypeOK, Ids
    <2>2. TrySend(k, kind, seq + 1, 0)
      BY <1>1 DEF Call
    <2> QED
      BY <1>0, <1>1, <2>1, <2>2, TrySendType DEF Call, TypeOK
  <1>2. ASSUME NEW k \in Callers, Retry(k) PROVE TypeOK'
    <2>1. caller[k].id \in Ids
      BY <1>0, <1>2, ClientAssumption
      DEF IInv, CallerInv, CallerOwns, CallerUnqueued, CallersApart, Retry, TypeOK, Ids
    <2>2. caller[k].kind \in {"call", "async", "udp"} /\ caller[k].tries \in Nat
      BY <1>0 DEF TypeOK, Caller
    <2>3. TrySend(k, caller[k].kind, caller[k].id, caller[k].tries)
      BY <1>2 DEF Retry
    <2> QED
      BY <1>0, <1>2, <2>1, <2>2, <2>3, TrySendType DEF Retry, TypeOK
  <1>3. ASSUME NEW k \in Callers, Evict(k) PROVE TypeOK'
    <2>1. obj' \in [Objs -> AsyncResult] /\ pool' \subseteq Objs
      BY <1>0, <1>3, QueueTail, RecycleType, FinishType DEF Evict, TypeOK
    <2>2. queue' \in Seq(Objs)
      BY <1>0, <1>3, QueueTail DEF Evict, TypeOK
    <2>3. caller' \in [Callers -> Caller]
      BY <1>0, <1>3, CallerTypes DEF Evict, TypeOK
    <2> QED
      BY <1>0, <1>3, <2>1, <2>2, <2>3 DEF Evict, TypeOK
  <1>4. ASSUME NEW k \in Callers, Resend(k) PROVE TypeOK'
    <2>0. caller[k].m \in Objs
      BY <1>4
      DEF IInv, CallerInv, CallerOwns, CallerUnqueued, CallersApart, Active, Resend
    <2>1. obj' \in [Objs -> AsyncResult] /\ pool' \subseteq Objs
      BY <1>0, <1>4, <2>0, RecycleType DEF Resend, TypeOK
    <2>2. queue' \in Seq(Objs)
      BY <1>0, <1>4, <2>0, QueueAppend DEF Resend, TypeOK
    <2>3. caller' \in [Callers -> Caller]
      <3>1. [caller[k] EXCEPT !.pc = "wait"] \in Caller
        BY <1>0, CallerTypes DEF TypeOK
      <3> QED
        BY <1>0, <1>4, <3>1, IdleTypes DEF Resend, TypeOK
    <2> QED
      BY <1>0, <1>4, <2>1, <2>2, <2>3 DEF Resend, TypeOK
  <1>5. ASSUME NEW k \in Callers, Receive(k) PROVE TypeOK'
    <2>0. caller[k].m \in Objs
      BY <1>5
      DEF IInv, CallerInv, CallerOwns, CallerUnqueued, CallersApart, Active, Receive
    <2>1. obj' \in [Objs -> AsyncResult] /\ pool' \subseteq Objs
      BY <1>0, <1>5, <2>0, RecycleType DEF Receive
    <2>2. caller' \in [Callers -> Caller]
      BY <1>0, <1>5, IdleTypes DEF Receive, TypeOK
    <2> QED
      BY <1>0, <1>5, <2>1, <2>2 DEF Receive, TypeOK
  <1>6. ASSUME NEW k \in Callers, Timeout(k) PROVE TypeOK'
    <2>1. obj' \in [Objs -> AsyncResult]
      BY <1>0, <1>6, ResultTypes DEF Timeout, TypeOK
    <2>2. caller' \in [Callers -> Caller]
      <3>1. [caller[k] EXCEPT !.pc = "retry", !.m = NoObj, !.tries = @ + 1] \in Caller
        BY <1>0, CallerTypes DEF TypeOK
      <3> QED
        BY <1>0, <1>6, <3>1, IdleTypes DEF Timeout, TypeOK
    <2> QED
      BY <1>0, <1>6, <2>1, <2>2 DEF Timeout, TypeOK
  <1>7. ASSUME NEW k \in Callers, Cancel(k) PROVE TypeOK'
    <2>1. obj' \in [Objs -> AsyncResult]
      BY <1>0, <1>7, ResultTypes DEF Cancel, TypeOK
    <2> QED
      BY <1>0, <1>7, <2>1 DEF Cancel, TypeOK
  <1>8. ASSUME NEW c \in Conns, DialOk(c) PROVE TypeOK'
    BY <1>0, <1>8, IdleTypes DEF DialOk, TypeOK
  <1>9. ASSUME NEW c \in Conns, DialFail(c) \/ DialStopped(c) \/ Joined(c) PROVE TypeOK'
    BY <1>0, <1>9 DEF DialFail, DialStopped, Joined, TypeOK
  <1>10. ASSUME NEW c \in Conns, Teardown(c) PROVE TypeOK'
    <2>1. wr[c].failed \in BOOLEAN
      BY <1>0 DEF TypeOK, Writer
    <2> QED
      BY <1>0, <1>10, <2>1 DEF Teardown, TypeOK
  <1>11. ASSUME NEW c \in Conns, NEW id \in Ids, Drain(c, id) PROVE TypeOK'
    <2>1. obj' \in [Objs -> AsyncResult]
      BY <1>0, <1>11, ResultTypes DEF Drain, TypeOK, Finish
    <2>2. count' \in 0..(CountMod - 1)
      BY <1>0, <1>11, ModRange DEF Drain, TypeOK
    <2> QED
      BY <1>0, <1>11, <2>1, <2>2 DEF Drain, TypeOK, Finish
  <1>12. ASSUME NEW c \in Conns, Drained(c) PROVE TypeOK'
    BY <1>0, <1>12, IdleTypes, WriterTypes, ReaderTypes DEF Drained, TypeOK
  <1>13. ASSUME NEW c \in Conns, WriterPoll(c) PROVE TypeOK'
    BY <1>0, <1>13, WriterTypes DEF WriterPoll, TypeOK
  <1>14. ASSUME NEW c \in Conns, WriterTake(c) PROVE TypeOK'
    <2>1. obj' \in [Objs -> AsyncResult] /\ pool' \subseteq Objs
      BY <1>0, <1>14, QueueTail, RecycleType, FinishType DEF WriterTake, TypeOK
    <2>2. queue' \in Seq(Objs)
      BY <1>0, <1>14, QueueTail DEF WriterTake, TypeOK
    <2>3. Head(queue) \in Objs /\ obj[Head(queue)].req \in Ids \cup {NoId}
      BY <1>0, <1>14, QueueTail DEF WriterTake, TypeOK, AsyncResult
    <2>4. wr' \in [Conns -> Writer]
      <3>1. \A pc \in {"select", "encode", "register"}, m \in Objs \cup {NoObj},
               id \in Ids \cup {NoId} :
               [pc |-> pc, m |-> m, id |-> id, flush |-> TRUE, failed |-> FALSE]
                 \in Writer
        BY DEF Writer
      <3>2. PICK pc \in {"select", "encode", "register"}, m \in Objs \cup {NoObj},
               id \in Ids \cup {NoId} :
               wr' = [wr EXCEPT ![c] = [pc |-> pc, m |-> m, id |-> id,
                                        flush |-> TRUE, failed |-> FALSE]]
        BY <1>14, <2>3 DEF WriterTake
      <3>3. [pc |-> pc, m |-> m, id |-> id, flush |-> TRUE, failed |-> FALSE] \in Writer
        BY <3>1
      <3> QED
        BY <1>0, <3>2, <3>3 DEF TypeOK
    <2> QED
      BY <1>0, <1>14, <2>1, <2>2, <2>4 DEF WriterTake, TypeOK
  <1>15. ASSUME NEW c \in Conns, WriterRegister(c) PROVE TypeOK'
    <2>1. wr[c].m \in Objs /\ wr[c].id \in Ids
      BY <1>15 DEF IInv, WriterInv, WriterRegister
    <2>2. count' \in 0..(CountMod - 1)
      BY <1>0, <1>15, ModRange DEF WriterRegister, TypeOK
    <2>3. wr' \in [Conns -> Writer]
      BY <1>0, <1>15, WriterTypes DEF WriterRegister, TypeOK
    <2>4. pending' \in [Conns -> [Ids -> Objs \cup {NoObj}]]
      BY <1>0, <1>15, <2>1 DEF WriterRegister, TypeOK
    <2> QED
      BY <1>0, <1>15, <2>2, <2>3, <2>4 DEF WriterRegister, TypeOK
  <1>16. ASSUME NEW c \in Conns, WriterClean(c) PROVE TypeOK'
    <2>1. wr[c].id \in Ids
      BY <1>16 DEF IInv, WriterInv, WriterClean
    <2>2. count' \in 0..(CountMod - 1)
      BY <1>0, <1>16, ModRange, PendingCard DEF WriterClean, TypeOK
    <2>3. wr' \in [Conns -> Writer]
      BY <1>0, <1>16, WriterTypes DEF WriterClean, TypeOK
    <2>4. pending[c][wr[c].id] \in Objs \cup {NoObj}
      BY <1>0, <2>1 DEF TypeOK
    <2>5. dropped' \subseteq Objs
      BY <1>0, <1>16, <2>4 DEF WriterClean, TypeOK
    <2>6. pending' \in [Conns -> [Ids -> Objs \cup {NoObj}]]
      <3>1. pending' = pending \/ pending' = [pending EXCEPT ![c][wr[c].id] = NoObj]
        BY <1>16 DEF WriterClean
      <3>2. [pending EXCEPT ![c][wr[c].id] = NoObj]
              \in [Conns -> [Ids -> Objs \cup {NoObj}]]
        BY <1>0, <2>1, PendingUpdate
      <3> QED
        BY <1>0, <3>1, <3>2 DEF TypeOK
    <2> QED
      BY <1>0, <1>16, <2>2, <2>3, <2>5, <2>6 DEF WriterClean, TypeOK
  <1>17. ASSUME NEW c \in Conns, WriterRecheck(c) PROVE TypeOK'
    <2>1. /\ [wr[c] EXCEPT !.pc = "encode"] \in Writer
          /\ [IdleWriter EXCEPT !.pc = "done", !.failed = TRUE] \in Writer
      BY <1>0, IdleTypes, WriterTypes DEF TypeOK
    <2>2. wr' \in [Conns -> Writer]
      BY <1>0, <1>17, <2>1 DEF WriterRecheck, WriterEnds, TypeOK
    <2> QED
      BY <1>0, <1>17, <2>2 DEF WriterRecheck, TypeOK
  <1>18. ASSUME NEW c \in Conns, WriterEncode(c) PROVE TypeOK'
    <2>1. wr' \in [Conns -> Writer]
      <3>1. /\ [wr[c] EXCEPT !.pc = "select", !.m = NoObj, !.id = NoId] \in Writer
            /\ [IdleWriter EXCEPT !.pc = "done", !.failed = TRUE] \in Writer
        BY <1>0, IdleTypes, WriterTypes DEF TypeOK
      <3> QED
        BY <1>0, <1>18, <3>1 DEF WriterEncode, WriterEnds, TypeOK
    <2> DEFINE r == obj[wr[c].m].req
    <2>3. /\ Plus(buf[c], Packet(r)) \in [Ids -> Nat]
          /\ Plus(wire[c], Plus(buf[c], Packet(r))) \in [Ids -> Nat]
      BY <1>0, PlusType, PacketType DEF TypeOK
    <2>4. buf' \in [Conns -> [Ids -> Nat]]
      <3>1. \/ buf' = buf
            \/ buf' = [buf EXCEPT ![c] = NoPackets]
            \/ buf' = [buf EXCEPT ![c] = Plus(buf[c], Packet(r))]
        BY <1>18 DEF WriterEncode
      <3> QED
        BY <1>0, <2>3, <3>1, IdleTypes DEF TypeOK
    <2>5. wire' \in [Conns -> [Ids -> Nat]]
      BY ZenonT(60), <1>0, <1>18, <2>3 DEF WriterEncode, TypeOK
    <2> QED
      BY <1>0, <1>18, <2>1, <2>4, <2>5 DEF WriterEncode, TypeOK
  <1>19. ASSUME NEW c \in Conns, WriterFlush(c) PROVE TypeOK'
    <2>1. wr' \in [Conns -> Writer]
      BY <1>0, <1>19, WriterTypes DEF WriterFlush, TypeOK
    <2>2. wire' \in [Conns -> [Ids -> Nat]]
      BY <1>0, <1>19, PlusType DEF WriterFlush, TypeOK
    <2> QED
      BY <1>0, <1>19, <2>1, <2>2, IdleTypes DEF WriterFlush, TypeOK
  <1>20. ASSUME NEW c \in Conns, WriterFail(c) \/ WriterStop(c) PROVE TypeOK'
    BY ZenonT(60), <1>0, <1>20, IdleTypes, WriterTypes
    DEF WriterFail, WriterStop, WriterEnds, TypeOK
  <1>21. ASSUME NEW c \in Conns, NEW id \in Ids, ReaderReceive(c, id) PROVE TypeOK'
    <2>1. rd' \in [Conns -> Reader]
      <3>1. pending[c][id] \in Objs \cup {NoObj}
        BY <1>0 DEF TypeOK
      <3>2. [pc |-> "complete", m |-> pending[c][id], id |-> id] \in Reader
        BY <3>1 DEF Reader
      <3> QED
        BY ZenonT(60), <1>0, <1>21, <3>2 DEF ReaderReceive, TypeOK
    <2>2. wire' \in [Conns -> [Ids -> Nat]]
      BY <1>0, <1>21 DEF ReaderReceive, TypeOK
    <2>3. pending' \in [Conns -> [Ids -> Objs \cup {NoObj}]]
      <3>1. [pending EXCEPT ![c][id] = NoObj] \in [Conns -> [Ids -> Objs \cup {NoObj}]]
        BY <1>0, PendingUpdate
      <3> QED
        BY <1>0, <1>21, <3>1 DEF ReaderReceive, TypeOK
    <2> QED
      BY <1>0, <1>21, <2>1, <2>2, <2>3 DEF ReaderReceive, TypeOK
  <1>22. ASSUME NEW c \in Conns, ReaderComplete(c) PROVE TypeOK'
    <2>1. rd[c].id \in Ids
      BY <1>22 DEF IInv, ReaderInv, InFlight, ReaderComplete
    <2>2. obj' \in [Objs -> AsyncResult]
      BY <1>0, <1>22, <2>1, ResultTypes DEF ReaderComplete, TypeOK
    <2>3. count' \in 0..(CountMod - 1)
      BY <1>0, <1>22, ModRange DEF ReaderComplete, TypeOK
    <2> QED
      BY <1>0, <1>22, <2>2, <2>3, IdleTypes DEF ReaderComplete, TypeOK
  <1>23. ASSUME NEW c \in Conns, ReaderFail(c) PROVE TypeOK'
    BY <1>0, <1>23, ReaderTypes DEF ReaderFail, TypeOK
  <1>24. CASE Stop
    BY <1>0, <1>24 DEF Stop, TypeOK
  <1>25. CASE UNCHANGED vars
    BY <1>0, <1>25 DEF vars, TypeOK
  <1> QED
    BY <1>1, <1>2, <1>3, <1>4, <1>5, <1>6, <1>7, <1>8, <1>9, <1>10, <1>11, <1>12,
       <1>13, <1>14, <1>15, <1>16, <1>17, <1>18, <1>19, <1>20, <1>21, <1>22, <1>23,
       <1>24, <1>25
    DEF Next, CallerStep, HandlerStep, WriterStep, ReaderStep

-----------------------------------------------------------------------------
(* Where objects are: the channel after a send and after a receive.        *)

\* After a send the channel holds what it held and the new object.
LEMMA AfterSend ==
    ASSUME TypeOK, QueueDistinct, NEW m \in Objs, ~InQueue(m),
           queue' = Append(queue, m)
    PROVE  /\ QueueDistinct'
           /\ \A x \in Objs : InQueue(x)' <=> InQueue(x) \/ x = m
  <1> USE QueueAppend
  <1>1. QueueDistinct'
    BY DEF QueueDistinct, InQueue
  <1>2. \A x \in Objs : InQueue(x)' <=> InQueue(x) \/ x = m
    BY DEF InQueue
  <1> QED
    BY <1>1, <1>2

\* After a receive the channel holds what it held but its head.
LEMMA AfterReceive ==
    ASSUME TypeOK, QueueDistinct, queue # <<>>, queue' = Tail(queue)
    PROVE  /\ Head(queue) \in Objs
           /\ InQueue(Head(queue))
           /\ QueueDistinct'
           /\ \A x \in Objs : InQueue(x)' <=> InQueue(x) /\ x # Head(queue)
  <1> USE QueueTail
  <1>1. QueueDistinct'
    BY DEF QueueDistinct
  <1>2. InQueue(Head(queue))
    BY DEF InQueue
  <1>3. ASSUME NEW x \in Objs, InQueue(x)' PROVE InQueue(x) /\ x # Head(queue)
    BY <1>3 DEF InQueue, QueueDistinct
  <1>4. ASSUME NEW x \in Objs, InQueue(x), x # Head(queue) PROVE InQueue(x)'
    <2>1. PICK i \in 1..Len(queue) : queue[i] = x
      BY <1>4 DEF InQueue
    <2>2. i - 1 \in 1..Len(Tail(queue)) /\ Tail(queue)[i - 1] = x
      BY <1>4, <2>1
    <2> QED
      BY <2>2 DEF InQueue
  <1> QED
    BY <1>1, <1>2, <1>3, <1>4

-----------------------------------------------------------------------------
(* What closing Done and recycling do to an object, field by field.        *)

\* m.Error = e; close(m.Done) changes these two fields only.
LEMMA FailedFields ==
    ASSUME NEW o \in AsyncResult, NEW e
    PROVE  LET f == Failed(o, e) IN
           /\ f.done = "closed" /\ f.err = e /\ f.req = o.req /\ f.rsp = o.rsp
           /\ f.skip = o.skip /\ f.canceled = o.canceled
  BY DEF Failed, AsyncResult

\* releaseAsyncResult leaves canceled and skipResponse alone.
LEMMA ReleasedFields ==
    ASSUME NEW o \in AsyncResult
    PROVE  LET f == Released(o) IN
           /\ f.done = "nil" /\ f.rsp = NoId /\ f.req = NoId
           /\ f.skip = o.skip /\ f.canceled = o.canceled
  BY DEF Released, AsyncResult

\* The same for the object array: no other object is touched.
LEMMA FinishEffect ==
    ASSUME TypeOK, NEW m \in Objs, NEW e, Finish(m, e)
    PROVE  /\ pool' = pool
           /\ \A x \in Objs : x # m => obj'[x] = obj[x]
           /\ obj'[m].done = "closed" /\ obj'[m].err = e
           /\ obj'[m].req = obj[m].req /\ obj'[m].rsp = obj[m].rsp
           /\ obj'[m].skip = obj[m].skip /\ obj'[m].canceled = obj[m].canceled
  <1>1. obj[m] \in AsyncResult
    BY DEF TypeOK
  <1>2. obj'[m] = Failed(obj[m], e) /\ pool' = pool
    BY DEF Finish, TypeOK
  <1>3. \A x \in Objs : x # m => obj'[x] = obj[x]
    BY DEF Finish, TypeOK
  <1> QED
    BY <1>1, <1>2, <1>3, FailedFields

\* Recycling touches one object and adds it, and only it, to the pool.
LEMMA RecycleEffect ==
    ASSUME TypeOK, NEW m \in Objs, NEW usePool \in BOOLEAN, RecycleIf(usePool, m)
    PROVE  /\ \A x \in Objs : x # m => obj'[x] = obj[x]
           /\ ~usePool => obj' = obj /\ pool' = pool
           /\ usePool => /\ pool' = pool \cup {m}
                         /\ obj'[m].done = "nil"
                         /\ obj'[m].rsp = NoId /\ obj'[m].req = NoId
                         /\ obj'[m].skip = obj[m].skip
                         /\ obj'[m].canceled = obj[m].canceled
  <1>1. obj[m] \in AsyncResult
    BY DEF TypeOK
  <1>2. CASE usePool
    <2>1. obj'[m] = Released(obj[m]) /\ pool' = pool \cup {m}
      BY <1>2 DEF RecycleIf, TypeOK
    <2>2. \A x \in Objs : x # m => obj'[x] = obj[x]
      BY <1>2 DEF RecycleIf, TypeOK
    <2> QED
      BY <1>1, <1>2, <2>1, <2>2, ReleasedFields
  <1>3. CASE ~usePool
    BY <1>3 DEF RecycleIf
  <1> QED
    BY <1>2, <1>3

-----------------------------------------------------------------------------
(* Each action that moves an object preserves the invariant.               *)

\* The writer puts a request into the pending map (lines 254-261).
LEMMA RegisterKeeps ==
    ASSUME IInv, TypeOK', NEW c \in Conns, WriterRegister(c)
    PROVE  QueueDistinct' /\ QueueInv' /\ WriterInv' /\ PendingInv' /\ ReaderInv'
             /\ CallerInv' /\ PoolInv' /\ ResultInv' /\ NoLostCall'
  <1> USE DEF callVars, resVars, connVars, mapVars, goVars, netVars
  <1>0. TypeOK /\ QueueDistinct /\ QueueInv /\ WriterInv /\ PendingInv /\ ReaderInv
          /\ CallerInv /\ PoolInv /\ ConnInv /\ ResultInv /\ NoLostCall
    BY DEF IInv
  <1>1. /\ \A d \in Conns, i \in Ids : pending[d][i] \in Objs \cup {NoObj}
        /\ pool \subseteq Objs
    BY <1>0 DEF TypeOK
  <1>2. QueueDistinct' /\ \A m \in Objs : InQueue(m)' <=> InQueue(m)
    BY <1>0 DEF QueueDistinct, InQueue, WriterRegister
  <1>3. /\ seq' = seq /\ caller' = caller /\ obj' = obj /\ pool' = pool
        /\ conn' = conn /\ stopped' = stopped /\ rd' = rd /\ dropped' = dropped
    BY DEF WriterRegister
  <1>4. wr[c].pc = "register" /\ wr[c].id \in Ids /\ wr[c].m \in Objs
          /\ conn[c] \in {"up", "closing"}
    BY <1>0 DEF WriterRegister, WriterInv, ConnInv, TypeOK
  <1>5. /\ \A d \in Conns : d # c => wr'[d] = wr[d]
        /\ wr'[c].pc \in {"clean", "encode"} /\ wr'[c].m = wr[c].m /\ wr'[c].id = wr[c].id
    BY <1>0 DEF WriterRegister, TypeOK, Writer
  <1>6. \A d \in Conns, i \in Ids :
          pending'[d][i] = IF d = c /\ i = wr[c].id THEN wr[c].m ELSE pending[d][i]
    BY <1>0, <1>4 DEF WriterRegister, TypeOK
  <1>7. QueueInv'
    BY <1>0, <1>1, <1>2, <1>3, <1>4, <1>5, <1>6, ClientAssumption
    DEF QueueInv, Waits, InFlight
  <1>8. WriterInv'
    BY <1>0, <1>1, <1>2, <1>3, <1>4, <1>5, <1>6, ClientAssumption
    DEF WriterInv, InFlight
  <1>9. PendingInv'
    BY <1>0, <1>1, <1>2, <1>3, <1>4, <1>5, <1>6, ClientAssumption
    DEF PendingInv, InFlight, WriterInv
  <1>10. ReaderInv'
    BY <1>0, <1>1, <1>2, <1>3, <1>4, <1>5, <1>6, ClientAssumption
    DEF ReaderInv, InFlight
  <1>11. CallerInv'
    <2>1. ASSUME NEW j \in Callers PROVE CallerOwns(j)'
      BY <1>0, <1>1, <1>2, <1>3, <1>4, <1>5, <1>6, ClientAssumption
      DEF CallerInv, CallerOwns, CallersApart, Active
    <2>2. ASSUME NEW j \in Callers PROVE CallerUnqueued(j)'
      BY <1>0, <1>1, <1>2, <1>3, <1>4, <1>5, <1>6, ClientAssumption
      DEF CallerInv, CallerOwns, CallerUnqueued, CallersApart, Active, InFlight,
        AtWriter, AtReader
    <2>3. CallersApart'
      BY <1>0, <1>1, <1>2, <1>3, <1>4, <1>5, <1>6, ClientAssumption
      DEF CallerInv, CallerOwns, CallersApart, Active
    <2> QED
      BY <2>1, <2>2, <2>3 DEF CallerInv
  <1>12. PoolInv'
    BY <1>0, <1>1, <1>2, <1>3, <1>4, <1>5, <1>6, ClientAssumption DEF PoolInv, InFlight
  <1>13. ResultInv'
    BY <1>0, <1>1, <1>2, <1>3, <1>4, <1>5, <1>6, ClientAssumption
    DEF ResultInv, InFlight
  <1>14. NoLostCall'
    BY <1>0, <1>1, <1>2, <1>3, <1>4, <1>5, <1>6, ClientAssumption
    DEF NoLostCall, CallerInv, CallerOwns, CallerUnqueued, CallersApart, Active,
        AtWriter, AtReader, InPending, WriterInv
  <1> QED
    BY <1>2, <1>7, <1>8, <1>9, <1>10, <1>11, <1>12, <1>13, <1>14

\* The clean-up deletes the request just registered, if any (lines 266-273).
LEMMA CleanKeeps ==
    ASSUME IInv, TypeOK', NEW c \in Conns, WriterClean(c)
    PROVE  QueueDistinct' /\ QueueInv' /\ WriterInv' /\ PendingInv' /\ ReaderInv'
             /\ CallerInv' /\ PoolInv' /\ ResultInv' /\ NoLostCall'
  <1> USE DEF callVars, resVars, connVars, mapVars, goVars, netVars
  <1>0. TypeOK /\ QueueDistinct /\ QueueInv /\ WriterInv /\ PendingInv /\ ReaderInv
          /\ CallerInv /\ PoolInv /\ ConnInv /\ ResultInv /\ NoLostCall
    BY DEF IInv
  <1>1. /\ \A d \in Conns, i \in Ids : pending[d][i] \in Objs \cup {NoObj}
        /\ pool \subseteq Objs
    BY <1>0 DEF TypeOK
  <1>2. QueueDistinct' /\ \A m \in Objs : InQueue(m)' <=> InQueue(m)
    BY <1>0 DEF QueueDistinct, InQueue, WriterClean
  <1>3. /\ seq' = seq /\ caller' = caller /\ obj' = obj /\ pool' = pool
        /\ conn' = conn /\ stopped' = stopped /\ rd' = rd
    BY DEF WriterClean
  <1>4. wr[c].pc = "clean" /\ wr[c].id \in Ids /\ wr[c].m \in Objs
    BY <1>0 DEF WriterClean, WriterInv
  <1>5. /\ \A d \in Conns : d # c => wr'[d] = wr[d]
        /\ wr'[c].pc = "recheck" /\ wr'[c].m = wr[c].m /\ wr'[c].id = wr[c].id
    BY <1>0 DEF WriterClean, TypeOK, Writer
  <1>6. \/ pending' = pending
        \/ /\ pending' = [pending EXCEPT ![c][wr[c].id] = NoObj]
           /\ dropped' = dropped \cup ({pending[c][wr[c].id]} \ {NoObj})
    BY DEF WriterClean
  <1>7. \A d \in Conns, i \in Ids :
          \/ pending'[d][i] = pending[d][i]
          \/ pending'[d][i] = NoObj /\ pending[d][i] \in dropped'
    <2>1. CASE pending' = pending
      BY <2>1
    <2>2. CASE /\ pending' = [pending EXCEPT ![c][wr[c].id] = NoObj]
               /\ dropped' = dropped \cup ({pending[c][wr[c].id]} \ {NoObj})
      <3>1. \A d \in Conns, i \in Ids :
              pending'[d][i] = IF d = c /\ i = wr[c].id THEN NoObj ELSE pending[d][i]
        BY <1>0, <2>2, <1>4 DEF TypeOK
      <3>2. pending[c][wr[c].id] # NoObj => pending[c][wr[c].id] \in dropped'
        BY <2>2
      <3> QED
        BY <3>1, <3>2
    <2> QED
      BY <2>1, <2>2, <1>6
  <1>8. dropped \subseteq dropped'
    BY DEF WriterClean
  <1>9. QueueInv'
    BY <1>0, <1>1, <1>2, <1>3, <1>4, <1>5, <1>6, <1>7, <1>8, ClientAssumption
    DEF QueueInv, Waits, InFlight
  <1>10. WriterInv'
    BY <1>0, <1>1, <1>2, <1>3, <1>4, <1>5, <1>6, <1>7, <1>8, ClientAssumption
    DEF WriterInv, InFlight
  <1>11. PendingInv'
    BY <1>0, <1>1, <1>2, <1>3, <1>4, <1>5, <1>6, <1>7, <1>8, ClientAssumption
    DEF PendingInv, InFlight
  <1>12. ReaderInv'
    BY <1>0, <1>1, <1>2, <1>3, <1>4, <1>5, <1>6, <1>7, <1>8, ClientAssumption
    DEF ReaderInv, InFlight
  <1>13. CallerInv'
    <2>1. ASSUME NEW j \in Callers PROVE CallerOwns(j)'
      BY <1>0, <1>1, <1>2, <1>3, <1>4, <1>5, <1>6, <1>7, <1>8, ClientAssumption
      DEF CallerInv, CallerOwns, CallersApart, Active
    <2>2. ASSUME NEW j \in Callers PROVE CallerUnqueued(j)'
      BY <1>0, <1>1, <1>2, <1>3, <1>4, <1>5, <1>6, <1>7, <1>8, ClientAssumption
      DEF CallerInv, CallerOwns, CallerUnqueued, CallersApart, Active, InFlight,
        AtWriter, AtReader
    <2>3. CallersApart'
      BY <1>0, <1>1, <1>2, <1>3, <1>4, <1>5, <1>6, <1>7, <1>8, ClientAssumption
      DEF CallerInv, CallerOwns, CallersApart, Active
    <2> QED
      BY <2>1, <2>2, <2>3 DEF CallerInv
  <1>14. PoolInv'
    BY <1>0, <1>1, <1>2, <1>3, <1>4, <1>5, <1>6, <1>7, <1>8, ClientAssumption
    DEF PoolInv, InFlight
  <1>15. ResultInv'
    BY <1>0, <1>1, <1>2, <1>3, <1>4, <1>5, <1>6, <1>7, <1>8, ClientAssumption
    DEF ResultInv, InFlight
  <1>16. NoLostCall'
    BY <1>0, <1>1, <1>2, <1>3, <1>4, <1>5, <1>6, <1>7, <1>8, ClientAssumption
    DEF NoLostCall, CallerInv, CallerOwns, CallerUnqueued, CallersApart, Active,
        AtWriter, AtReader, InPending
  <1> QED
    BY <1>2, <1>9, <1>10, <1>11, <1>12, <1>13, <1>14, <1>15, <1>16

\* The reader takes a request out of the pending map (lines 311-321).
LEMMA ReadKeeps ==
    ASSUME IInv, TypeOK', NEW c \in Conns, NEW id \in Ids, ReaderReceive(c, id)
    PROVE  QueueDistinct' /\ QueueInv' /\ WriterInv' /\ PendingInv' /\ ReaderInv'
             /\ CallerInv' /\ PoolInv' /\ ResultInv' /\ NoLostCall'
  <1> USE DEF callVars, resVars, connVars, mapVars, goVars, netVars
  <1>0. TypeOK /\ QueueDistinct /\ QueueInv /\ WriterInv /\ PendingInv /\ ReaderInv
          /\ CallerInv /\ PoolInv /\ ConnInv /\ ResultInv /\ NoLostCall
    BY DEF IInv
  <1>1. /\ \A d \in Conns, i \in Ids : pending[d][i] \in Objs \cup {NoObj}
        /\ pool \subseteq Objs
    BY <1>0 DEF TypeOK
  <1>2. QueueDistinct' /\ \A m \in Objs : InQueue(m)' <=> InQueue(m)
    BY <1>0 DEF QueueDistinct, InQueue, ReaderReceive
  <1>3. /\ seq' = seq /\ caller' = caller /\ obj' = obj /\ pool' = pool
        /\ conn' = conn /\ stopped' = stopped /\ wr' = wr /\ dropped' = dropped
    BY DEF ReaderReceive
  <1>4. rd[c].pc = "read"
    BY DEF ReaderReceive
  <1>5. /\ \A d \in Conns : d # c => rd'[d] = rd[d]
        /\ IF pending[c][id] = NoObj THEN rd'[c] = rd[c]
           ELSE rd'[c].pc = "complete" /\ rd'[c].m = pending[c][id] /\ rd'[c].id = id
    BY <1>0 DEF ReaderReceive, TypeOK
  <1>6. \A d \in Conns, i \in Ids :
          pending'[d][i] = IF d = c /\ i = id THEN NoObj ELSE pending[d][i]
    BY <1>0 DEF ReaderReceive, TypeOK
  <1>7. QueueInv'
    BY <1>0, <1>1, <1>2, <1>3, <1>4, <1>5, <1>6, ClientAssumption
    DEF QueueInv, Waits, InFlight
  <1>8. WriterInv'
    BY <1>0, <1>1, <1>2, <1>3, <1>4, <1>5, <1>6, ClientAssumption
    DEF WriterInv, InFlight
  <1>9. PendingInv'
    BY <1>0, <1>1, <1>2, <1>3, <1>4, <1>5, <1>6, ClientAssumption
    DEF PendingInv, InFlight
  <1>10. ReaderInv'
    BY <1>0, <1>1, <1>2, <1>3, <1>4, <1>5, <1>6, ClientAssumption
    DEF ReaderInv, InFlight, PendingInv
  <1>11. CallerInv'
    <2>1. ASSUME NEW j \in Callers PROVE CallerOwns(j)'
      BY <1>0, <1>1, <1>2, <1>3, <1>4, <1>5, <1>6, ClientAssumption
      DEF CallerInv, CallerOwns, CallersApart, Active
    <2>2. ASSUME NEW j \in Callers PROVE CallerUnqueued(j)'
      BY <1>0, <1>1, <1>2, <1>3, <1>4, <1>5, <1>6, ClientAssumption
      DEF CallerInv, CallerOwns, CallerUnqueued, CallersApart, Active, InFlight,
        AtWriter, AtReader
    <2>3. CallersApart'
      BY <1>0, <1>1, <1>2, <1>3, <1>4, <1>5, <1>6, ClientAssumption
      DEF CallerInv, CallerOwns, CallersApart, Active
    <2> QED
      BY <2>1, <2>2, <2>3 DEF CallerInv
  <1>12. PoolInv'
    BY <1>0, <1>1, <1>2, <1>3, <1>4, <1>5, <1>6, ClientAssumption DEF PoolInv, InFlight
  <1>13. ResultInv'
    BY <1>0, <1>1, <1>2, <1>3, <1>4, <1>5, <1>6, ClientAssumption
    DEF ResultInv, InFlight
  <1>14. NoLostCall'
    BY <1>0, <1>1, <1>2, <1>3, <1>4, <1>5, <1>6, ClientAssumption
    DEF NoLostCall, CallerInv, CallerOwns, CallerUnqueued, CallersApart, Active,
        AtWriter, AtReader, InPending
  <1> QED
    BY <1>2, <1>7, <1>8, <1>9, <1>10, <1>11, <1>12, <1>13, <1>14

\* The reader stores the response and closes Done (lines 323-326).
LEMMA CompleteKeeps ==
    ASSUME IInv, TypeOK', NEW c \in Conns, ReaderComplete(c)
    PROVE  QueueDistinct' /\ QueueInv' /\ WriterInv' /\ PendingInv' /\ ReaderInv'
             /\ CallerInv' /\ PoolInv' /\ ResultInv' /\ NoLostCall'
  <1> USE DEF callVars, resVars, connVars, mapVars, goVars, netVars
  <1>0. TypeOK /\ QueueDistinct /\ QueueInv /\ WriterInv /\ PendingInv /\ ReaderInv
          /\ CallerInv /\ PoolInv /\ ConnInv /\ ResultInv /\ NoLostCall
    BY DEF IInv
  <1>1. /\ \A d \in Conns, i \in Ids : pending[d][i] \in Objs \cup {NoObj}
        /\ pool \subseteq Objs
    BY <1>0 DEF TypeOK
  <1>2. QueueDistinct' /\ \A m \in Objs : InQueue(m)' <=> InQueue(m)
    BY <1>0 DEF QueueDistinct, InQueue, ReaderComplete
  <1>3. /\ seq' = seq /\ caller' = caller /\ pool' = pool /\ conn' = conn
        /\ stopped' = stopped /\ wr' = wr /\ pending' = pending /\ dropped' = dropped
    BY DEF ReaderComplete
  <1>4. rd[c].pc = "complete" /\ InFlight(rd[c].m, rd[c].id)
    BY <1>0 DEF ReaderComplete, ReaderInv
  <1>5. /\ \A d \in Conns : d # c => rd'[d] = rd[d]
        /\ rd'[c].pc = "read"
    BY <1>0 DEF ReaderComplete, TypeOK, IdleReader
  <1>6. /\ \A m \in Objs : m # rd[c].m => obj'[m] = obj[m]
        /\ obj'[rd[c].m].done = "closed" /\ obj'[rd[c].m].rsp = rd[c].id
        /\ obj'[rd[c].m].req = obj[rd[c].m].req /\ obj'[rd[c].m].skip = obj[rd[c].m].skip
        /\ obj'[rd[c].m].canceled = obj[rd[c].m].canceled
    BY <1>0, <1>4 DEF ReaderComplete, TypeOK, AsyncResult, InFlight
  <1>7. rd[c].id # NoId
    BY <1>4 DEF InFlight, Ids, NoId
  <1>8. QueueInv'
    BY <1>0, <1>1, <1>2, <1>3, <1>4, <1>5, <1>6, <1>7, ClientAssumption
    DEF QueueInv, Waits, InFlight
  <1>9. WriterInv'
    BY <1>0, <1>1, <1>2, <1>3, <1>4, <1>5, <1>6, <1>7, ClientAssumption
    DEF WriterInv, InFlight
  <1>10. PendingInv'
    BY <1>0, <1>1, <1>2, <1>3, <1>4, <1>5, <1>6, <1>7, ClientAssumption
    DEF PendingInv, InFlight
  <1>11. ReaderInv'
    BY <1>0, <1>1, <1>2, <1>3, <1>4, <1>5, <1>6, <1>7, ClientAssumption
    DEF ReaderInv, InFlight
  <1>12. CallerInv'
    <2>1. ASSUME NEW j \in Callers PROVE CallerOwns(j)'
      BY <1>0, <1>1, <1>2, <1>3, <1>4, <1>5, <1>6, <1>7, ClientAssumption
      DEF CallerInv, CallerOwns, CallersApart, Active
    <2>2. ASSUME NEW j \in Callers PROVE CallerUnqueued(j)'
      BY <1>0, <1>1, <1>2, <1>3, <1>4, <1>5, <1>6, <1>7, ClientAssumption
      DEF CallerInv, CallerOwns, CallerUnqueued, CallersApart, Active, InFlight,
        AtWriter, AtReader
    <2>3. CallersApart'
      BY <1>0, <1>1, <1>2, <1>3, <1>4, <1>5, <1>6, <1>7, ClientAssumption
      DEF CallerInv, CallerOwns, CallersApart, Active
    <2> QED
      BY <2>1, <2>2, <2>3 DEF CallerInv
  <1>13. PoolInv'
    BY <1>0, <1>1, <1>2, <1>3, <1>4, <1>5, <1>6, <1>7, ClientAssumption
    DEF PoolInv, InFlight
  <1>14. ResultInv'
    BY <1>0, <1>1, <1>2, <1>3, <1>4, <1>5, <1>6, <1>7, ClientAssumption
    DEF ResultInv, InFlight
  <1>15. NoLostCall'
    BY <1>0, <1>1, <1>2, <1>3, <1>4, <1>5, <1>6, <1>7, ClientAssumption
    DEF NoLostCall, CallerInv, CallerOwns, CallerUnqueued, CallersApart, Active,
        AtWriter, AtReader, InPending
  <1> QED
    BY <1>2, <1>8, <1>9, <1>10, <1>11, <1>12, <1>13, <1>14, <1>15

\* A torn down connection fails one pending request (lines 195-201).
LEMMA DrainKeeps ==
    ASSUME IInv, TypeOK', NEW c \in Conns, NEW id \in Ids, Drain(c, id)
    PROVE  QueueDistinct' /\ QueueInv' /\ WriterInv' /\ PendingInv' /\ ReaderInv'
             /\ CallerInv' /\ PoolInv' /\ ResultInv' /\ NoLostCall'
  <1> USE DEF callVars, resVars, connVars, mapVars, goVars, netVars
  <1>0. TypeOK /\ QueueDistinct /\ QueueInv /\ WriterInv /\ PendingInv /\ ReaderInv
          /\ CallerInv /\ PoolInv /\ ConnInv /\ ResultInv /\ NoLostCall
    BY DEF IInv
  <1>1. /\ \A d \in Conns, i \in Ids : pending[d][i] \in Objs \cup {NoObj}
        /\ pool \subseteq Objs
    BY <1>0 DEF TypeOK
  <1>2. QueueDistinct' /\ \A m \in Objs : InQueue(m)' <=> InQueue(m)
    BY <1>0 DEF QueueDistinct, InQueue, Drain
  <1>3. /\ seq' = seq /\ caller' = caller /\ pool' = pool /\ conn' = conn
        /\ connErr' = connErr /\ stopped' = stopped /\ wr' = wr /\ rd' = rd
        /\ dropped' = dropped
    BY DEF Drain, Finish
  <1>4. conn[c] = "drain" /\ pending[c][id] \in Objs /\ InFlight(pending[c][id], id)
    BY <1>0, <1>1 DEF Drain, PendingInv
  <1>5. \A d \in Conns, i \in Ids :
          pending'[d][i] = IF d = c /\ i = id THEN NoObj ELSE pending[d][i]
    BY <1>0 DEF Drain, TypeOK
  <1>6. LET m == pending[c][id] IN
        /\ \A x \in Objs : x # m => obj'[x] = obj[x]
        /\ obj'[m].done = "closed" /\ obj'[m].rsp = obj[m].rsp
        /\ obj'[m].err = IF connErr[c] THEN "conn" ELSE "none"
        /\ obj'[m].req = obj[m].req /\ obj'[m].skip = obj[m].skip
        /\ obj'[m].canceled = obj[m].canceled
    BY <1>0, <1>4 DEF Drain, Finish, Failed, TypeOK, AsyncResult
  <1>7. QueueInv'
    BY <1>0, <1>1, <1>2, <1>3, <1>4, <1>5, <1>6, ClientAssumption
    DEF QueueInv, Waits, InFlight
  <1>8. WriterInv'
    BY <1>0, <1>1, <1>2, <1>3, <1>4, <1>5, <1>6, ClientAssumption
    DEF WriterInv, InFlight
  <1>9. PendingInv'
    BY <1>0, <1>1, <1>2, <1>3, <1>4, <1>5, <1>6, ClientAssumption
    DEF PendingInv, InFlight
  <1>10. ReaderInv'
    BY <1>0, <1>1, <1>2, <1>3, <1>4, <1>5, <1>6, ClientAssumption
    DEF ReaderInv, InFlight, PendingInv
  <1>11. CallerInv'
    <2>1. ASSUME NEW j \in Callers PROVE CallerOwns(j)'
      BY <1>0, <1>1, <1>2, <1>3, <1>4, <1>5, <1>6, ClientAssumption
      DEF CallerInv, CallerOwns, CallersApart, Active
    <2>2. ASSUME NEW j \in Callers PROVE CallerUnqueued(j)'
      BY <1>0, <1>1, <1>2, <1>3, <1>4, <1>5, <1>6, ClientAssumption
      DEF CallerInv, CallerOwns, CallerUnqueued, CallersApart, Active, InFlight,
        AtWriter, AtReader
    <2>3. CallersApart'
      BY <1>0, <1>1, <1>2, <1>3, <1>4, <1>5, <1>6, ClientAssumption
      DEF CallerInv, CallerOwns, CallersApart, Active
    <2> QED
      BY <2>1, <2>2, <2>3 DEF CallerInv
  <1>12. PoolInv'
    BY <1>0, <1>1, <1>2, <1>3, <1>4, <1>5, <1>6, ClientAssumption DEF PoolInv, InFlight
  <1>13. ResultInv'
    BY <1>0, <1>1, <1>2, <1>3, <1>4, <1>5, <1>6, ClientAssumption
    DEF ResultInv, InFlight, ConnInv
  <1>14. NoLostCall'
    BY <1>0, <1>1, <1>2, <1>3, <1>4, <1>5, <1>6, ClientAssumption
    DEF NoLostCall, CallerInv, CallerOwns, CallerUnqueued, CallersApart, Active,
        AtWriter, AtReader, InPending
  <1> QED
    BY <1>2, <1>7, <1>8, <1>9, <1>10, <1>11, <1>12, <1>13, <1>14

\* The writer takes a canceled request and closes its Done (lines 239-252).
LEMMA TakeCanceledKeeps ==
    ASSUME IInv, TypeOK', NEW c \in Conns, WriterTake(c), obj[Head(queue)].canceled
    PROVE  QueueDistinct' /\ QueueInv' /\ WriterInv' /\ PendingInv' /\ ReaderInv'
             /\ CallerInv' /\ PoolInv' /\ ResultInv' /\ NoLostCall'
  <1> USE DEF callVars, resVars, connVars, mapVars, goVars, netVars
  <1>0. TypeOK /\ QueueDistinct /\ QueueInv /\ WriterInv /\ PendingInv /\ ReaderInv
          /\ CallerInv /\ PoolInv /\ ConnInv /\ ResultInv /\ NoLostCall
    BY DEF IInv
  <1>1. /\ \A d \in Conns, i \in Ids : pending[d][i] \in Objs \cup {NoObj}
        /\ pool \subseteq Objs
    BY <1>0 DEF TypeOK
  <1>2. queue # <<>> /\ queue' = Tail(queue) /\ wr[c].pc \in {"select", "block"}
    BY DEF WriterTake
  <1>3. /\ Head(queue) \in Objs /\ InQueue(Head(queue)) /\ QueueDistinct'
        /\ \A x \in Objs : InQueue(x)' <=> InQueue(x) /\ x # Head(queue)
    BY <1>0, <1>2, AfterReceive
  <1>4. ~obj[Head(queue)].skip /\ obj[Head(queue)].done = "open"
    BY <1>0, <1>3 DEF QueueInv
  <1>5. Finish(Head(queue), "canceled")
    BY <1>4 DEF WriterTake
  <1>6. /\ seq' = seq /\ caller' = caller /\ pool' = pool /\ conn' = conn
        /\ stopped' = stopped /\ rd' = rd /\ pending' = pending /\ dropped' = dropped
    BY <1>5 DEF WriterTake, Finish
  <1>7. /\ \A d \in Conns : d # c => wr'[d] = wr[d]
        /\ wr'[c].pc = "select"
    BY <1>0 DEF WriterTake, TypeOK
  <1>8. /\ \A x \in Objs : x # Head(queue) => obj'[x] = obj[x]
        /\ LET m == Head(queue) IN
           /\ obj'[m].done = "closed" /\ obj'[m].err = "canceled"
           /\ obj'[m].req = obj[m].req /\ obj'[m].skip = obj[m].skip
           /\ obj'[m].rsp = obj[m].rsp /\ obj'[m].canceled = obj[m].canceled
    BY <1>0, <1>3, <1>5, FinishEffect
  <1>9. QueueInv'
    BY <1>0, <1>1, <1>2, <1>3, <1>4, <1>5, <1>6, <1>7, <1>8, ClientAssumption
    DEF QueueInv, Waits, InFlight
  <1>10. WriterInv'
    BY <1>0, <1>1, <1>2, <1>3, <1>4, <1>5, <1>6, <1>7, <1>8, ClientAssumption
    DEF WriterInv, InFlight
  <1>11. PendingInv'
    BY <1>0, <1>1, <1>2, <1>3, <1>4, <1>5, <1>6, <1>7, <1>8, ClientAssumption
    DEF PendingInv, InFlight
  <1>12. ReaderInv'
    BY <1>0, <1>1, <1>2, <1>3, <1>4, <1>5, <1>6, <1>7, <1>8, ClientAssumption
    DEF ReaderInv, InFlight
  <1>13. CallerInv'
    <2>1. ASSUME NEW j \in Callers PROVE CallerOwns(j)'
      BY <1>0, <1>1, <1>2, <1>3, <1>4, <1>5, <1>6, <1>7, <1>8, ClientAssumption
      DEF CallerInv, CallerOwns, CallersApart, Active
    <2>2. ASSUME NEW j \in Callers PROVE CallerUnqueued(j)'
      BY <1>0, <1>1, <1>2, <1>3, <1>4, <1>5, <1>6, <1>7, <1>8, ClientAssumption
      DEF CallerInv, CallerOwns, CallerUnqueued, CallersApart, Active, InFlight,
        AtWriter, AtReader
    <2>3. CallersApart'
      BY <1>0, <1>1, <1>2, <1>3, <1>4, <1>5, <1>6, <1>7, <1>8, ClientAssumption
      DEF CallerInv, CallerOwns, CallersApart, Active
    <2> QED
      BY <2>1, <2>2, <2>3 DEF CallerInv
  <1>14. PoolInv'
    BY <1>0, <1>1, <1>2, <1>3, <1>4, <1>5, <1>6, <1>7, <1>8, ClientAssumption
    DEF PoolInv, InFlight
  <1>15. ResultInv'
    BY <1>0, <1>1, <1>2, <1>3, <1>4, <1>5, <1>6, <1>7, <1>8, ClientAssumption
    DEF ResultInv, InFlight
  <1>16. NoLostCall'
    BY <1>0, <1>1, <1>2, <1>3, <1>4, <1>5, <1>6, <1>7, <1>8, ClientAssumption
    DEF NoLostCall, CallerInv, CallerOwns, CallerUnqueued, CallersApart, Active,
        AtWriter, AtReader, InPending
  <1> QED
    BY <1>3, <1>9, <1>10, <1>11, <1>12, <1>13, <1>14, <1>15, <1>16

\* The writer takes a request.  The entry it may overwrite later, under the same
\* sequence number, belongs to a call that timed out and is being retried.
LEMMA TakeKeeps ==
    ASSUME IInv, TypeOK', NEW c \in Conns, WriterTake(c), ~obj[Head(queue)].canceled
    PROVE  QueueDistinct' /\ QueueInv' /\ WriterInv' /\ PendingInv' /\ ReaderInv'
             /\ CallerInv' /\ PoolInv' /\ ResultInv' /\ NoLostCall'
  <1> USE DEF callVars, resVars, connVars, mapVars, goVars, netVars
  <1>0. TypeOK /\ QueueDistinct /\ QueueInv /\ WriterInv /\ PendingInv /\ ReaderInv
          /\ CallerInv /\ PoolInv /\ ConnInv /\ ResultInv /\ NoLostCall
    BY DEF IInv
  <1>1. /\ \A d \in Conns, i \in Ids : pending[d][i] \in Objs \cup {NoObj}
        /\ pool \subseteq Objs
    BY <1>0 DEF TypeOK
  <1>2. queue # <<>> /\ queue' = Tail(queue) /\ wr[c].pc \in {"select", "block"}
    BY DEF WriterTake
  <1>3. /\ Head(queue) \in Objs /\ InQueue(Head(queue)) /\ QueueDistinct'
        /\ \A x \in Objs : InQueue(x)' <=> InQueue(x) /\ x # Head(queue)
    BY <1>0, <1>2, AfterReceive
  <1>4. /\ seq' = seq /\ caller' = caller /\ pool' = pool /\ conn' = conn /\ obj' = obj
        /\ stopped' = stopped /\ rd' = rd /\ pending' = pending /\ dropped' = dropped
    BY DEF WriterTake
  <1>5. wr' = [wr EXCEPT ![c] =
          [pc |-> IF obj[Head(queue)].skip THEN "encode" ELSE "register",
           m |-> Head(queue), id |-> obj[Head(queue)].req,
           flush |-> TRUE, failed |-> FALSE]]
    BY DEF WriterTake
  <1>6. /\ \A d \in Conns : d # c => wr'[d] = wr[d]
        /\ wr'[c].pc = IF obj[Head(queue)].skip THEN "encode" ELSE "register"
        /\ wr'[c].m = Head(queue) /\ wr'[c].id = obj[Head(queue)].req
    BY <1>0, <1>5 DEF TypeOK
  <1>7. ~obj[Head(queue)].skip =>
          \A p \in Objs : p # Head(queue) /\ obj[p].req = obj[Head(queue)].req =>
            \A k \in Callers : caller[k].m # p
    <2>1. SUFFICES ASSUME ~obj[Head(queue)].skip, NEW p \in Objs, p # Head(queue),
                          obj[p].req = obj[Head(queue)].req,
                          NEW k \in Callers, caller[k].m = p
                   PROVE  FALSE
      OBVIOUS
    <2>2. PICK l \in Callers : Waits(l, Head(queue))
      BY <1>0, <2>1, <1>3 DEF QueueInv
    <2>3. Active(k) /\ Active(l) /\ caller[k].id = caller[l].id
      BY <1>0, <2>1, <2>2, ClientAssumption
      DEF CallerInv, CallerOwns, CallerUnqueued, CallersApart, Waits, Active
    <2> QED
      BY <1>0, <2>1, <2>2, <2>3
      DEF CallerInv, CallerOwns, CallerUnqueued, CallersApart, Waits, Active
  <1>8. QueueInv'
    BY <1>0, <1>1, <1>2, <1>3, <1>4, <1>5, <1>6, <1>7, ClientAssumption
    DEF QueueInv, Waits, InFlight
  <1>9. WriterInv'
    <2>1. ASSUME NEW d \in Conns, d # c PROVE WriterInv!(d)'
      BY <1>0, <1>1, <1>2, <1>3, <1>4, <1>6, <2>1, ClientAssumption
      DEF WriterInv, InFlight
    <2>2. WriterInv!(c)!1'
      BY <1>0, <1>3, <1>6 DEF QueueInv
    <2>3. PICK m, r : m \in Objs /\ m = Head(queue) /\ r = obj[m].req
      BY <1>3
    <2>4. ASSUME wr'[c].pc = "register"
          PROVE  /\ InFlight(m, r)'
                 /\ \A d \in Conns : wr'[d].pc = "register" /\ wr'[d].m = m => d = c
                 /\ \A d \in Conns : rd[d].pc = "complete" => rd[d].m # m
                 /\ \A d \in Conns, i \in Ids : pending[d][i] # m
      <3>1. InQueue(m) /\ ~InQueue(m)' /\ ~obj[m].skip
        BY <1>3, <1>6, <2>3, <2>4
      <3>2. InFlight(m, r)'
        BY <1>0, <1>4, <2>3, <3>1 DEF InFlight, QueueInv
      <3>3. \A d \in Conns : wr'[d].pc = "register" /\ wr'[d].m = m => d = c
        BY <1>0, <1>6, <2>3, <3>1 DEF WriterInv, InFlight
      <3>4. \A d \in Conns : rd[d].pc = "complete" => rd[d].m # m
        BY <1>0, <2>3, <3>1 DEF ReaderInv, InFlight
      <3>5. \A d \in Conns, i \in Ids : pending[d][i] # m
        BY <1>0, <1>1, <2>3, <3>1, ClientAssumption DEF PendingInv, InFlight
      <3> QED
        BY <3>2, <3>3, <3>4, <3>5
    <2>5. ASSUME wr'[c].pc = "register", r \in Ids, pending[c][r] # NoObj
          PROVE  \A k \in Callers : caller[k].m # pending[c][r]
      BY <1>0, <1>1, <1>6, <1>7, <2>3, <2>4, <2>5 DEF PendingInv, InFlight
    <2>6. WriterInv!(c)!2'
      BY <1>0, <1>3, <1>4, <1>6, <2>3, <2>4, <2>5 DEF QueueInv
    <2> QED
      BY <2>1, <2>2, <2>6 DEF WriterInv
  <1>10. PendingInv'
    BY <1>0, <1>1, <1>2, <1>3, <1>4, <1>5, <1>6, <1>7, ClientAssumption
    DEF PendingInv, InFlight
  <1>11. ReaderInv'
    BY <1>0, <1>1, <1>2, <1>3, <1>4, <1>5, <1>6, <1>7, ClientAssumption
    DEF ReaderInv, InFlight
  <1>12. CallerInv'
    <2>1. ASSUME NEW j \in Callers PROVE CallerOwns(j)'
      BY <1>0, <1>1, <1>2, <1>3, <1>4, <1>5, <1>6, <1>7, ClientAssumption
      DEF CallerInv, CallerOwns, CallersApart, Active
    <2>2. ASSUME NEW j \in Callers PROVE CallerUnqueued(j)'
      BY <1>0, <1>1, <1>2, <1>3, <1>4, <1>5, <1>6, <1>7, ClientAssumption
      DEF CallerInv, CallerOwns, CallerUnqueued, CallersApart, Active, InFlight,
        AtWriter, AtReader
    <2>3. CallersApart'
      BY <1>0, <1>1, <1>2, <1>3, <1>4, <1>5, <1>6, <1>7, ClientAssumption
      DEF CallerInv, CallerOwns, CallersApart, Active
    <2> QED
      BY <2>1, <2>2, <2>3 DEF CallerInv
  <1>13. PoolInv'
    BY <1>0, <1>1, <1>2, <1>3, <1>4, <1>5, <1>6, <1>7, ClientAssumption
    DEF PoolInv, InFlight
  <1>14. ResultInv'
    BY <1>0, <1>1, <1>2, <1>3, <1>4, <1>5, <1>6, <1>7, ClientAssumption
    DEF ResultInv, InFlight
  <1>15. NoLostCall'
    BY <1>0, <1>1, <1>2, <1>3, <1>4, <1>5, <1>6, <1>7, ClientAssumption
    DEF NoLostCall, CallerInv, CallerOwns, CallerUnqueued, CallersApart, Active,
        AtWriter, AtReader, InPending
  <1> QED
    BY <1>3, <1>8, <1>9, <1>10, <1>11, <1>12, <1>13, <1>14, <1>15

\* A caller that wants to evict finds the channel empty (line 418).
LEMMA EvictEmptyKeeps ==
    ASSUME IInv, TypeOK', NEW k \in Callers, Evict(k), queue = <<>>
    PROVE  QueueDistinct' /\ QueueInv' /\ WriterInv' /\ PendingInv' /\ ReaderInv'
             /\ CallerInv' /\ PoolInv' /\ ResultInv' /\ NoLostCall'
  <1> USE DEF callVars, resVars, connVars, mapVars, goVars, netVars
  <1>0. TypeOK /\ QueueDistinct /\ QueueInv /\ WriterInv /\ PendingInv /\ ReaderInv
          /\ CallerInv /\ PoolInv /\ ConnInv /\ ResultInv /\ NoLostCall
    BY DEF IInv
  <1>1. /\ \A d \in Conns, i \in Ids : pending[d][i] \in Objs \cup {NoObj}
        /\ pool \subseteq Objs
    BY <1>0 DEF TypeOK
  <1>2. /\ seq' = seq /\ wr' = wr /\ pool' = pool /\ conn' = conn /\ obj' = obj
        /\ queue' = queue
        /\ stopped' = stopped /\ rd' = rd /\ pending' = pending /\ dropped' = dropped
    BY DEF Evict
  <1>3. QueueDistinct' /\ \A m \in Objs : InQueue(m)' <=> InQueue(m)
    BY <1>0, <1>2 DEF QueueDistinct, InQueue
  <1>4. /\ \A l \in Callers : l # k => caller'[l] = caller[l]
        /\ caller[k].pc = "evict" /\ caller'[k].pc = "resend"
        /\ caller'[k].m = caller[k].m /\ caller'[k].id = caller[k].id
        /\ caller'[k].kind = caller[k].kind
    BY <1>0 DEF Evict, TypeOK, Caller
  <1>5. QueueInv'
    BY <1>0, <1>1, <1>2, <1>3, <1>4, ClientAssumption DEF QueueInv, Waits, InFlight
  <1>6. WriterInv'
    BY <1>0, <1>1, <1>2, <1>3, <1>4, ClientAssumption DEF WriterInv, InFlight
  <1>7. PendingInv'
    BY <1>0, <1>1, <1>2, <1>3, <1>4, ClientAssumption DEF PendingInv, InFlight
  <1>8. ReaderInv'
    BY <1>0, <1>1, <1>2, <1>3, <1>4, ClientAssumption DEF ReaderInv, InFlight
  <1>9. CallerInv'
    <2>1. ASSUME NEW j \in Callers PROVE CallerOwns(j)'
      BY <1>0, <1>1, <1>2, <1>3, <1>4, ClientAssumption
      DEF CallerInv, CallerOwns, CallersApart, Active
    <2>2. ASSUME NEW j \in Callers PROVE CallerUnqueued(j)'
      BY <1>0, <1>1, <1>2, <1>3, <1>4, ClientAssumption
      DEF CallerInv, CallerOwns, CallerUnqueued, CallersApart, Active, InFlight,
        AtWriter, AtReader
    <2>3. CallersApart'
      BY <1>0, <1>1, <1>2, <1>3, <1>4, ClientAssumption
      DEF CallerInv, CallerOwns, CallersApart, Active
    <2> QED
      BY <2>1, <2>2, <2>3 DEF CallerInv
  <1>10. PoolInv'
    BY <1>0, <1>1, <1>2, <1>3, <1>4, ClientAssumption DEF PoolInv, InFlight
  <1>11. ResultInv'
    BY <1>0, <1>1, <1>2, <1>3, <1>4, ClientAssumption DEF ResultInv, InFlight
  <1>12. NoLostCall'
    BY <1>0, <1>1, <1>2, <1>3, <1>4, ClientAssumption
    DEF NoLostCall, CallerInv, CallerOwns, CallerUnqueued, CallersApart, Active,
        AtWriter, AtReader, InPending
  <1> QED
    BY <1>3, <1>5, <1>6, <1>7, <1>8, <1>9, <1>10, <1>11, <1>12

\* A caller evicts the oldest queued request (lines 408-417).
LEMMA EvictKeeps ==
    ASSUME IInv, TypeOK', NEW k \in Callers, Evict(k), queue # <<>>
    PROVE  QueueDistinct' /\ QueueInv' /\ WriterInv' /\ PendingInv' /\ ReaderInv'
             /\ CallerInv' /\ PoolInv' /\ ResultInv' /\ NoLostCall'
  <1> USE DEF callVars, resVars, connVars, mapVars, goVars, netVars
  <1>0. TypeOK /\ QueueDistinct /\ QueueInv /\ WriterInv /\ PendingInv /\ ReaderInv
          /\ CallerInv /\ PoolInv /\ ConnInv /\ ResultInv /\ NoLostCall
    BY DEF IInv
  <1>1. /\ \A d \in Conns, i \in Ids : pending[d][i] \in Objs \cup {NoObj}
        /\ pool \subseteq Objs
    BY <1>0 DEF TypeOK
  <1>2. queue' = Tail(queue)
    BY DEF Evict
  <1>3. /\ Head(queue) \in Objs /\ InQueue(Head(queue)) /\ QueueDistinct'
        /\ \A x \in Objs : InQueue(x)' <=> InQueue(x) /\ x # Head(queue)
    BY <1>0, <1>2, AfterReceive
  <1>4. /\ seq' = seq /\ wr' = wr /\ conn' = conn
        /\ stopped' = stopped /\ rd' = rd /\ pending' = pending /\ dropped' = dropped
    BY DEF Evict
  <1>5. /\ \A l \in Callers : l # k => caller'[l] = caller[l]
        /\ caller[k].pc = "evict" /\ caller'[k].pc = "resend"
        /\ caller'[k].m = caller[k].m /\ caller'[k].id = caller[k].id
        /\ caller'[k].kind = caller[k].kind
    BY <1>0 DEF Evict, TypeOK, Caller
  <1>6. /\ obj[Head(queue)].done = IF obj[Head(queue)].skip THEN "nil" ELSE "open"
        /\ obj[Head(queue)].skip => ~obj[Head(queue)].canceled
    BY <1>0, <1>3 DEF QueueInv
  <1>7. \/ ~obj[Head(queue)].skip /\ Finish(Head(queue), "overflow")
        \/ obj[Head(queue)].skip /\ RecycleIf(caller[k].kind = "call", Head(queue))
    BY <1>6 DEF Evict
  <1>8. \A x \in Objs : x # Head(queue) => obj'[x] = obj[x]
    BY <1>0, <1>3, <1>7, FinishEffect, RecycleEffect
  <1>9. ~obj[Head(queue)].skip =>
          /\ pool' = pool
          /\ obj'[Head(queue)].done = "closed" /\ obj'[Head(queue)].err = "overflow"
          /\ obj'[Head(queue)].rsp = obj[Head(queue)].rsp
          /\ obj'[Head(queue)].req = obj[Head(queue)].req
          /\ obj'[Head(queue)].skip = obj[Head(queue)].skip
          /\ obj'[Head(queue)].canceled = obj[Head(queue)].canceled
    BY <1>0, <1>3, <1>7, FinishEffect
  <1>10. obj[Head(queue)].skip =>
          \/ pool' = pool /\ obj' = obj
          \/ /\ pool' = pool \cup {Head(queue)}
             /\ obj'[Head(queue)].done = "nil" /\ obj'[Head(queue)].rsp = NoId
             /\ ~obj'[Head(queue)].canceled
    BY <1>0, <1>3, <1>6, <1>7, RecycleEffect
  <1>11. QueueInv'
    BY <1>0, <1>1, <1>2, <1>3, <1>4, <1>5, <1>6, <1>7, <1>8, <1>9, <1>10,
       ClientAssumption
    DEF QueueInv, Waits, InFlight
  <1>12. WriterInv'
    BY <1>0, <1>1, <1>2, <1>3, <1>4, <1>5, <1>6, <1>7, <1>8, <1>9, <1>10,
       ClientAssumption
    DEF WriterInv, InFlight
  <1>13. PendingInv'
    BY <1>0, <1>1, <1>2, <1>3, <1>4, <1>5, <1>6, <1>7, <1>8, <1>9, <1>10,
       ClientAssumption
    DEF PendingInv, InFlight
  <1>14. ReaderInv'
    BY <1>0, <1>1, <1>2, <1>3, <1>4, <1>5, <1>6, <1>7, <1>8, <1>9, <1>10,
       ClientAssumption
    DEF ReaderInv, InFlight
  <1>15. CallerInv'
    <2>1. ASSUME NEW j \in Callers PROVE CallerOwns(j)'
      BY <1>0, <1>1, <1>2, <1>3, <1>4, <1>5, <1>6, <1>7, <1>8, <1>9, <1>10,
         ClientAssumption
      DEF CallerInv, CallerOwns, CallersApart, Active
    <2>2. ASSUME NEW j \in Callers PROVE CallerUnqueued(j)'
      BY <1>0, <1>1, <1>2, <1>3, <1>4, <1>5, <1>6, <1>7, <1>8, <1>9, <1>10,
         ClientAssumption
      DEF CallerInv, CallerOwns, CallerUnqueued, CallersApart, Active, InFlight,
          AtWriter, AtReader
    <2>3. CallersApart'
      BY <1>0, <1>1, <1>2, <1>3, <1>4, <1>5, <1>6, <1>7, <1>8, <1>9, <1>10,
         ClientAssumption
      DEF CallerInv, CallerOwns, CallersApart, Active
    <2> QED
      BY <2>1, <2>2, <2>3 DEF CallerInv
  <1>16. PoolInv'
    BY <1>0, <1>1, <1>2, <1>3, <1>4, <1>5, <1>6, <1>7, <1>8, <1>9, <1>10,
       ClientAssumption
    DEF PoolInv, InFlight
  <1>17. ResultInv'
    BY <1>0, <1>1, <1>2, <1>3, <1>4, <1>5, <1>6, <1>7, <1>8, <1>9, <1>10,
       ClientAssumption
    DEF ResultInv, InFlight
  <1>18. NoLostCall'
    BY <1>0, <1>1, <1>2, <1>3, <1>4, <1>5, <1>6, <1>7, <1>8, <1>9, <1>10,
       ClientAssumption
    DEF NoLostCall, CallerInv, CallerOwns, CallerUnqueued, CallersApart, Active,
        AtWriter, AtReader, InPending
  <1> QED
    BY <1>3, <1>11, <1>12, <1>13, <1>14, <1>15, <1>16, <1>17, <1>18

\* The second attempt to queue the request succeeds (line 421).
LEMMA ResendKeeps ==
    ASSUME IInv, TypeOK', NEW k \in Callers, Resend(k), Len(queue) < PendingRequests
    PROVE  QueueDistinct' /\ QueueInv' /\ WriterInv' /\ PendingInv' /\ ReaderInv'
             /\ CallerInv' /\ PoolInv' /\ ResultInv' /\ NoLostCall'
  <1> USE DEF callVars, resVars, connVars, mapVars, goVars, netVars
  <1>0. TypeOK /\ QueueDistinct /\ QueueInv /\ WriterInv /\ PendingInv /\ ReaderInv
          /\ CallerInv /\ PoolInv /\ ConnInv /\ ResultInv /\ NoLostCall
    BY DEF IInv
  <1>1. /\ \A d \in Conns, i \in Ids : pending[d][i] \in Objs \cup {NoObj}
        /\ pool \subseteq Objs
    BY <1>0 DEF TypeOK
  <1>2. caller[k].pc = "resend" /\ InFlight(caller[k].m, caller[k].id)
    BY <1>0 DEF Resend, CallerInv, CallerOwns, CallerUnqueued, CallersApart
  <1>3. queue' = Append(queue, caller[k].m)
    BY <1>0, ClientAssumption, LenProperties DEF Resend, TypeOK
  <1>4. /\ QueueDistinct'
        /\ \A x \in Objs : InQueue(x)' <=> InQueue(x) \/ x = caller[k].m
    BY <1>0, <1>2, <1>3, AfterSend DEF InFlight
  <1>5. /\ seq' = seq /\ wr' = wr /\ conn' = conn /\ obj' = obj /\ pool' = pool
        /\ stopped' = stopped /\ rd' = rd /\ pending' = pending /\ dropped' = dropped
    BY <1>0, ClientAssumption, LenProperties DEF Resend, TypeOK
  <1>6. /\ \A l \in Callers : l # k => caller'[l] = caller[l]
        /\ caller'[k].pc = "wait"
        /\ caller'[k].m = caller[k].m /\ caller'[k].id = caller[k].id
        /\ caller'[k].kind = caller[k].kind
    BY <1>0, ClientAssumption, LenProperties DEF Resend, TypeOK, Caller
  <1>7. QueueInv'
    BY <1>0, <1>1, <1>2, <1>3, <1>4, <1>5, <1>6, ClientAssumption
    DEF QueueInv, Waits, InFlight
  <1>8. WriterInv'
    BY <1>0, <1>1, <1>2, <1>3, <1>4, <1>5, <1>6, ClientAssumption
    DEF WriterInv, InFlight, CallerInv, CallerOwns, CallerUnqueued, CallersApart, AtWriter
  <1>9. PendingInv'
    BY <1>0, <1>1, <1>2, <1>3, <1>4, <1>5, <1>6, ClientAssumption
    DEF PendingInv, InFlight, CallerInv, CallerOwns, CallerUnqueued, CallersApart
  <1>10. ReaderInv'
    BY <1>0, <1>1, <1>2, <1>3, <1>4, <1>5, <1>6, ClientAssumption
    DEF ReaderInv, InFlight, CallerInv, CallerOwns, CallerUnqueued, CallersApart, AtReader
  <1>11. CallerInv'
    <2>1. ASSUME NEW j \in Callers PROVE CallerOwns(j)'
      BY <1>0, <1>1, <1>2, <1>3, <1>4, <1>5, <1>6, ClientAssumption
      DEF CallerInv, CallerOwns, CallersApart, Active
    <2>2. ASSUME NEW j \in Callers PROVE CallerUnqueued(j)'
      BY <1>0, <1>1, <1>2, <1>3, <1>4, <1>5, <1>6, ClientAssumption
      DEF CallerInv, CallerOwns, CallerUnqueued, CallersApart, Active, InFlight,
        AtWriter, AtReader
    <2>3. CallersApart'
      BY <1>0, <1>1, <1>2, <1>3, <1>4, <1>5, <1>6, ClientAssumption
      DEF CallerInv, CallerOwns, CallersApart, Active
    <2> QED
      BY <2>1, <2>2, <2>3 DEF CallerInv
  <1>12. PoolInv'
    BY <1>0, <1>1, <1>2, <1>3, <1>4, <1>5, <1>6, ClientAssumption DEF PoolInv, InFlight
  <1>13. ResultInv'
    BY <1>0, <1>1, <1>2, <1>3, <1>4, <1>5, <1>6, ClientAssumption
    DEF ResultInv, InFlight
  <1>14. NoLostCall'
    BY <1>0, <1>1, <1>2, <1>3, <1>4, <1>5, <1>6, ClientAssumption
    DEF NoLostCall, CallerInv, CallerOwns, CallerUnqueued, CallersApart, Active,
        AtWriter, AtReader, InPending
  <1> QED
    BY <1>4, <1>7, <1>8, <1>9, <1>10, <1>11, <1>12, <1>13, <1>14

\* The second attempt fails and the caller gives up (lines 423-426).
LEMMA ResendFullKeeps ==
    ASSUME IInv, TypeOK', NEW k \in Callers, Resend(k), Len(queue) >= PendingRequests
    PROVE  QueueDistinct' /\ QueueInv' /\ WriterInv' /\ PendingInv' /\ ReaderInv'
             /\ CallerInv' /\ PoolInv' /\ ResultInv' /\ NoLostCall'
  <1> USE DEF callVars, resVars, connVars, mapVars, goVars, netVars
  <1>0. TypeOK /\ QueueDistinct /\ QueueInv /\ WriterInv /\ PendingInv /\ ReaderInv
          /\ CallerInv /\ PoolInv /\ ConnInv /\ ResultInv /\ NoLostCall
    BY DEF IInv
  <1>1. /\ \A d \in Conns, i \in Ids : pending[d][i] \in Objs \cup {NoObj}
        /\ pool \subseteq Objs
    BY <1>0 DEF TypeOK
  <1>2. /\ caller[k].pc = "resend" /\ InFlight(caller[k].m, caller[k].id)
        /\ ~obj[caller[k].m].canceled
    BY <1>0 DEF Resend, CallerInv, CallerOwns, CallerUnqueued, CallersApart
  <1>3. /\ seq' = seq /\ wr' = wr /\ conn' = conn /\ queue' = queue
        /\ RecycleIf(caller[k].kind = "call", caller[k].m)
        /\ stopped' = stopped /\ rd' = rd /\ pending' = pending /\ dropped' = dropped
    BY <1>0, ClientAssumption, LenProperties DEF Resend, TypeOK
  <1>4. QueueDistinct' /\ \A m \in Objs : InQueue(m)' <=> InQueue(m)
    BY <1>0, <1>3 DEF QueueDistinct, InQueue
  <1>5. /\ \A l \in Callers : l # k => caller'[l] = caller[l]
        /\ caller'[k].pc = "idle" /\ caller'[k].m = NoObj
    BY <1>0, ClientAssumption, LenProperties DEF Resend, TypeOK, IdleCaller
  <1>6. /\ \A x \in Objs : x # caller[k].m => obj'[x] = obj[x]
        /\ \/ pool' = pool /\ obj' = obj
           \/ /\ pool' = pool \cup {caller[k].m}
              /\ obj'[caller[k].m].done = "nil" /\ obj'[caller[k].m].rsp = NoId
              /\ ~obj'[caller[k].m].canceled
    BY <1>0, <1>2, <1>3, RecycleEffect DEF InFlight
  <1>7. QueueInv'
    BY <1>0, <1>1, <1>2, <1>3, <1>4, <1>5, <1>6, ClientAssumption
    DEF QueueInv, Waits, InFlight
  <1>8. WriterInv'
    BY <1>0, <1>1, <1>2, <1>3, <1>4, <1>5, <1>6, ClientAssumption
    DEF WriterInv, InFlight, CallerInv, CallerOwns, CallerUnqueued, CallersApart, AtWriter
  <1>9. PendingInv'
    BY <1>0, <1>1, <1>2, <1>3, <1>4, <1>5, <1>6, ClientAssumption
    DEF PendingInv, InFlight, CallerInv, CallerOwns, CallerUnqueued, CallersApart
  <1>10. ReaderInv'
    BY <1>0, <1>1, <1>2, <1>3, <1>4, <1>5, <1>6, ClientAssumption
    DEF ReaderInv, InFlight, CallerInv, CallerOwns, CallerUnqueued, CallersApart, AtReader
  <1>11. CallerInv'
    <2>1. ASSUME NEW j \in Callers PROVE CallerOwns(j)'
      BY <1>0, <1>1, <1>2, <1>3, <1>4, <1>5, <1>6, ClientAssumption
      DEF CallerInv, CallerOwns, CallersApart, Active
    <2>2. ASSUME NEW j \in Callers PROVE CallerUnqueued(j)'
      BY <1>0, <1>1, <1>2, <1>3, <1>4, <1>5, <1>6, ClientAssumption
      DEF CallerInv, CallerOwns, CallerUnqueued, CallersApart, Active, InFlight,
        AtWriter, AtReader
    <2>3. CallersApart'
      BY <1>0, <1>1, <1>2, <1>3, <1>4, <1>5, <1>6, ClientAssumption
      DEF CallerInv, CallerOwns, CallersApart, Active
    <2> QED
      BY <2>1, <2>2, <2>3 DEF CallerInv
  <1>12. PoolInv'
    BY <1>0, <1>1, <1>2, <1>3, <1>4, <1>5, <1>6, ClientAssumption DEF PoolInv, InFlight
  <1>13. ResultInv'
    BY <1>0, <1>1, <1>2, <1>3, <1>4, <1>5, <1>6, ClientAssumption
    DEF ResultInv, InFlight
  <1>14. NoLostCall'
    BY <1>0, <1>1, <1>2, <1>3, <1>4, <1>5, <1>6, ClientAssumption
    DEF NoLostCall, CallerInv, CallerOwns, CallerUnqueued, CallersApart, Active,
        AtWriter, AtReader, InPending
  <1> QED
    BY <1>4, <1>7, <1>8, <1>9, <1>10, <1>11, <1>12, <1>13, <1>14

\* The caller sees Done closed and recycles the object (lines 355-361).
LEMMA ReceiveKeeps ==
    ASSUME IInv, TypeOK', NEW k \in Callers, Receive(k)
    PROVE  QueueDistinct' /\ QueueInv' /\ WriterInv' /\ PendingInv' /\ ReaderInv'
             /\ CallerInv' /\ PoolInv' /\ ResultInv' /\ NoLostCall'
  <1> USE DEF callVars, resVars, connVars, mapVars, goVars, netVars
  <1>0. TypeOK /\ QueueDistinct /\ QueueInv /\ WriterInv /\ PendingInv /\ ReaderInv
          /\ CallerInv /\ PoolInv /\ ConnInv /\ ResultInv /\ NoLostCall
    BY DEF IInv
  <1>1. /\ \A d \in Conns, i \in Ids : pending[d][i] \in Objs \cup {NoObj}
        /\ pool \subseteq Objs
    BY <1>0 DEF TypeOK
  <1>2. /\ seq' = seq /\ wr' = wr /\ conn' = conn /\ queue' = queue /\ stopped' = stopped
        /\ rd' = rd /\ pending' = pending /\ dropped' = dropped
    BY DEF Receive
  <1>3. QueueDistinct' /\ \A m \in Objs : InQueue(m)' <=> InQueue(m)
    BY <1>0, <1>2 DEF QueueDistinct, InQueue
  <1>4. /\ caller[k].pc = "wait" /\ Active(k)
        /\ caller[k].m \in Objs \ pool /\ ~obj[caller[k].m].skip
        /\ obj[caller[k].m].done = "closed"
        /\ caller[k].kind = "call" => ~obj[caller[k].m].canceled
    BY <1>0 DEF Receive, Active, CallerInv, CallerOwns, CallerUnqueued, CallersApart
  <1>5. /\ \A l \in Callers : l # k => caller'[l] = caller[l]
        /\ caller'[k].pc = "idle" /\ caller'[k].m = NoObj
    BY <1>0 DEF Receive, TypeOK, IdleCaller
  <1>6. RecycleIf(caller[k].kind = "call", caller[k].m)
    BY DEF Receive
  <1>7. /\ \A x \in Objs : x # caller[k].m => obj'[x] = obj[x]
        /\ \/ pool' = pool /\ obj' = obj
           \/ /\ pool' = pool \cup {caller[k].m}
              /\ obj'[caller[k].m].done = "nil" /\ obj'[caller[k].m].rsp = NoId
              /\ ~obj'[caller[k].m].canceled
    BY <1>0, <1>4, <1>6, RecycleEffect
  <1>8. QueueInv'
    BY <1>0, <1>1, <1>2, <1>3, <1>4, <1>5, <1>6, <1>7, ClientAssumption
    DEF QueueInv, Waits, InFlight
  <1>9. WriterInv'
    BY <1>0, <1>1, <1>2, <1>3, <1>4, <1>5, <1>6, <1>7, ClientAssumption
    DEF WriterInv, InFlight
  <1>10. PendingInv'
    BY <1>0, <1>1, <1>2, <1>3, <1>4, <1>5, <1>6, <1>7, ClientAssumption
    DEF PendingInv, InFlight
  <1>11. ReaderInv'
    BY <1>0, <1>1, <1>2, <1>3, <1>4, <1>5, <1>6, <1>7, ClientAssumption
    DEF ReaderInv, InFlight
  <1>12. CallerInv'
    <2>1. ASSUME NEW j \in Callers PROVE CallerOwns(j)'
      BY <1>0, <1>1, <1>2, <1>3, <1>4, <1>5, <1>6, <1>7, ClientAssumption
      DEF CallerInv, CallerOwns, CallersApart, Active
    <2>2. ASSUME NEW j \in Callers PROVE CallerUnqueued(j)'
      BY <1>0, <1>1, <1>2, <1>3, <1>4, <1>5, <1>6, <1>7, ClientAssumption
      DEF CallerInv, CallerOwns, CallerUnqueued, CallersApart, Active, InFlight,
        AtWriter, AtReader
    <2>3. CallersApart'
      BY <1>0, <1>1, <1>2, <1>3, <1>4, <1>5, <1>6, <1>7, ClientAssumption
      DEF CallerInv, CallerOwns, CallersApart, Active
    <2> QED
      BY <2>1, <2>2, <2>3 DEF CallerInv
  <1>13. PoolInv'
    BY <1>0, <1>1, <1>2, <1>3, <1>4, <1>5, <1>6, <1>7, ClientAssumption
    DEF PoolInv, InFlight
  <1>14. ResultInv'
    BY <1>0, <1>1, <1>2, <1>3, <1>4, <1>5, <1>6, <1>7, ClientAssumption
    DEF ResultInv, InFlight
  <1>15. NoLostCall'
    BY <1>0, <1>1, <1>2, <1>3, <1>4, <1>5, <1>6, <1>7, ClientAssumption
    DEF NoLostCall, CallerInv, CallerOwns, CallerUnqueued, CallersApart, Active,
        AtWriter, AtReader, InPending
  <1> QED
    BY <1>3, <1>8, <1>9, <1>10, <1>11, <1>12, <1>13, <1>14, <1>15

\* The caller's timer fires and it cancels the object (lines 362-373).
LEMMA TimeoutKeeps ==
    ASSUME IInv, TypeOK', NEW k \in Callers, Timeout(k)
    PROVE  QueueDistinct' /\ QueueInv' /\ WriterInv' /\ PendingInv' /\ ReaderInv'
             /\ CallerInv' /\ PoolInv' /\ ResultInv' /\ NoLostCall'
  <1> USE DEF callVars, resVars, connVars, mapVars, goVars, netVars
  <1>0. TypeOK /\ QueueDistinct /\ QueueInv /\ WriterInv /\ PendingInv /\ ReaderInv
          /\ CallerInv /\ PoolInv /\ ConnInv /\ ResultInv /\ NoLostCall
    BY DEF IInv
  <1>1. /\ \A d \in Conns, i \in Ids : pending[d][i] \in Objs \cup {NoObj}
        /\ pool \subseteq Objs
    BY <1>0 DEF TypeOK
  <1>2. /\ seq' = seq /\ wr' = wr /\ conn' = conn /\ queue' = queue /\ stopped' = stopped
        /\ rd' = rd /\ pending' = pending /\ dropped' = dropped /\ pool' = pool
    BY DEF Timeout
  <1>3. QueueDistinct' /\ \A m \in Objs : InQueue(m)' <=> InQueue(m)
    BY <1>0, <1>2 DEF QueueDistinct, InQueue
  <1>4. /\ caller[k].pc = "wait" /\ Active(k)
        /\ caller[k].m \in Objs \ pool /\ ~obj[caller[k].m].skip
    BY <1>0 DEF Timeout, Active, CallerInv, CallerOwns, CallerUnqueued, CallersApart
  <1>5. /\ \A l \in Callers : l # k => caller'[l] = caller[l]
        /\ caller'[k].m = NoObj
        /\ \/ caller'[k].pc = "idle"
           \/ /\ caller'[k].pc = "retry" /\ caller'[k].id = caller[k].id
              /\ caller'[k].kind = caller[k].kind
    BY <1>0 DEF Timeout, TypeOK, Caller, IdleCaller
  <1>6. /\ \A x \in Objs : x # caller[k].m => obj'[x] = obj[x]
        /\ LET m == caller[k].m IN
           /\ obj'[m].req = obj[m].req /\ obj'[m].done = obj[m].done
           /\ obj'[m].rsp = obj[m].rsp /\ obj'[m].err = obj[m].err
           /\ obj'[m].skip = obj[m].skip /\ obj'[m].canceled
    BY <1>0, <1>4 DEF Timeout, TypeOK, AsyncResult
  <1>7. QueueInv'
    BY <1>0, <1>1, <1>2, <1>3, <1>4, <1>5, <1>6, ClientAssumption
    DEF QueueInv, Waits, InFlight
  <1>8. WriterInv'
    BY <1>0, <1>1, <1>2, <1>3, <1>4, <1>5, <1>6, ClientAssumption
    DEF WriterInv, InFlight
  <1>9. PendingInv'
    BY <1>0, <1>1, <1>2, <1>3, <1>4, <1>5, <1>6, ClientAssumption
    DEF PendingInv, InFlight
  <1>10. ReaderInv'
    BY <1>0, <1>1, <1>2, <1>3, <1>4, <1>5, <1>6, ClientAssumption
    DEF ReaderInv, InFlight
  <1>11. CallerInv'
    <2>1. ASSUME NEW j \in Callers PROVE CallerOwns(j)'
      BY <1>0, <1>1, <1>2, <1>3, <1>4, <1>5, <1>6, ClientAssumption
      DEF CallerInv, CallerOwns, CallersApart, Active
    <2>2. ASSUME NEW j \in Callers PROVE CallerUnqueued(j)'
      BY <1>0, <1>1, <1>2, <1>3, <1>4, <1>5, <1>6, ClientAssumption
      DEF CallerInv, CallerOwns, CallerUnqueued, CallersApart, Active, InFlight,
        AtWriter, AtReader
    <2>3. CallersApart'
      BY <1>0, <1>1, <1>2, <1>3, <1>4, <1>5, <1>6, ClientAssumption
      DEF CallerInv, CallerOwns, CallersApart, Active
    <2> QED
      BY <2>1, <2>2, <2>3 DEF CallerInv
  <1>12. PoolInv'
    BY <1>0, <1>1, <1>2, <1>3, <1>4, <1>5, <1>6, ClientAssumption DEF PoolInv, InFlight
  <1>13. ResultInv'
    BY <1>0, <1>1, <1>2, <1>3, <1>4, <1>5, <1>6, ClientAssumption
    DEF ResultInv, InFlight
  <1>14. NoLostCall'
    BY <1>0, <1>1, <1>2, <1>3, <1>4, <1>5, <1>6, ClientAssumption
    DEF NoLostCall, CallerInv, CallerOwns, CallerUnqueued, CallersApart, Active,
        AtWriter, AtReader, InPending
  <1> QED
    BY <1>3, <1>7, <1>8, <1>9, <1>10, <1>11, <1>12, <1>13, <1>14

\* The user of CallAsync cancels (lines 449-451).
LEMMA CancelKeeps ==
    ASSUME IInv, TypeOK', NEW k \in Callers, Cancel(k)
    PROVE  QueueDistinct' /\ QueueInv' /\ WriterInv' /\ PendingInv' /\ ReaderInv'
             /\ CallerInv' /\ PoolInv' /\ ResultInv' /\ NoLostCall'
  <1> USE DEF callVars, resVars, connVars, mapVars, goVars, netVars
  <1>0. TypeOK /\ QueueDistinct /\ QueueInv /\ WriterInv /\ PendingInv /\ ReaderInv
          /\ CallerInv /\ PoolInv /\ ConnInv /\ ResultInv /\ NoLostCall
    BY DEF IInv
  <1>1. /\ \A d \in Conns, i \in Ids : pending[d][i] \in Objs \cup {NoObj}
        /\ pool \subseteq Objs
    BY <1>0 DEF TypeOK
  <1>2. /\ seq' = seq /\ wr' = wr /\ conn' = conn /\ queue' = queue /\ stopped' = stopped
        /\ rd' = rd /\ pending' = pending /\ dropped' = dropped
        /\ pool' = pool /\ caller' = caller
    BY DEF Cancel
  <1>3. QueueDistinct' /\ \A m \in Objs : InQueue(m)' <=> InQueue(m)
    BY <1>0, <1>2 DEF QueueDistinct, InQueue
  <1>4. /\ caller[k].pc = "wait" /\ Active(k)
        /\ caller[k].m \in Objs \ pool /\ ~obj[caller[k].m].skip /\ caller[k].kind = "async"
    BY <1>0 DEF Cancel, Active, CallerInv, CallerOwns, CallerUnqueued, CallersApart
  <1>5. /\ \A x \in Objs : x # caller[k].m => obj'[x] = obj[x]
        /\ LET m == caller[k].m IN
           /\ obj'[m].req = obj[m].req /\ obj'[m].done = obj[m].done
           /\ obj'[m].rsp = obj[m].rsp /\ obj'[m].err = obj[m].err
           /\ obj'[m].skip = obj[m].skip /\ obj'[m].canceled
    BY <1>0, <1>4 DEF Cancel, TypeOK, AsyncResult
  <1>6. QueueInv'
    BY <1>0, <1>1, <1>2, <1>3, <1>4, <1>5, ClientAssumption
    DEF QueueInv, Waits, InFlight
  <1>7. WriterInv'
    BY <1>0, <1>1, <1>2, <1>3, <1>4, <1>5, ClientAssumption DEF WriterInv, InFlight
  <1>8. PendingInv'
    BY <1>0, <1>1, <1>2, <1>3, <1>4, <1>5, ClientAssumption DEF PendingInv, InFlight
  <1>9. ReaderInv'
    BY <1>0, <1>1, <1>2, <1>3, <1>4, <1>5, ClientAssumption DEF ReaderInv, InFlight
  <1>10. CallerInv'
    <2>1. ASSUME NEW j \in Callers PROVE CallerOwns(j)'
      BY <1>0, <1>1, <1>2, <1>3, <1>4, <1>5, ClientAssumption
      DEF CallerInv, CallerOwns, CallersApart, Active
    <2>2. ASSUME NEW j \in Callers PROVE CallerUnqueued(j)'
      BY <1>0, <1>1, <1>2, <1>3, <1>4, <1>5, ClientAssumption
      DEF CallerInv, CallerOwns, CallerUnqueued, CallersApart, Active, InFlight,
        AtWriter, AtReader
    <2>3. CallersApart'
      BY <1>0, <1>1, <1>2, <1>3, <1>4, <1>5, ClientAssumption
      DEF CallerInv, CallerOwns, CallersApart, Active
    <2> QED
      BY <2>1, <2>2, <2>3 DEF CallerInv
  <1>11. PoolInv'
    BY <1>0, <1>1, <1>2, <1>3, <1>4, <1>5, ClientAssumption DEF PoolInv, InFlight
  <1>12. ResultInv'
    BY <1>0, <1>1, <1>2, <1>3, <1>4, <1>5, ClientAssumption DEF ResultInv, InFlight
  <1>13. NoLostCall'
    BY <1>0, <1>1, <1>2, <1>3, <1>4, <1>5, ClientAssumption
    DEF NoLostCall, CallerInv, CallerOwns, CallerUnqueued, CallersApart, Active,
        AtWriter, AtReader, InPending
  <1> QED
    BY <1>3, <1>6, <1>7, <1>8, <1>9, <1>10, <1>11, <1>12, <1>13

\* An object a caller may acquire is in nobody's hands and not canceled.
Fresh(m) ==
    /\ m \in Objs
    /\ ~InQueue(m) /\ ~AtWriter(m) /\ ~AtReader(m)
    /\ \A c \in Conns, i \in Ids : pending[c][i] # m
    /\ \A k \in Callers : caller[k].m # m

\* What acquireAsyncResult may return is in nobody's hands.
LEMMA AvailableIsFresh ==
    ASSUME IInv, NEW kind, NEW m \in Available(kind)
    PROVE  Fresh(m)
  <1>0. TypeOK /\ QueueInv /\ WriterInv /\ PendingInv /\ ReaderInv /\ CallerInv
    BY DEF IInv
  <1>1. CASE m \in pool
    <2>1. m \in Objs /\ m # NoObj
      BY <1>0, <1>1, ClientAssumption DEF TypeOK
    <2> QED
      BY <1>0, <1>1, <2>1 DEF Fresh, QueueInv, WriterInv, PendingInv, ReaderInv,
         CallerInv, CallerOwns, CallerUnqueued, CallersApart, Active, InFlight, AtWriter, AtReader
  <1>2. CASE m \in Garbage
    BY <1>2 DEF Garbage, Referenced, Fresh, InQueue, AtWriter, AtReader
  <1> QED
    BY <1>1, <1>2 DEF Available

\* An acquired object starts clean, whether it is new or recycled.
LEMMA FilledFields ==
    ASSUME TypeOK, PoolInv, NEW m \in Objs, NEW kind, NEW id
    PROVE  LET o == Filled(m, kind, id) IN
           /\ o.req = id /\ o.rsp = NoId /\ ~o.canceled
           /\ o.skip = (kind = "udp")
           /\ o.done = IF kind = "udp" THEN "nil" ELSE "open"
  <1> DEFINE o == IF m \in pool THEN obj[m] ELSE ZeroResult
  <1>1. o \in AsyncResult /\ o.rsp = NoId /\ ~o.canceled
    BY IdleTypes DEF TypeOK, PoolInv, ZeroResult
  <1> QED
    BY <1>1 DEF Filled, AsyncResult

\* callAsync queues its object at the first attempt (line 400).
LEMMA SendQueuedKeeps ==
    ASSUME IInv, TypeOK', NEW k \in Callers, NEW m, NEW kind \in {"call", "async", "udp"},
           NEW id \in Ids, Fresh(m), seq' \in Nat, id \in 1..seq', seq <= seq',
           caller[k].pc \in {"idle", "retry"},
           \A l \in Callers : caller[l].pc # "idle" /\ l # k => caller[l].id # id,
           UNCHANGED <<wr, rd, conn, stopped, pending>>, dropped' = dropped \ {m},
           \A x \in Objs : x # m => obj'[x] = obj[x],
           \A l \in Callers : l # k => caller'[l] = caller[l],
           obj'[m].req = id, obj'[m].rsp = NoId, ~obj'[m].canceled,
           obj'[m].skip = (kind = "udp"),
           obj'[m].done = (IF kind = "udp" THEN "nil" ELSE "open"),
           pool' = pool \ {m},
           QueueDistinct', \A x \in Objs : InQueue(x)' <=> InQueue(x) \/ x = m,
           IF kind = "udp" THEN caller'[k].pc = "idle" /\ caller'[k].m = NoObj
             ELSE /\ caller'[k].pc = "wait" /\ caller'[k].m = m
                  /\ caller'[k].id = id /\ caller'[k].kind = kind
    PROVE  QueueDistinct' /\ QueueInv' /\ WriterInv' /\ PendingInv' /\ ReaderInv'
             /\ CallerInv' /\ PoolInv' /\ ResultInv' /\ NoLostCall'
  <1> USE DEF callVars, resVars, connVars, mapVars, goVars, netVars
  <1>0. TypeOK /\ QueueDistinct /\ QueueInv /\ WriterInv /\ PendingInv /\ ReaderInv
          /\ CallerInv /\ PoolInv /\ ConnInv /\ ResultInv /\ NoLostCall
    BY DEF IInv
  <1>1. /\ \A d \in Conns, i \in Ids : pending[d][i] \in Objs \cup {NoObj}
        /\ pool \subseteq Objs
    BY <1>0 DEF TypeOK
  <1>2. /\ seq \in Nat /\ seq <= seq'
        /\ caller[k].m = NoObj /\ ~Active(k) /\ m # NoObj
    BY <1>0, ClientAssumption
    DEF TypeOK, CallerInv, CallerOwns, CallerUnqueued, CallersApart, Active, Fresh
  <1>3. /\ m \in Objs /\ ~InQueue(m)
        /\ \A c \in Conns : wr[c].pc = "register" => wr[c].m # m
        /\ \A c \in Conns : rd[c].pc = "complete" => rd[c].m # m
        /\ \A c \in Conns, i \in Ids : pending[c][i] # m
        /\ \A l \in Callers : caller[l].m # m
    BY DEF Fresh, AtWriter, AtReader
  <1>4. QueueInv'
    <2> SUFFICES ASSUME NEW x \in Objs, InQueue(x)' PROVE QueueInv!(x)!2'
      BY DEF QueueInv
    <2>1. CASE x = m
      <3>1. kind # "udp" => Waits(k, m)'
        BY DEF Waits
      <3> QED
        BY <2>1, <3>1
    <2>2. CASE x # m
      <3>1. \A l \in Callers : Waits(l, x) => Waits(l, x)'
        BY <2>2, <1>2 DEF Waits, Active
      <3> QED
        BY <1>0, <2>2, <3>1 DEF QueueInv
    <2> QED
      BY <2>1, <2>2
  <1>5. WriterInv'
    <2> SUFFICES ASSUME NEW c \in Conns PROVE WriterInv!(c)'
      BY DEF WriterInv
    <2>1. wr'[c] = wr[c] /\ WriterInv!(c)
      BY <1>0 DEF WriterInv
    <2>2. CASE wr[c].pc # "register"
      BY <2>1, <2>2
    <2>3. CASE wr[c].pc = "register"
      <3>1. InFlight(wr[c].m, wr[c].id)'
        BY <2>1, <2>3, <1>3 DEF InFlight
      <3>2. ASSUME pending[c][wr[c].id] # NoObj, NEW l \in Callers
            PROVE  caller'[l].m # pending[c][wr[c].id]
        <4>1. caller[l].m # pending[c][wr[c].id] /\ pending[c][wr[c].id] # m
          BY <2>1, <2>3, <3>2, <1>3
        <4> QED
          BY <3>2, <4>1
      <3> QED
        BY <2>1, <2>3, <3>1, <3>2
    <2> QED
      BY <2>2, <2>3
  <1>6. PendingInv'
    BY <1>0, <1>1, <1>2, <1>3, ClientAssumption DEF PendingInv, InFlight
  <1>7. ReaderInv'
    BY <1>0, <1>1, <1>2, <1>3, ClientAssumption DEF ReaderInv, InFlight
  <1>8. CallerInv'
    <2>1. ASSUME NEW l \in Callers, l # k
          PROVE  /\ Active(l)' <=> Active(l)
                 /\ Active(l) => caller[l].m \in Objs /\ obj'[caller[l].m] = obj[caller[l].m]
      BY <1>0, <2>1, <1>3 DEF CallerInv, CallerOwns, CallerUnqueued, CallersApart, Active
    <2>2. ASSUME NEW l \in Callers PROVE (CallerOwns(l) /\ CallerUnqueued(l))'
      <3>1. CASE l = k
        BY <1>0, <1>1, <1>2, <1>3, <3>1
        DEF CallerOwns, CallerUnqueued, Active, InFlight, AtWriter, AtReader
      <3>2. CASE l # k
        BY <1>0, <1>1, <1>2, <1>3, <2>1, <3>2
        DEF CallerInv, CallerOwns, CallerUnqueued, CallersApart, Active, InFlight,
        AtWriter, AtReader
      <3> QED
        BY <3>1, <3>2
    <2>3. ASSUME NEW l \in Callers, NEW n \in Callers PROVE CallersApart!(l, n)'
      BY <1>0, <1>1, <1>2, <1>3, <2>1
      DEF CallerInv, CallerOwns, CallerUnqueued, CallersApart, Active
    <2> QED
      BY <2>2, <2>3 DEF CallerInv, CallerOwns, CallerUnqueued, CallersApart
  <1>9. PoolInv'
    BY <1>0, <1>1, <1>2, <1>3, ClientAssumption DEF PoolInv, InFlight
  <1>10. ResultInv'
    BY <1>0, <1>1, <1>2, <1>3, ClientAssumption DEF ResultInv, InFlight
  <1>11. NoLostCall'
    BY <1>0, <1>1, <1>2, <1>3, ClientAssumption
    DEF NoLostCall, CallerInv, CallerOwns, CallerUnqueued, CallersApart, Active,
        AtWriter, AtReader, InPending
  <1> QED
    BY <1>4, <1>5, <1>6, <1>7, <1>8, <1>9, <1>10, <1>11

\* callAsync finds the channel full and goes on to evict (line 407).
LEMMA SendEvictsKeeps ==
    ASSUME IInv, TypeOK', NEW k \in Callers, NEW m, NEW kind \in {"call", "async", "udp"},
           NEW id \in Ids, Fresh(m), seq' \in Nat, id \in 1..seq', seq <= seq',
           caller[k].pc \in {"idle", "retry"},
           \A l \in Callers : caller[l].pc # "idle" /\ l # k => caller[l].id # id,
           UNCHANGED <<wr, rd, conn, stopped, pending>>, dropped' = dropped \ {m},
           \A x \in Objs : x # m => obj'[x] = obj[x],
           \A l \in Callers : l # k => caller'[l] = caller[l],
           obj'[m].req = id, obj'[m].rsp = NoId, ~obj'[m].canceled,
           obj'[m].skip = (kind = "udp"),
           obj'[m].done = (IF kind = "udp" THEN "nil" ELSE "open"),
           pool' = pool \ {m}, kind # "udp",
           QueueDistinct', \A x \in Objs : InQueue(x)' <=> InQueue(x),
           caller'[k].pc = "evict", caller'[k].m = m,
           caller'[k].id = id, caller'[k].kind = kind
    PROVE  QueueDistinct' /\ QueueInv' /\ WriterInv' /\ PendingInv' /\ ReaderInv'
             /\ CallerInv' /\ PoolInv' /\ ResultInv' /\ NoLostCall'
  <1> USE DEF callVars, resVars, connVars, mapVars, goVars, netVars
  <1>0. TypeOK /\ QueueDistinct /\ QueueInv /\ WriterInv /\ PendingInv /\ ReaderInv
          /\ CallerInv /\ PoolInv /\ ConnInv /\ ResultInv /\ NoLostCall
    BY DEF IInv
  <1>1. /\ \A d \in Conns, i \in Ids : pending[d][i] \in Objs \cup {NoObj}
        /\ pool \subseteq Objs
    BY <1>0 DEF TypeOK
  <1>2. /\ seq \in Nat /\ seq <= seq'
        /\ caller[k].m = NoObj /\ ~Active(k) /\ m # NoObj
    BY <1>0, ClientAssumption
    DEF TypeOK, CallerInv, CallerOwns, CallerUnqueued, CallersApart, Active, Fresh
  <1>3. /\ m \in Objs /\ ~InQueue(m)
        /\ \A c \in Conns : wr[c].pc = "register" => wr[c].m # m
        /\ \A c \in Conns : rd[c].pc = "complete" => rd[c].m # m
        /\ \A c \in Conns, i \in Ids : pending[c][i] # m
        /\ \A l \in Callers : caller[l].m # m
    BY DEF Fresh, AtWriter, AtReader
  <1>4. QueueInv'
    BY <1>0, <1>1, <1>2, <1>3, ClientAssumption DEF QueueInv, Waits, InFlight
  <1>5. WriterInv'
    <2> SUFFICES ASSUME NEW c \in Conns PROVE WriterInv!(c)'
      BY DEF WriterInv
    <2>1. wr'[c] = wr[c] /\ WriterInv!(c)
      BY <1>0 DEF WriterInv
    <2>2. CASE wr[c].pc # "register"
      BY <2>1, <2>2
    <2>3. CASE wr[c].pc = "register"
      <3>1. InFlight(wr[c].m, wr[c].id)'
        BY <2>1, <2>3, <1>3 DEF InFlight
      <3>2. ASSUME pending[c][wr[c].id] # NoObj, NEW l \in Callers
            PROVE  caller'[l].m # pending[c][wr[c].id]
        <4>1. caller[l].m # pending[c][wr[c].id] /\ pending[c][wr[c].id] # m
          BY <2>1, <2>3, <3>2, <1>3
        <4> QED
          BY <3>2, <4>1
      <3> QED
        BY <2>1, <2>3, <3>1, <3>2
    <2> QED
      BY <2>2, <2>3
  <1>6. PendingInv'
    BY <1>0, <1>1, <1>2, <1>3, ClientAssumption DEF PendingInv, InFlight
  <1>7. ReaderInv'
    BY <1>0, <1>1, <1>2, <1>3, ClientAssumption DEF ReaderInv, InFlight
  <1>8. CallerInv'
    <2>1. ASSUME NEW l \in Callers, l # k
          PROVE  /\ Active(l)' <=> Active(l)
                 /\ Active(l) => caller[l].m \in Objs /\ obj'[caller[l].m] = obj[caller[l].m]
      BY <1>0, <2>1, <1>3 DEF CallerInv, CallerOwns, CallerUnqueued, CallersApart, Active
    <2>2. ASSUME NEW l \in Callers PROVE (CallerOwns(l) /\ CallerUnqueued(l))'
      <3>1. CASE l = k
        BY <1>0, <1>1, <1>2, <1>3, <3>1
        DEF CallerOwns, CallerUnqueued, Active, InFlight, AtWriter, AtReader
      <3>2. CASE l # k
        BY <1>0, <1>1, <1>2, <1>3, <2>1, <3>2
        DEF CallerInv, CallerOwns, CallerUnqueued, CallersApart, Active, InFlight,
        AtWriter, AtReader
      <3> QED
        BY <3>1, <3>2
    <2>3. ASSUME NEW l \in Callers, NEW n \in Callers PROVE CallersApart!(l, n)'
      BY <1>0, <1>1, <1>2, <1>3, <2>1
      DEF CallerInv, CallerOwns, CallerUnqueued, CallersApart, Active
    <2> QED
      BY <2>2, <2>3 DEF CallerInv, CallerOwns, CallerUnqueued, CallersApart
  <1>9. PoolInv'
    BY <1>0, <1>1, <1>2, <1>3, ClientAssumption DEF PoolInv, InFlight
  <1>10. ResultInv'
    BY <1>0, <1>1, <1>2, <1>3, ClientAssumption DEF ResultInv, InFlight
  <1>11. NoLostCall'
    BY <1>0, <1>1, <1>2, <1>3, ClientAssumption
    DEF NoLostCall, CallerInv, CallerOwns, CallerUnqueued, CallersApart, Active,
        AtWriter, AtReader, InPending
  <1> QED
    BY <1>4, <1>5, <1>6, <1>7, <1>8, <1>9, <1>10, <1>11

\* callAsync finds the channel full and the request wants no response (line 403).
LEMMA SendRefusedKeeps ==
    ASSUME IInv, TypeOK', NEW k \in Callers, NEW m, NEW kind \in {"call", "async", "udp"},
           NEW id \in Ids, Fresh(m), seq' \in Nat, id \in 1..seq', seq <= seq',
           caller[k].pc \in {"idle", "retry"},
           \A l \in Callers : caller[l].pc # "idle" /\ l # k => caller[l].id # id,
           UNCHANGED <<wr, rd, conn, stopped, pending>>, dropped' = dropped \ {m},
           \A x \in Objs : x # m => obj'[x] = obj[x],
           \A l \in Callers : l # k => caller'[l] = caller[l],
           obj'[m].done = "nil", obj'[m].rsp = NoId,
           ~obj'[m].canceled, pool' = pool \cup {m},
           QueueDistinct', \A x \in Objs : InQueue(x)' <=> InQueue(x),
           caller'[k].pc = "idle", caller'[k].m = NoObj
    PROVE  QueueDistinct' /\ QueueInv' /\ WriterInv' /\ PendingInv' /\ ReaderInv'
             /\ CallerInv' /\ PoolInv' /\ ResultInv' /\ NoLostCall'
  <1> USE DEF callVars, resVars, connVars, mapVars, goVars, netVars
  <1>0. TypeOK /\ QueueDistinct /\ QueueInv /\ WriterInv /\ PendingInv /\ ReaderInv
          /\ CallerInv /\ PoolInv /\ ConnInv /\ ResultInv /\ NoLostCall
    BY DEF IInv
  <1>1. /\ \A d \in Conns, i \in Ids : pending[d][i] \in Objs \cup {NoObj}
        /\ pool \subseteq Objs
    BY <1>0 DEF TypeOK
  <1>2. /\ seq \in Nat /\ seq <= seq'
        /\ caller[k].m = NoObj /\ ~Active(k) /\ m # NoObj
    BY <1>0, ClientAssumption
    DEF TypeOK, CallerInv, CallerOwns, CallerUnqueued, CallersApart, Active, Fresh
  <1>3. /\ m \in Objs /\ ~InQueue(m)
        /\ \A c \in Conns : wr[c].pc = "register" => wr[c].m # m
        /\ \A c \in Conns : rd[c].pc = "complete" => rd[c].m # m
        /\ \A c \in Conns, i \in Ids : pending[c][i] # m
        /\ \A l \in Callers : caller[l].m # m
    BY DEF Fresh, AtWriter, AtReader
  <1>4. QueueInv'
    BY <1>0, <1>1, <1>2, <1>3, ClientAssumption DEF QueueInv, Waits, InFlight
  <1>5. WriterInv'
    <2> SUFFICES ASSUME NEW c \in Conns PROVE WriterInv!(c)'
      BY DEF WriterInv
    <2>1. wr'[c] = wr[c] /\ WriterInv!(c)
      BY <1>0 DEF WriterInv
    <2>2. CASE wr[c].pc # "register"
      BY <2>1, <2>2
    <2>3. CASE wr[c].pc = "register"
      <3>1. InFlight(wr[c].m, wr[c].id)'
        BY <2>1, <2>3, <1>3 DEF InFlight
      <3>2. ASSUME pending[c][wr[c].id] # NoObj, NEW l \in Callers
            PROVE  caller'[l].m # pending[c][wr[c].id]
        <4>1. caller[l].m # pending[c][wr[c].id] /\ pending[c][wr[c].id] # m
          BY <2>1, <2>3, <3>2, <1>3
        <4> QED
          BY <3>2, <4>1
      <3> QED
        BY <2>1, <2>3, <3>1, <3>2
    <2> QED
      BY <2>2, <2>3
  <1>6. PendingInv'
    BY <1>0, <1>1, <1>2, <1>3, ClientAssumption DEF PendingInv, InFlight
  <1>7. ReaderInv'
    BY <1>0, <1>1, <1>2, <1>3, ClientAssumption DEF ReaderInv, InFlight
  <1>8. CallerInv'
    <2>1. ASSUME NEW l \in Callers, l # k
          PROVE  /\ Active(l)' <=> Active(l)
                 /\ Active(l) => caller[l].m \in Objs /\ obj'[caller[l].m] = obj[caller[l].m]
      BY <1>0, <2>1, <1>3 DEF CallerInv, CallerOwns, CallerUnqueued, CallersApart, Active
    <2>2. ASSUME NEW l \in Callers PROVE (CallerOwns(l) /\ CallerUnqueued(l))'
      <3>1. CASE l = k
        BY <1>0, <1>1, <1>2, <1>3, <3>1
        DEF CallerOwns, CallerUnqueued, Active, InFlight, AtWriter, AtReader
      <3>2. CASE l # k
        BY <1>0, <1>1, <1>2, <1>3, <2>1, <3>2
        DEF CallerInv, CallerOwns, CallerUnqueued, CallersApart, Active, InFlight,
        AtWriter, AtReader
      <3> QED
        BY <3>1, <3>2
    <2>3. ASSUME NEW l \in Callers, NEW n \in Callers PROVE CallersApart!(l, n)'
      BY <1>0, <1>1, <1>2, <1>3, <2>1
      DEF CallerInv, CallerOwns, CallerUnqueued, CallersApart, Active
    <2> QED
      BY <2>2, <2>3 DEF CallerInv, CallerOwns, CallerUnqueued, CallersApart
  <1>9. PoolInv'
    BY <1>0, <1>1, <1>2, <1>3, ClientAssumption DEF PoolInv, InFlight
  <1>10. ResultInv'
    BY <1>0, <1>1, <1>2, <1>3, ClientAssumption DEF ResultInv, InFlight
  <1>11. NoLostCall'
    BY <1>0, <1>1, <1>2, <1>3, ClientAssumption
    DEF NoLostCall, CallerInv, CallerOwns, CallerUnqueued, CallersApart, Active,
        AtWriter, AtReader, InPending
  <1> QED
    BY <1>4, <1>5, <1>6, <1>7, <1>8, <1>9, <1>10, <1>11

\* TrySend is one of the three, for a sequence number no other caller uses.
LEMMA SendKeeps ==
    ASSUME IInv, TypeOK', NEW k \in Callers, NEW kind \in {"call", "async", "udp"},
           NEW id \in Ids, NEW tries \in Nat, TrySend(k, kind, id, tries),
           seq' \in Nat, id \in 1..seq', seq <= seq',
           caller[k].pc \in {"idle", "retry"},
           \A l \in Callers : caller[l].pc # "idle" /\ l # k => caller[l].id # id,
           UNCHANGED <<wr, rd, conn, stopped, pending>>
    PROVE  QueueDistinct' /\ QueueInv' /\ WriterInv' /\ PendingInv' /\ ReaderInv'
             /\ CallerInv' /\ PoolInv' /\ ResultInv' /\ NoLostCall'
  <1>0. TypeOK /\ QueueDistinct /\ PoolInv
    BY DEF IInv
  <1>1. PICK m \in Available(kind) : TrySend(k, kind, id, tries)!(m)
    BY DEF TrySend
  <1>2. Fresh(m)
    BY AvailableIsFresh
  <1>3. m \in Objs /\ ~InQueue(m)
    BY <1>2 DEF Fresh
  <1> DEFINE o == Filled(m, kind, id)
             At(pc) == [caller EXCEPT ![k] = [pc |-> pc, kind |-> kind, id |-> id,
                                              m |-> m, tries |-> tries]]
             idle == [caller EXCEPT ![k] = IdleCaller]
             Sent == /\ queue' = Append(queue, m)
                     /\ obj' = [obj EXCEPT ![m] = o]
                     /\ pool' = pool \ {m}
                     /\ caller' = IF kind = "udp" THEN idle ELSE At("wait")
             Refused == /\ obj' = [obj EXCEPT ![m] = Released(o)]
                        /\ pool' = pool \cup {m}
                        /\ caller' = idle
                        /\ queue' = queue
             Evicts == /\ kind # "udp"
                       /\ obj' = [obj EXCEPT ![m] = o]
                       /\ pool' = pool \ {m}
                       /\ caller' = At("evict")
                       /\ queue' = queue
  <1>4. Sent \/ Refused \/ Evicts
    BY <1>1
  <1>5. dropped' = dropped \ {m}
    BY <1>1
  <1>6. o \in AsyncResult
    BY <1>0, <1>3, FilledType
  <1>7. /\ o.req = id /\ o.rsp = NoId /\ ~o.canceled
        /\ o.skip = (kind = "udp")
        /\ o.done = IF kind = "udp" THEN "nil" ELSE "open"
    BY <1>0, <1>3, FilledFields
  <1> HIDE DEF o
  <1>8. CASE Sent
    <2>1. /\ \A x \in Objs : x # m => obj'[x] = obj[x]
          /\ obj'[m] = o
      BY <1>0, <1>3, <1>8 DEF TypeOK
    <2>2. /\ \A l \in Callers : l # k => caller'[l] = caller[l]
          /\ IF kind = "udp" THEN caller'[k].pc = "idle" /\ caller'[k].m = NoObj
               ELSE /\ caller'[k].pc = "wait" /\ caller'[k].m = m
                    /\ caller'[k].id = id /\ caller'[k].kind = kind
      BY <1>0, <1>8 DEF TypeOK, IdleCaller
    <2>3. QueueDistinct' /\ \A x \in Objs : InQueue(x)' <=> InQueue(x) \/ x = m
      BY <1>0, <1>3, <1>8, AfterSend
    <2>4. pool' = pool \ {m}
      BY <1>8
    <2> HIDE DEF Sent, Refused, Evicts
    <2> QED
      BY <1>2, <1>5, <1>7, <2>1, <2>2, <2>3, <2>4, SendQueuedKeeps
  <1>9. CASE Evicts
    <2>1. /\ \A x \in Objs : x # m => obj'[x] = obj[x]
          /\ obj'[m] = o
      BY <1>0, <1>3, <1>9 DEF TypeOK
    <2>2. /\ \A l \in Callers : l # k => caller'[l] = caller[l]
          /\ caller'[k].pc = "evict" /\ caller'[k].m = m
          /\ caller'[k].id = id /\ caller'[k].kind = kind
      BY <1>0, <1>9 DEF TypeOK
    <2>3. QueueDistinct' /\ \A x \in Objs : InQueue(x)' <=> InQueue(x)
      BY <1>0, <1>9 DEF QueueDistinct, InQueue
    <2>4. pool' = pool \ {m} /\ kind # "udp"
      BY <1>9
    <2> HIDE DEF Sent, Refused, Evicts
    <2> QED
      BY <1>2, <1>5, <1>7, <2>1, <2>2, <2>3, <2>4, SendEvictsKeeps
  <1>10. CASE Refused
    <2>1. /\ \A x \in Objs : x # m => obj'[x] = obj[x]
          /\ obj'[m] = Released(o)
      BY <1>0, <1>3, <1>10 DEF TypeOK
    <2>2. obj'[m].done = "nil" /\ obj'[m].rsp = NoId /\ ~obj'[m].canceled
      BY <1>6, <1>7, <2>1, ReleasedFields
    <2>3. /\ \A l \in Callers : l # k => caller'[l] = caller[l]
          /\ caller'[k].pc = "idle" /\ caller'[k].m = NoObj
      BY <1>0, <1>10 DEF TypeOK, IdleCaller
    <2>4. QueueDistinct' /\ \A x \in Objs : InQueue(x)' <=> InQueue(x)
      BY <1>0, <1>10 DEF QueueDistinct, InQueue
    <2>5. pool' = pool \cup {m}
      BY <1>10
    <2> HIDE DEF Sent, Refused, Evicts
    <2> QED
      BY <1>2, <1>5, <2>1, <2>2, <2>3, <2>4, <2>5, SendRefusedKeeps
  <1> QED
    BY <1>4, <1>8, <1>9, <1>10

\* The actions that leave every object where it is.
LEMMA QuietKeeps ==
    ASSUME IInv, TypeOK', UNCHANGED <<callVars, resVars>>, stopped => stopped',
           \A c \in Conns :
              /\ wr[c].pc = "register" => wr'[c] = wr[c]
              /\ wr'[c].pc = "register" => wr[c].pc = "register"
              /\ wr'[c].pc \in {"clean", "recheck", "encode"} =>
                    wr'[c].m \in Objs /\ wr'[c].id \in Ids
              /\ rd[c].pc = "complete" => rd'[c] = rd[c]
              /\ rd'[c].pc = "complete" => rd[c].pc = "complete"
              /\ \A i \in Ids : pending'[c][i] = pending[c][i]
              /\ \A i \in Ids : pending[c][i] # NoObj /\ conn[c] \in {"up", "closing", "drain"}
                                  => conn'[c] \in {"up", "closing", "drain"}
    PROVE  QueueDistinct' /\ QueueInv' /\ WriterInv' /\ PendingInv' /\ ReaderInv'
             /\ CallerInv' /\ PoolInv' /\ ResultInv' /\ NoLostCall'
  <1> USE DEF callVars, resVars
  <1>0. TypeOK /\ QueueDistinct /\ QueueInv /\ WriterInv /\ PendingInv /\ ReaderInv
          /\ CallerInv /\ PoolInv /\ ResultInv /\ NoLostCall
    BY DEF IInv
  <1>1. QueueDistinct' /\ \A m \in Objs : InQueue(m)' <=> InQueue(m)
    BY <1>0 DEF QueueDistinct, InQueue
  <1>2. \A m, i : InFlight(m, i)' <=> InFlight(m, i)
    BY <1>1 DEF InFlight
  <1>3. \A m : (AtWriter(m)' <=> AtWriter(m)) /\ (AtReader(m)' <=> AtReader(m))
    BY DEF AtWriter, AtReader
  <1>4. QueueInv'
    BY <1>0, <1>1 DEF QueueInv, Waits
  <1>5. WriterInv'
    <2> SUFFICES ASSUME NEW c \in Conns PROVE WriterInv!(c)'
      BY DEF WriterInv
    <2>1. CASE wr[c].pc = "register"
      BY <1>0, <1>2, <2>1 DEF WriterInv
    <2>2. CASE wr[c].pc # "register"
      BY <2>2
    <2> QED
      BY <2>1, <2>2
  <1>6. PendingInv'
    BY <1>0, <1>2 DEF PendingInv
  <1>7. ReaderInv'
    BY <1>0, <1>2 DEF ReaderInv
  <1>8. CallerInv'
    BY <1>0, <1>2, <1>3 DEF CallerInv, CallerOwns, CallerUnqueued, CallersApart, Active
  <1>9. PoolInv'
    BY <1>0 DEF PoolInv
  <1>10. ResultInv'
    BY <1>0 DEF ResultInv
  <1>11. NoLostCall'
    <2> SUFFICES ASSUME NEW k \in Callers, caller[k].pc = "wait",
                        obj[caller[k].m].done = "open"
                 PROVE  LET m == caller[k].m IN
                        (InQueue(m) \/ AtWriter(m) \/ AtReader(m) \/ InPending(m)
                          \/ m \in dropped)'
      BY DEF NoLostCall
    <2>1. caller[k].m \in Objs
      BY <1>0 DEF CallerInv, CallerOwns, CallerUnqueued, CallersApart, Active
    <2>2. InPending(caller[k].m) => InPending(caller[k].m)'
      BY <2>1, ClientAssumption DEF InPending
    <2> QED
      BY <1>0, <1>1, <1>3, <2>1, <2>2 DEF NoLostCall
  <1> QED
    BY <1>1, <1>4, <1>5, <1>6, <1>7, <1>8, <1>9, <1>10, <1>11

-----------------------------------------------------------------------------
(* Every step preserves the invariant.                                     *)

\* The fields of a writer record after each kind of move.
LEMMA WriterFields ==
    ASSUME NEW w \in Writer
    PROVE  /\ \A pc : LET v == [w EXCEPT !.pc = pc] IN
                 v.pc = pc /\ v.m = w.m /\ v.id = w.id
           /\ [w EXCEPT !.pc = "select", !.flush = FALSE].pc = "select"
           /\ [w EXCEPT !.pc = "select", !.m = NoObj, !.id = NoId].pc = "select"
           /\ \A f : LET v == [IdleWriter EXCEPT !.pc = "done", !.failed = f] IN
                 v.pc = "done" /\ v.failed = f
  BY DEF Writer, IdleWriter

\* The actions of a writer that neither take nor register a request: where they
\* leave it.
LEMMA WriterMoves ==
    ASSUME TypeOK, NEW c \in Conns,
           \/ WriterPoll(c) \/ WriterRecheck(c) \/ WriterEncode(c)
           \/ WriterFlush(c) \/ WriterFail(c) \/ WriterStop(c)
    PROVE  /\ \/ wr'[c].pc \in {"select", "block"}
              \/ wr'[c].pc = "done" /\ (conn[c] = "up" => wr'[c].failed)
              \/ /\ wr[c].pc = "recheck" /\ wr'[c].pc = "encode"
                 /\ wr'[c].m = wr[c].m /\ wr'[c].id = wr[c].id
           /\ \A d \in Conns : d # c => wr'[d] = wr[d]
  <1>1. wr[c] \in Writer
    BY DEF TypeOK
  <1>2. \/ wr' = [wr EXCEPT ![c] = [wr[c] EXCEPT !.pc = "block"]]
        \/ wr' = [wr EXCEPT ![c] = [wr[c] EXCEPT !.pc = "select", !.flush = FALSE]]
        \/ wr' = [wr EXCEPT ![c] = [wr[c] EXCEPT !.pc = "select", !.m = NoObj, !.id = NoId]]
        \/ wr' = [wr EXCEPT ![c] = [IdleWriter EXCEPT !.pc = "done", !.failed = TRUE]]
        \/ /\ wr' = [wr EXCEPT ![c] = [IdleWriter EXCEPT !.pc = "done", !.failed = FALSE]]
           /\ conn[c] = "closing"
        \/ /\ wr' = [wr EXCEPT ![c] = [wr[c] EXCEPT !.pc = "encode"]]
           /\ wr[c].pc = "recheck"
    BY DEF WriterPoll, WriterRecheck, WriterEncode, WriterFlush, WriterFail, WriterStop,
       WriterEnds
  <1>3. \/ wr'[c] = [wr[c] EXCEPT !.pc = "block"]
        \/ wr'[c] = [wr[c] EXCEPT !.pc = "select", !.flush = FALSE]
        \/ wr'[c] = [wr[c] EXCEPT !.pc = "select", !.m = NoObj, !.id = NoId]
        \/ wr'[c] = [IdleWriter EXCEPT !.pc = "done", !.failed = TRUE]
        \/ /\ wr'[c] = [IdleWriter EXCEPT !.pc = "done", !.failed = FALSE]
           /\ conn[c] = "closing"
        \/ wr'[c] = [wr[c] EXCEPT !.pc = "encode"] /\ wr[c].pc = "recheck"
    BY <1>2 DEF TypeOK
  <1>4. \A d \in Conns : d # c => wr'[d] = wr[d]
    BY <1>2 DEF TypeOK
  <1>5. \/ wr'[c].pc \in {"select", "block"}
        \/ wr'[c].pc = "done" /\ (conn[c] = "up" => wr'[c].failed)
        \/ /\ wr[c].pc = "recheck" /\ wr'[c].pc = "encode"
           /\ wr'[c].m = wr[c].m /\ wr'[c].id = wr[c].id
    <2>1. CASE wr'[c] = [wr[c] EXCEPT !.pc = "block"]
      BY <1>1, <2>1, WriterFields
    <2>6. CASE wr'[c] = [wr[c] EXCEPT !.pc = "encode"] /\ wr[c].pc = "recheck"
      BY <1>1, <2>6, WriterFields
    <2>2. CASE wr'[c] = [wr[c] EXCEPT !.pc = "select", !.flush = FALSE]
      BY <1>1, <2>2, WriterFields
    <2>3. CASE wr'[c] = [wr[c] EXCEPT !.pc = "select", !.m = NoObj, !.id = NoId]
      BY <1>1, <2>3, WriterFields
    <2>4. CASE wr'[c] = [IdleWriter EXCEPT !.pc = "done", !.failed = TRUE]
      BY <1>1, <2>4, WriterFields
    <2>5. CASE /\ wr'[c] = [IdleWriter EXCEPT !.pc = "done", !.failed = FALSE]
               /\ conn[c] = "closing"
      BY <1>1, <2>5, WriterFields
    <2> QED
      BY <1>3, <2>1, <2>2, <2>3, <2>4, <2>5, <2>6
  <1> QED
    BY <1>4, <1>5

\* Every step preserves the part of the invariant that is about objects.
LEMMA NextKeeps ==
    ASSUME IInv, TypeOK', [Next]_vars
    PROVE  QueueDistinct' /\ QueueInv' /\ WriterInv' /\ PendingInv' /\ ReaderInv'
             /\ CallerInv' /\ PoolInv' /\ ResultInv' /\ NoLostCall'
  <1> DEFINE Goal == QueueDistinct' /\ QueueInv' /\ WriterInv' /\ PendingInv'
                       /\ ReaderInv' /\ CallerInv' /\ PoolInv' /\ ResultInv'
                       /\ NoLostCall'
  <1> USE DEF callVars, resVars, connVars, mapVars, goVars, netVars
  <1>0. TypeOK /\ WriterInv /\ CallerInv /\ ConnInv
    BY DEF IInv
  <1>1. ASSUME NEW k \in Callers, NEW kind \in Kinds, Call(k, kind) PROVE Goal
    <2>1. /\ seq + 1 \in Ids /\ kind \in {"call", "async", "udp"} /\ seq \in Nat
          /\ seq' = seq + 1
      BY <1>0, <1>1, ClientAssumption DEF Call, TypeOK, Ids
    <2>2. TrySend(k, kind, seq + 1, 0) /\ caller[k].pc = "idle"
      BY <1>1 DEF Call
    <2>3. \A l \in Callers : caller[l].pc # "idle" => caller[l].id # seq + 1
      BY <1>0, <2>1 DEF CallerInv, CallerOwns, CallerUnqueued, CallersApart
    <2>4. UNCHANGED <<wr, rd, conn, stopped, pending>>
      BY <1>1 DEF Call
    <2> HIDE DEF Goal
    <2> QED
      BY <2>1, <2>2, <2>3, <2>4, SendKeeps DEF Goal
  <1>2. ASSUME NEW k \in Callers, Retry(k) PROVE Goal
    <2>1. /\ caller[k].id \in Ids /\ caller[k].id \in 1..seq /\ seq \in Nat /\ seq' = seq
          /\ caller[k].kind \in {"call", "async", "udp"} /\ caller[k].tries \in Nat
      BY <1>0, <1>2, ClientAssumption
      DEF CallerInv, CallerOwns, CallerUnqueued, CallersApart, Retry, TypeOK, Ids, Caller
    <2>2. /\ TrySend(k, caller[k].kind, caller[k].id, caller[k].tries)
          /\ caller[k].pc = "retry"
      BY <1>2 DEF Retry
    <2>3. \A l \in Callers : caller[l].pc # "idle" /\ l # k => caller[l].id # caller[k].id
      BY <1>0, <2>2 DEF CallerInv, CallerOwns, CallerUnqueued, CallersApart
    <2>4. UNCHANGED <<wr, rd, conn, stopped, pending>>
      BY <1>2 DEF Retry
    <2> QED
      BY <2>1, <2>2, <2>3, <2>4, SendKeeps
  <1>3. ASSUME NEW k \in Callers,
               Evict(k) \/ Resend(k) \/ Receive(k) \/ Timeout(k) \/ Cancel(k)
        PROVE  Goal
    <2>1. Len(queue) < PendingRequests \/ Len(queue) >= PendingRequests
      BY <1>0, LenProperties, ClientAssumption DEF TypeOK
    <2> QED
      BY <1>3, <2>1, EvictEmptyKeeps, EvictKeeps, ResendKeeps, ResendFullKeeps,
         ReceiveKeeps, TimeoutKeeps, CancelKeeps
  <1>4. ASSUME NEW c \in Conns, NEW id \in Ids, Drain(c, id) \/ ReaderReceive(c, id)
        PROVE  Goal
    BY <1>4, DrainKeeps, ReadKeeps
  <1>5. ASSUME NEW c \in Conns,
               WriterTake(c) \/ WriterRegister(c) \/ WriterClean(c) \/ ReaderComplete(c)
        PROVE  Goal
    BY <1>5, TakeKeeps, TakeCanceledKeeps, RegisterKeeps, CleanKeeps, CompleteKeeps
  <1>6. ASSUME NEW c \in Conns, DialOk(c) PROVE Goal
    <2>1. wr[c].pc = "off" /\ rd[c].pc = "off" /\ pending[c] = NoPending
      BY <1>0, <1>6 DEF DialOk, ConnInv
    <2>2. /\ \A d \in Conns : d # c => /\ wr'[d] = wr[d] /\ rd'[d] = rd[d]
                                       /\ pending'[d] = pending[d] /\ conn'[d] = conn[d]
          /\ wr'[c].pc = "select" /\ rd'[c].pc = "read"
          /\ pending'[c] = NoPending /\ conn'[c] = "up"
      BY <1>0, <1>6 DEF DialOk, TypeOK, IdleWriter, IdleReader
    <2>3. UNCHANGED <<callVars, resVars>> /\ stopped' = stopped
      BY <1>6 DEF DialOk
    <2> QED
      BY <1>0, <2>1, <2>2, <2>3, QuietKeeps DEF WriterInv
  <1>7. ASSUME NEW c \in Conns, DialFail(c) \/ DialStopped(c) \/ Teardown(c) \/ Joined(c)
        PROVE  Goal
    <2>1. /\ \A d \in Conns : d # c => conn'[d] = conn[d]
          /\ conn[c] # "dial" => conn'[c] \in {"up", "closing", "drain"}
          /\ conn[c] = "dial" => conn'[c] = "gone"
      BY <1>0, <1>7 DEF DialFail, DialStopped, Teardown, Joined, TypeOK
    <2>2. UNCHANGED <<callVars, resVars, wr, rd, pending>> /\ (stopped => stopped')
      BY <1>7 DEF DialFail, DialStopped, Teardown, Joined
    <2> QED
      BY <1>0, <2>1, <2>2, QuietKeeps DEF WriterInv
  <1>8. CASE Stop
    <2>1. UNCHANGED <<callVars, resVars, wr, rd, pending, conn>> /\ stopped'
      BY <1>8 DEF Stop
    <2> QED
      BY <1>0, <2>1, QuietKeeps DEF WriterInv
  <1>9. ASSUME NEW c \in Conns, Drained(c) PROVE Goal
    <2>1. /\ \A d \in Conns : d # c => /\ wr'[d] = wr[d] /\ rd'[d] = rd[d]
                                       /\ conn'[d] = conn[d]
          /\ wr'[c].pc = "off" /\ rd'[c].pc = "off"
          /\ wr[c].pc = "done" /\ rd[c].pc = "done"
      BY <1>0, <1>9 DEF Drained, ConnInv, TypeOK, IdleWriter, IdleReader
    <2>2. \A i \in Ids : pending[c][i] = NoObj
      BY <1>9 DEF Drained, PendingIds
    <2>3. UNCHANGED <<callVars, resVars, pending, stopped>>
      BY <1>9 DEF Drained
    <2> QED
      BY <1>0, <2>1, <2>2, <2>3, QuietKeeps DEF WriterInv
  <1>10. ASSUME NEW c \in Conns,
                \/ WriterPoll(c) \/ WriterRecheck(c) \/ WriterEncode(c)
                \/ WriterFlush(c) \/ WriterFail(c) \/ WriterStop(c)
         PROVE  Goal
    <2>1. UNCHANGED <<callVars, resVars, pending, stopped, conn, rd>>
      BY <1>10 DEF WriterPoll, WriterRecheck, WriterEncode, WriterFlush, WriterFail,
         WriterStop
    <2>2. wr[c].pc # "register"
      BY <1>10 DEF WriterPoll, WriterRecheck, WriterEncode, WriterFlush, WriterFail,
         WriterStop
    <2>3. /\ \A d \in Conns : d # c => wr'[d] = wr[d]
          /\ \/ wr'[c].pc \in {"select", "block", "done"}
             \/ /\ wr[c].pc = "recheck" /\ wr'[c].pc = "encode"
                /\ wr'[c].m = wr[c].m /\ wr'[c].id = wr[c].id
      BY <1>0, <1>10, WriterMoves
    <2> QED
      BY <1>0, <2>1, <2>2, <2>3, QuietKeeps DEF WriterInv
  <1>11. ASSUME NEW c \in Conns, ReaderFail(c) PROVE Goal
    <2>1. UNCHANGED <<callVars, resVars, pending, stopped, conn, wr>>
      BY <1>11 DEF ReaderFail
    <2>2. /\ \A d \in Conns : d # c => rd'[d] = rd[d]
          /\ rd[c].pc = "read" /\ rd'[c].pc = "done"
      BY <1>0, <1>11 DEF ReaderFail, TypeOK, Reader
    <2> QED
      BY <1>0, <2>1, <2>2, QuietKeeps DEF WriterInv
  <1>12. CASE UNCHANGED vars
    BY <1>0, <1>12, QuietKeeps DEF vars, WriterInv
  <1> HIDE DEF Goal
  <1> QED
    BY <1>1, <1>2, <1>3, <1>4, <1>5, <1>6, <1>7, <1>8, <1>9, <1>10, <1>11, <1>12
    DEF Next, CallerStep, HandlerStep, WriterStep, ReaderStep, Goal

\* Every step preserves the phases of connections and goroutines.
LEMMA ConnKeeps ==
    ASSUME IInv, TypeOK', [Next]_vars
    PROVE  ConnInv'
  <1> USE DEF callVars, resVars, connVars, mapVars, goVars, netVars
  <1>0. TypeOK /\ WriterInv /\ ConnInv
    BY DEF IInv
  <1>1. CASE UNCHANGED <<connVars, goVars, pending>>
    BY <1>0, <1>1 DEF ConnInv
  <1>2. ASSUME NEW k \in Callers, CallerStep(k) PROVE ConnInv'
    <2>1. UNCHANGED <<connVars, goVars, pending>>
      BY <1>2 DEF CallerStep, Call, Retry, Evict, Resend, Receive, Timeout, Cancel
    <2> QED
      BY <1>1, <2>1
  <1>3. ASSUME NEW c \in Conns, DialOk(c) PROVE ConnInv'
    BY <1>0, <1>3 DEF DialOk, ConnInv, TypeOK, IdleWriter, IdleReader
  <1>4. ASSUME NEW c \in Conns, DialFail(c) \/ DialStopped(c) \/ Joined(c) PROVE ConnInv'
    BY <1>0, <1>4 DEF DialFail, DialStopped, Joined, ConnInv, TypeOK
  <1>5. ASSUME NEW c \in Conns, Teardown(c) PROVE ConnInv'
    BY <1>0, <1>5 DEF Teardown, ConnInv, TypeOK
  <1>6. ASSUME NEW c \in Conns, NEW id \in Ids, Drain(c, id) PROVE ConnInv'
    <2>1. conn[c] = "drain" /\ \A d \in Conns : d # c => pending'[d] = pending[d]
      BY <1>0, <1>6 DEF Drain, TypeOK
    <2> QED
      BY <1>0, <1>6, <2>1 DEF Drain, ConnInv
  <1>7. ASSUME NEW c \in Conns, Drained(c) PROVE ConnInv'
    <2>1. pending[c] = NoPending
      BY <1>0, <1>7 DEF Drained, PendingIds, NoPending, TypeOK
    <2>2. wr'[c].pc = "off" /\ rd'[c].pc = "off"
      BY <1>0, <1>7 DEF Drained, TypeOK, IdleWriter, IdleReader
    <2>3. \A d \in Conns : d # c => conn'[d] = conn[d] /\ wr'[d] = wr[d] /\ rd'[d] = rd[d]
      BY <1>0, <1>7 DEF Drained, TypeOK
    <2>4. conn'[c] \in {"dial", "gone"} /\ UNCHANGED <<pending, connErr, stopped>>
      BY <1>0, <1>7 DEF Drained, TypeOK
    <2> QED
      BY <1>0, <2>1, <2>2, <2>3, <2>4 DEF ConnInv
  <1>8. ASSUME NEW c \in Conns, WriterStep(c) PROVE ConnInv'
    <2>1. UNCHANGED <<connVars, rd>> /\ \A d \in Conns : d # c => wr'[d] = wr[d]
      BY <1>0, <1>8 DEF WriterStep, WriterPoll, WriterTake, WriterRegister, WriterClean,
         WriterRecheck, WriterEncode, WriterFlush, WriterFail, WriterStop, WriterEnds, TypeOK
    <2>2. wr[c].pc \notin {"off", "done"}
      BY <1>8 DEF WriterStep, WriterPoll, WriterTake, WriterRegister, WriterClean,
         WriterRecheck, WriterEncode, WriterFlush, WriterFail, WriterStop
    <2>3. conn[c] \in {"up", "closing"}
      BY <1>0, <2>2 DEF ConnInv, TypeOK
    <2>4. wr'[c].pc = "done" /\ conn[c] = "up" => wr'[c].failed
      <3>1. CASE WriterTake(c)
        <4>1. \E m, id : \E pc \in {"select", "encode", "register"} :
                wr' = [wr EXCEPT ![c] = [pc |-> pc, m |-> m, id |-> id,
                                         flush |-> TRUE, failed |-> FALSE]]
          BY <3>1 DEF WriterTake
        <4> QED
          BY <1>0, <4>1 DEF TypeOK
      <3>2. CASE WriterClean(c) \/ WriterRegister(c)
        <4>1. \E pc \in {"recheck", "clean", "encode"} :
                wr' = [wr EXCEPT ![c] = [wr[c] EXCEPT !.pc = pc]]
          BY <3>2 DEF WriterClean, WriterRegister
        <4>2. PICK pc \in {"recheck", "clean", "encode"} :
                wr'[c] = [wr[c] EXCEPT !.pc = pc]
          BY <1>0, <4>1 DEF TypeOK
        <4>3. wr[c] \in Writer
          BY <1>0 DEF TypeOK
        <4> QED
          BY <4>2, <4>3, WriterFields
      <3> QED
        BY <1>0, <1>8, <3>1, <3>2, WriterMoves DEF WriterStep
    <2>5. \A d \in Conns : d # c => pending'[d] = pending[d]
      BY <1>0, <1>8 DEF WriterStep, WriterPoll, WriterTake, WriterRegister, WriterClean,
         WriterRecheck, WriterEncode, WriterFlush, WriterFail, WriterStop, TypeOK
    <2> QED
      BY <1>0, <2>1, <2>3, <2>4, <2>5 DEF ConnInv
  <1>9. ASSUME NEW c \in Conns, ReaderStep(c) PROVE ConnInv'
    <2>1. UNCHANGED <<connVars, wr>> /\ \A d \in Conns : d # c => rd'[d] = rd[d]
      BY <1>0, <1>9 DEF ReaderStep, ReaderReceive, ReaderComplete, ReaderFail, TypeOK
    <2>2. rd[c].pc \notin {"off", "done"}
      BY <1>9 DEF ReaderStep, ReaderReceive, ReaderComplete, ReaderFail
    <2>3. conn[c] \in {"up", "closing"}
      BY <1>0, <2>2 DEF ConnInv, TypeOK
    <2>4. \A d \in Conns : d # c => pending'[d] = pending[d]
      BY <1>0, <1>9 DEF ReaderStep, ReaderReceive, ReaderComplete, ReaderFail, TypeOK
    <2> QED
      BY <1>0, <2>1, <2>3, <2>4 DEF ConnInv
  <1>10. CASE Stop
    BY <1>0, <1>10 DEF Stop, ConnInv
  <1>11. CASE UNCHANGED vars
    BY <1>1, <1>11 DEF vars
  <1> QED
    BY <1>2, <1>3, <1>4, <1>5, <1>6, <1>7, <1>8, <1>9, <1>10, <1>11
    DEF Next, HandlerStep

\* The invariant holds after Start.
LEMMA InitInv == Init => IInv
  <1> SUFFICES ASSUME Init PROVE IInv
    OBVIOUS
  <1>1. TypeOK
    BY InitType
  <1>2. /\ \A k \in Callers : caller[k].pc = "idle" /\ caller[k].m = NoObj
        /\ \A c \in Conns : /\ wr[c].pc = "off" /\ rd[c].pc = "off"
                            /\ pending[c] = NoPending /\ conn[c] = "dial"
        /\ \A c \in Conns, i \in Ids : pending[c][i] = NoObj
    BY DEF Init, IdleCaller, IdleWriter, IdleReader, NoPending
  <1>3. \A m : ~InQueue(m)
    BY DEF Init, InQueue
  <1>4. QueueDistinct /\ QueueInv
    BY <1>3 DEF Init, QueueDistinct, QueueInv
  <1>5. WriterInv /\ PendingInv /\ ReaderInv
    BY <1>2 DEF WriterInv, PendingInv, ReaderInv
  <1>6. CallerInv /\ NoLostCall
    BY <1>2 DEF CallerInv, CallerOwns, CallerUnqueued, CallersApart, Active, NoLostCall
  <1>7. PoolInv /\ ConnInv /\ ResultInv
    BY <1>2 DEF Init, PoolInv, ConnInv, ResultInv, ZeroResult
  <1> QED
    BY <1>1, <1>4, <1>5, <1>6, <1>7 DEF IInv

\* The invariant is inductive.
LEMMA NextInv == IInv /\ [Next]_vars => IInv'
  <1> SUFFICES ASSUME IInv, [Next]_vars PROVE IInv'
    OBVIOUS
  <1>1. TypeOK'
    BY NextType
  <1> QED
    BY <1>1, NextKeeps, ConnKeeps DEF IInv

\* IInv is an invariant of the client.
THEOREM Invariance == Spec => []IInv
  BY InitInv, NextInv, PTL DEF Spec

-----------------------------------------------------------------------------
(* The properties that TLC checks on small instances, for every instance.  *)

\* Every variable keeps its type: sequence numbers stay below the bound, maps
\* hold objects or nil, pendingRequestsCount stays in its width.
THEOREM TypeCorrect == Spec => []TypeOK
  <1>1. IInv => TypeOK
    BY DEF IInv
  <1> QED
    BY <1>1, Invariance, PTL

\* No goroutine ever closes a Done channel that is nil or closed (lines 202-427
\* of client.go close one in five places), so the client never panics there.
THEOREM CloseSafe == Spec => []CloseIsSafe
  <1>1. IInv => CloseIsSafe
    <2> SUFFICES ASSUME IInv PROVE CloseIsSafe
      OBVIOUS
    <2>0. TypeOK /\ QueueInv /\ WriterInv /\ PendingInv /\ ReaderInv
      BY DEF IInv
    <2>1. ASSUME NEW i \in 1..Len(queue)
          PROVE  obj[queue[i]].done = IF obj[queue[i]].skip THEN "nil" ELSE "open"
      <3>1. queue[i] \in Objs /\ InQueue(queue[i])
        BY <2>0, ElementOfSeq DEF TypeOK, InQueue
      <3> QED
        BY <2>0, <3>1 DEF QueueInv
    <2> QED
      BY <2>0, <2>1 DEF CloseIsSafe, WriterInv, PendingInv, ReaderInv, InFlight
  <1> QED
    BY <1>1, Invariance, PTL

\* A call that still waits can be found by a goroutine that will answer or fail
\* it, the request deleted by line 270 excepted.
THEOREM CallNotLost == Spec => []NoLostCall
  <1>1. IInv => NoLostCall
    BY DEF IInv
  <1> QED
    BY <1>1, Invariance, PTL

\* A caller only ever sees the response to its own request.
THEOREM ReplyIsOwn == Spec => []ReplyMatches
  <1>1. IInv => ReplyMatches
    BY
    DEF IInv, CallerInv, CallerOwns, CallerUnqueued, CallersApart, Active, ResultInv,
        ReplyMatches
  <1> QED
    BY <1>1, Invariance, PTL

\* asyncResultPool never holds an object that is still in use elsewhere than in
\* the hands of a writer that has registered it and is about to encode it.
THEOREM PoolPrivate == Spec => []PoolIsPrivate
  <1>1. IInv => PoolIsPrivate
    <2> SUFFICES ASSUME IInv, NEW m \in pool PROVE PoolIsPrivate!(m)
      BY DEF PoolIsPrivate
    <2>0. TypeOK /\ QueueInv /\ WriterInv /\ PendingInv /\ ReaderInv /\ CallerInv /\ PoolInv
      BY DEF IInv
    <2>1. m \in Objs /\ m # NoObj
      BY <2>0, ClientAssumption DEF TypeOK
    <2> QED
      BY <2>0, <2>1
      DEF QueueInv, WriterInv, PendingInv, ReaderInv, CallerInv, CallerOwns,
          CallerUnqueued, CallersApart, PoolInv,
         Active, InFlight, AtWriter, AtReader, InPending
  <1> QED
    BY <1>1, Invariance, PTL

\* A call ends with neither an error nor a response only after Stop.
THEOREM EmptyAnswerOnStop == Spec => []EmptyOnlyOnStop
  <1>1. IInv => EmptyOnlyOnStop
    BY
    DEF IInv, CallerInv, CallerOwns, CallerUnqueued, CallersApart, Active, ResultInv,
        EmptyOnlyOnStop, EmptyAnswer
  <1> QED
    BY <1>1, Invariance, PTL

-----------------------------------------------------------------------------
(* The bound on a pending map.                                             *)

\* The writer is in its loop, and not about to look at the size of the map.
InLoop(c) == wr[c].pc \in {"select", "block", "register", "encode"}

\* A map that only loses entries keeps its bound.
LEMMA FewerPending ==
    ASSUME TypeOK, PendingBounded, NEW c \in Conns, InLoop(c),
           \A i \in Ids : pending'[c][i] \in {pending[c][i], NoObj}
    PROVE  Cardinality(PendingIds(c))' <= 3 * PendingRequests + 1
  <1>1. PendingIds(c)' \subseteq PendingIds(c)
    BY DEF PendingIds
  <1>2. IsFiniteSet(PendingIds(c)) /\ Cardinality(PendingIds(c)) \in Nat
    BY PendingCard
  <1> PICK P, Q : P = PendingIds(c) /\ Q = PendingIds(c)'
    OBVIOUS
  <1>3. IsFiniteSet(Q) /\ Cardinality(Q) <= Cardinality(P)
    BY <1>1, <1>2, FS_Subset
  <1>4. Cardinality(Q) \in Nat
    BY <1>3, FS_CardinalityType
  <1>5. Cardinality(P) <= 3 * PendingRequests + 1
    BY DEF PendingBounded, InLoop
  <1>6. Cardinality(Q) <= 3 * PendingRequests + 1
    BY <1>2, <1>3, <1>4, <1>5, ClientAssumption
  <1> QED
    BY <1>6

\* A step that moves no writer into its loop and registers nothing keeps the bound.
LEMMA NoneRegistered ==
    ASSUME TypeOK, PendingBounded,
           \A c \in Conns : InLoop(c)' => InLoop(c),
           \A c \in Conns, i \in Ids : pending'[c][i] \in {pending[c][i], NoObj}
    PROVE  PendingBounded'
  <1> SUFFICES ASSUME NEW c \in Conns, InLoop(c)'
               PROVE  Cardinality(PendingIds(c))' <= 3 * PendingRequests + 1
    BY DEF PendingBounded, InLoop
  <1> QED
    BY FewerPending

\* Deleting one entry of one map.
LEMMA OneErased ==
    ASSUME TypeOK, NEW c \in Conns, NEW id \in Ids,
           pending' = [pending EXCEPT ![c][id] = NoObj] \/ pending' = pending
    PROVE  \A d \in Conns, i \in Ids : pending'[d][i] \in {pending[d][i], NoObj}
  <1>1. pending \in [Conns -> [Ids -> Objs \cup {NoObj}]]
    BY DEF TypeOK
  <1>2. CASE pending' = [pending EXCEPT ![c] = [pending[c] EXCEPT ![id] = NoObj]]
    <2>1. pending'[c] = [pending[c] EXCEPT ![id] = NoObj]
      BY <1>1, <1>2
    <2>2. \A i \in Ids : pending'[c][i] \in {pending[c][i], NoObj}
      BY <1>1, <2>1
    <2>3. \A d \in Conns : d # c => pending'[d] = pending[d]
      BY <1>1, <1>2
    <2> QED
      BY <2>2, <2>3
  <1>3. CASE pending' = pending
    BY <1>3
  <1> QED
    BY <1>2, <1>3

\* Registering adds one entry to a map that was not too large.
LEMMA RegisterBounded ==
    ASSUME TypeOK, WriterInv, PendingBounded, NEW c \in Conns, WriterRegister(c)
    PROVE  PendingBounded'
  <1>1. wr[c].id \in Ids /\ wr[c] \in Writer
    BY DEF WriterInv, WriterRegister, TypeOK
  <1>2. \A d \in Conns : d # c => pending'[d] = pending[d] /\ wr'[d] = wr[d]
    BY DEF WriterRegister, TypeOK
  <1>3. \A i \in Ids : i # wr[c].id => pending'[c][i] = pending[c][i]
    BY <1>1 DEF WriterRegister, TypeOK
  <1>4. wr'[c].pc = IF Cardinality(PendingIds(c)) > 3 * PendingRequests THEN "clean" ELSE "encode"
    BY <1>1 DEF WriterRegister, TypeOK, Writer
  <1>5. ASSUME NEW d \in Conns, d # c, InLoop(d)'
        PROVE  Cardinality(PendingIds(d))' <= 3 * PendingRequests + 1
    BY <1>2, <1>5, FewerPending DEF InLoop
  <1>6. ASSUME InLoop(c)'
        PROVE  Cardinality(PendingIds(c))' <= 3 * PendingRequests + 1
    <2>1. ~(Cardinality(PendingIds(c)) > 3 * PendingRequests)
      BY <1>4, <1>6 DEF InLoop
    <2>2. PendingIds(c)' \subseteq PendingIds(c) \cup {wr[c].id}
      BY <1>3 DEF PendingIds
    <2> PICK P, Q, x : P = PendingIds(c) /\ Q = PendingIds(c)' /\ x = wr[c].id
      OBVIOUS
    <2>3. IsFiniteSet(P) /\ Cardinality(P) \in Nat
      BY PendingCard
    <2>4. IsFiniteSet(P \cup {x}) /\ Cardinality(P \cup {x}) \in {Cardinality(P), Cardinality(P) + 1}
      BY <2>3, FS_AddElement
    <2>5. IsFiniteSet(Q) /\ Cardinality(Q) <= Cardinality(P \cup {x})
      BY <2>2, <2>4, FS_Subset
    <2>6. Cardinality(Q) \in Nat
      BY <2>5, FS_CardinalityType
    <2>7. Cardinality(Q) <= 3 * PendingRequests + 1
      BY <2>1, <2>3, <2>4, <2>5, <2>6, ClientAssumption
    <2> QED
      BY <2>7
  <1> QED
    BY <1>5, <1>6 DEF PendingBounded, InLoop

\* The writer goes on from its second look at the size only when that is in bounds.
LEMMA RecheckBounded ==
    ASSUME TypeOK, PendingBounded, NEW c \in Conns, WriterRecheck(c)
    PROVE  PendingBounded'
  <1>1. pending' = pending
    BY DEF WriterRecheck, mapVars
  <1>2. \A d \in Conns : d # c => wr'[d] = wr[d]
    BY DEF WriterRecheck, WriterEnds, TypeOK
  <1>3. ASSUME NEW d \in Conns, d # c, InLoop(d)'
        PROVE  Cardinality(PendingIds(d))' <= 3 * PendingRequests + 1
    BY <1>1, <1>2, <1>3, FewerPending DEF InLoop
  <1>4. CASE Cardinality(PendingIds(c)) > 3 * PendingRequests /\ WriterEnds(c, TRUE)
    <2>1. ~InLoop(c)'
      BY <1>4 DEF WriterEnds, TypeOK, IdleWriter, InLoop
    <2> QED
      BY <1>3, <2>1 DEF PendingBounded, InLoop
  <1>5. CASE Cardinality(PendingIds(c)) <= 3 * PendingRequests
    <2>1. PendingIds(c)' = PendingIds(c)
      BY <1>1 DEF PendingIds
    <2>2. Cardinality(PendingIds(c)) \in Nat
      BY PendingCard
    <2>3. Cardinality(PendingIds(c)) <= 3 * PendingRequests + 1
      BY <1>5, <2>2, ClientAssumption
    <2>4. Cardinality(PendingIds(c))' <= 3 * PendingRequests + 1
      BY <2>1, <2>3
    <2> QED
      BY <1>3, <2>4 DEF PendingBounded, InLoop
  <1> QED
    BY <1>4, <1>5 DEF WriterRecheck

\* Every step keeps the bound.
LEMMA BoundedStep == IInv /\ PendingBounded /\ [Next]_vars => PendingBounded'
  <1> SUFFICES ASSUME IInv, PendingBounded, [Next]_vars PROVE PendingBounded'
    OBVIOUS
  <1>0. TypeOK /\ WriterInv /\ ConnInv
    BY DEF IInv
  <1>1. CASE wr' = wr /\ pending' = pending
    BY <1>0, <1>1, NoneRegistered DEF InLoop
  <1>2. ASSUME NEW k \in Callers, CallerStep(k) PROVE wr' = wr /\ pending' = pending
    BY <1>2
    DEF CallerStep, Call, Retry, Evict, Resend, Receive, Timeout, Cancel, mapVars, goVars
  <1>3. ASSUME NEW c \in Conns, DialFail(c) \/ DialStopped(c) \/ Teardown(c) \/ Joined(c)
                                \/ ReaderComplete(c) \/ ReaderFail(c)
        PROVE  wr' = wr /\ pending' = pending
    BY <1>3
    DEF DialFail, DialStopped, Teardown, Joined, ReaderComplete, ReaderFail, mapVars, goVars
  <1>4. ASSUME NEW c \in Conns, DialOk(c) PROVE PendingBounded'
    <2>1. pending'[c] = NoPending /\ \A d \in Conns : d # c => pending'[d] = pending[d] /\ wr'[d] = wr[d]
      BY <1>0, <1>4 DEF DialOk, TypeOK
    <2>2. PendingIds(c)' = {}
      BY <2>1 DEF PendingIds, NoPending
    <2>3. Cardinality(PendingIds(c))' <= 3 * PendingRequests + 1
      BY <2>2, FS_EmptySet, ClientAssumption
    <2>4. ASSUME NEW d \in Conns, d # c, InLoop(d)'
          PROVE  Cardinality(PendingIds(d))' <= 3 * PendingRequests + 1
      BY <1>0, <2>1, <2>4, FewerPending DEF InLoop
    <2> QED
      BY <2>3, <2>4 DEF PendingBounded, InLoop
  <1>5. ASSUME NEW c \in Conns, NEW id \in Ids, Drain(c, id) \/ ReaderReceive(c, id)
        PROVE  PendingBounded'
    <2>1. wr' = wr /\ (pending' = [pending EXCEPT ![c][id] = NoObj] \/ pending' = pending)
      BY <1>5 DEF Drain, ReaderReceive, goVars
    <2>2. \A d \in Conns, i \in Ids : pending'[d][i] \in {pending[d][i], NoObj}
      BY <1>0, <1>5, <2>1, OneErased
    <2> QED
      BY <1>0, <2>1, <2>2, NoneRegistered DEF InLoop
  <1>6. ASSUME NEW c \in Conns, Drained(c) PROVE PendingBounded'
    <2>1. pending' = pending /\ wr'[c].pc = "off" /\ \A d \in Conns : d # c => wr'[d] = wr[d]
      BY <1>0, <1>6 DEF Drained, TypeOK, IdleWriter, mapVars
    <2> QED
      BY <1>0, <2>1, NoneRegistered DEF InLoop
  <1>7. ASSUME NEW c \in Conns, WriterPoll(c) \/ WriterEncode(c) \/ WriterFlush(c)
                                \/ WriterFail(c) \/ WriterStop(c) \/ WriterTake(c)
        PROVE  PendingBounded'
    <2>1. pending' = pending /\ InLoop(c)
      BY <1>7
      DEF WriterPoll, WriterEncode, WriterFlush, WriterFail, WriterStop, WriterTake, mapVars, InLoop
    <2>2. \A d \in Conns : d # c => wr'[d] = wr[d]
      BY <1>0, <1>7, WriterMoves DEF WriterTake, TypeOK
    <2> QED
      BY <1>0, <2>1, <2>2, NoneRegistered DEF InLoop
  <1>8. ASSUME NEW c \in Conns, WriterClean(c) PROVE PendingBounded'
    <2>1. wr[c].id \in Ids /\ wr'[c].pc = "recheck" /\ \A d \in Conns : d # c => wr'[d] = wr[d]
      BY <1>0, <1>8 DEF WriterClean, WriterInv, TypeOK, Writer
    <2>2. pending' = [pending EXCEPT ![c][wr[c].id] = NoObj] \/ pending' = pending
      BY <1>8 DEF WriterClean
    <2>3. \A d \in Conns, i \in Ids : pending'[d][i] \in {pending[d][i], NoObj}
      BY <1>0, <1>8, <2>1, <2>2, OneErased
    <2> QED
      BY <1>0, <2>1, <2>3, NoneRegistered DEF InLoop
  <1>9. CASE Stop \/ UNCHANGED vars
    BY <1>1, <1>9 DEF Stop, vars, mapVars, goVars
  <1> QED
    BY <1>0, <1>1, <1>2, <1>3, <1>4, <1>5, <1>6, <1>7, <1>8, <1>9, RegisterBounded, RecheckBounded
    DEF Next, HandlerStep, WriterStep, ReaderStep

\* While a writer serves requests, its pending map holds at most one more than
\* three times PendingRequests, on every connection and under any load
\* (client.go:258-278).
THEOREM PendingIsBounded == Spec => []PendingBounded
  <1>1. Init => PendingBounded
    BY DEF Init, PendingBounded, IdleWriter
  <1> QED
    BY <1>1, BoundedStep, Invariance, PTL DEF Spec
-----------------------------------------------------------------------------
(* Without retries a sequence number is used for one object, until it is    *)
(* encoded.                                                                 *)

\* The writer has taken a request and not encoded it yet.
Writing(c) == wr[c].pc \in {"register", "clean", "recheck", "encode"}

\* callAsync has found the channel full and not queued its request yet.
Unqueued(k) == caller[k].pc \in {"evict", "resend"}

\* m is on its way to the encoder.
Unsent(m) == \/ InQueue(m)
             \/ \E c \in Conns : Writing(c) /\ wr[c].m = m
             \/ \E k \in Callers : Unqueued(k) /\ caller[k].m = m

\* No packet with this number has reached a buffer, a connection or a reader.
NoPacketOf(i) == \A d \in Conns :
    buf[d][i] = 0 /\ wire[d][i] = 0 /\ (rd[d].pc = "complete" => rd[d].id # i)

\* An object on its way to the encoder has a number of its own, which no packet
\* has, and nobody closes or recycles it.
UnsentInv ==
    \A m \in Objs : Unsent(m) =>
        /\ m \notin pool /\ obj[m].done # "closed"
        /\ obj[m].req \in 1..seq /\ NoPacketOf(obj[m].req)
        /\ \A d \in Conns : pending[d][obj[m].req] \in {NoObj, m}
        /\ \A n \in Objs : Unsent(n) /\ obj[n].req = obj[m].req => n = m

\* It is in the hands of one writer, or in those of its caller, or queued.
HandsInv ==
    \A c \in Conns : Writing(c) =>
        /\ obj[wr[c].m].req = wr[c].id /\ ~InQueue(wr[c].m)
        /\ \A d \in Conns : Writing(d) /\ wr[d].m = wr[c].m => d = c
        /\ \A k \in Callers : Unqueued(k) => caller[k].m # wr[c].m
        /\ \A d \in Conns, i \in Ids : pending[d][i] = wr[c].m => d = c

\* No call is repeated, and nothing carries a number that was not handed out.
NumberedInv ==
    /\ \A k \in Callers : caller[k].pc # "retry" /\ caller[k].tries = 0
    /\ \A i \in Ids : i > seq => NoPacketOf(i) /\ \A d \in Conns : pending[d][i] = NoObj

EInv == UnsentInv /\ HandsInv /\ NumberedInv

\* A step that puts no object on its way.
LEMMA UnsentFewer ==
    ASSUME TypeOK, UnsentInv, seq' = seq,
           \A m \in Objs : Unsent(m)' =>
              /\ Unsent(m) /\ obj'[m].req = obj[m].req /\ obj'[m].done # "closed" /\ m \notin pool'
              /\ \A d \in Conns : pending'[d][obj[m].req] \in {pending[d][obj[m].req], NoObj, m},
           \A i \in Ids : NoPacketOf(i) =>
              NoPacketOf(i)' \/ (i <= seq /\ \A m \in Objs : Unsent(m)' => obj[m].req # i)
    PROVE  UnsentInv'
  <1> SUFFICES ASSUME NEW m \in Objs, Unsent(m)' PROVE UnsentInv!(m)'
    BY DEF UnsentInv
  <1> PICK i : i = obj[m].req
    OBVIOUS
  <1>1. /\ Unsent(m) /\ obj'[m].req = i /\ i \in 1..seq /\ NoPacketOf(i)
    BY DEF UnsentInv
  <1>2. i \in Ids
    BY <1>1, ClientAssumption DEF Ids, TypeOK
  <1>3. NoPacketOf(i)'
    BY <1>1, <1>2
  <1>4. \A d \in Conns : pending'[d][obj'[m].req] \in {NoObj, m}
    BY <1>1, <1>2 DEF UnsentInv
  <1>5. \A n \in Objs : Unsent(n)' /\ obj'[n].req = obj'[m].req => n = m
    BY <1>1 DEF UnsentInv
  <1> QED
    BY <1>1, <1>3, <1>4, <1>5 DEF NoPacketOf

\* A step that takes objects off their way, encodes some or moves none, and
\* closes or recycles only what is not on its way.
LEMMA OnlyFewer ==
    ASSUME IInv, EInv, seq' = seq,
           \A c \in Conns : Writing(c)' => Writing(c) /\ wr'[c].m = wr[c].m /\ wr'[c].id = wr[c].id,
           \A k \in Callers : /\ Unqueued(k)' => Unqueued(k) /\ caller'[k].m = caller[k].m
                              /\ caller'[k].pc # "retry" /\ caller'[k].tries = 0,
           \A m \in Objs : InQueue(m)' => InQueue(m),
           \A m \in Objs : Unsent(m)' =>
              obj'[m].req = obj[m].req /\ obj'[m].done # "closed" /\ m \notin pool',
           \A d \in Conns, i \in Ids : pending'[d][i] \in {pending[d][i], NoObj},
           \A i \in Ids : NoPacketOf(i) =>
              NoPacketOf(i)' \/ (i <= seq /\ \A m \in Objs : Unsent(m)' => obj[m].req # i)
    PROVE  EInv'
  <1>0. TypeOK /\ UnsentInv /\ HandsInv /\ NumberedInv /\ WriterInv /\ seq \in 0..MaxSeq
    BY DEF IInv, EInv, TypeOK
  <1>1. \A m \in Objs : Unsent(m)' => Unsent(m)
    BY DEF Unsent
  <1>5. ASSUME NEW m \in Objs, Unsent(m)', NEW d \in Conns
        PROVE  pending'[d][obj[m].req] \in {pending[d][obj[m].req], NoObj, m}
    BY <1>0, <1>1, <1>5, ClientAssumption DEF UnsentInv, Ids
  <1>2. UnsentInv'
    BY <1>0, <1>1, <1>5, UnsentFewer
  <1>3. HandsInv'
    <2> SUFFICES ASSUME NEW c \in Conns, Writing(c)' PROVE HandsInv!(c)'
      BY DEF HandsInv
    <2> PICK m : m = wr[c].m
      OBVIOUS
    <2>1. Writing(c) /\ wr'[c].m = m /\ wr'[c].id = wr[c].id /\ m \in Objs
      BY <1>0 DEF WriterInv, Writing
    <2>2. Unsent(m)'
      BY <2>1 DEF Unsent
    <2>3. obj'[m].req = wr[c].id /\ ~InQueue(m)'
      BY <1>0, <2>1, <2>2 DEF HandsInv
    <2>4. ~InQueue(wr[c].m)'
      BY <2>1, <2>3 DEF InQueue
    <2>5. \A d \in Conns : Writing(d)' /\ wr'[d].m = wr'[c].m => d = c
      BY <1>0, <2>1 DEF HandsInv
    <2>6. \A k \in Callers : Unqueued(k)' => caller'[k].m # wr'[c].m
      BY <1>0, <2>1 DEF HandsInv
    <2>7. \A d \in Conns, i \in Ids : pending'[d][i] = wr'[c].m => d = c
      BY <1>0, <2>1, ClientAssumption DEF HandsInv
    <2> QED
      BY <2>1, <2>3, <2>4, <2>5, <2>6, <2>7
  <1>4. NumberedInv'
    <2>1. ASSUME NEW i \in Ids, i > seq PROVE NoPacketOf(i)' /\ \A d \in Conns : pending'[d][i] = NoObj
      BY <1>0, <2>1 DEF NumberedInv, Ids
    <2> QED
      BY <2>1 DEF NumberedInv
  <1> QED
    BY <1>2, <1>3, <1>4 DEF EInv

\* The writer takes a request that nobody has canceled.
LEMMA TakeApart ==
    ASSUME IInv, EInv, NEW c \in Conns, queue # <<>>, queue' = Tail(queue), NEW m, m = Head(queue),
           wr'[c].m = m, wr'[c].id = obj[m].req,
           \A d \in Conns : d # c => wr'[d] = wr[d],
           UNCHANGED <<callVars, obj, pool, pending, rd, netVars>>
    PROVE  EInv'
  <1> USE DEF callVars, netVars
  <1>0. /\ TypeOK /\ UnsentInv /\ HandsInv /\ NumberedInv /\ WriterInv /\ QueueDistinct
        /\ PendingInv /\ CallerInv
    BY DEF IInv, EInv
  <1>1. /\ m \in Objs /\ InQueue(m)
        /\ \A x \in Objs : InQueue(x)' <=> InQueue(x) /\ x # m
    BY <1>0, AfterReceive
  <1>2. \A x \in Objs : Unsent(x)' => Unsent(x)
    BY <1>1 DEF Unsent, Writing, Unqueued
  <1>3. \A i : NoPacketOf(i)' <=> NoPacketOf(i)
    BY DEF NoPacketOf
  <1>4. UnsentInv'
    <2>1. ASSUME NEW x \in Objs, Unsent(x)'
          PROVE  /\ Unsent(x) /\ obj'[x].req = obj[x].req /\ obj'[x].done # "closed" /\ x \notin pool'
                 /\ \A d \in Conns : pending'[d][obj[x].req] \in {pending[d][obj[x].req], NoObj, x}
      BY <1>0, <1>2, <2>1 DEF UnsentInv
    <2> QED
      BY <1>0, <1>3, <2>1, UnsentFewer
  <1>5. HandsInv'
    <2> SUFFICES ASSUME NEW d \in Conns, Writing(d)' PROVE HandsInv!(d)'
      BY DEF HandsInv
    <2> PICK n : n = wr'[d].m
      OBVIOUS
    <2>0. \A e \in Conns : Writing(e)' /\ e # c => Writing(e) /\ wr[e].m \in Objs /\ wr[e].m # m
      BY <1>0, <1>1 DEF Writing, HandsInv, WriterInv
    <2>1. \A k \in Callers : Unqueued(k)' => Unqueued(k) /\ caller'[k].m = caller[k].m /\ caller[k].m # m
      BY <1>0, <1>1 DEF CallerInv, CallerUnqueued, InFlight, Unqueued
    <2>2. \A e \in Conns, i \in Ids : pending[e][i] # m
      BY <1>0, <1>1, ClientAssumption DEF PendingInv, InFlight
    <2>3. CASE d = c
      <3>1. ~InQueue(m)'
        BY <1>1
      <3>2. ~InQueue(wr[d].m)'
        BY <2>3, <3>1 DEF InQueue
      <3> QED
        BY <2>0, <2>1, <2>2, <2>3, <3>2
    <2>4. CASE d # c
      <3>1. Writing(d) /\ wr'[d] = wr[d] /\ n = wr[d].m /\ n \in Objs /\ n # m /\ ~InQueue(n)'
        BY <1>0, <1>1, <2>0, <2>4 DEF HandsInv
      <3>2. ~InQueue(wr[d].m)'
        BY <3>1 DEF InQueue
      <3>3. obj'[n].req = wr[d].id /\ \A e \in Conns, i \in Ids : pending'[e][i] = n => e = d
        BY <1>0, <3>1 DEF HandsInv
      <3>4. \A e \in Conns : Writing(e)' /\ wr'[e].m = n => e = d
        BY <1>0, <2>0, <3>1 DEF HandsInv
      <3>5. \A k \in Callers : Unqueued(k)' => caller'[k].m # n
        BY <1>0, <2>1, <3>1 DEF HandsInv
      <3> QED
        BY <3>1, <3>2, <3>3, <3>4, <3>5
    <2> QED
      BY <2>3, <2>4
  <1>6. NumberedInv'
    BY <1>0, <1>3 DEF NumberedInv
  <1> QED
    BY <1>4, <1>5, <1>6 DEF EInv

\* The writer registers the request it has taken.
LEMMA RegisterApart ==
    ASSUME IInv, EInv, NEW c \in Conns, WriterRegister(c)
    PROVE  EInv'
  <1> USE DEF callVars, netVars, resVars
  <1>0. /\ TypeOK /\ UnsentInv /\ HandsInv /\ NumberedInv /\ WriterInv
    BY DEF IInv, EInv
  <1> PICK m, id : m = wr[c].m /\ id = wr[c].id
    OBVIOUS
  <1>1. /\ m \in Objs /\ id \in Ids /\ wr[c] \in Writer /\ Writing(c)
        /\ \A d \in Conns, i \in Ids : pending[d][i] # m
    BY <1>0 DEF WriterRegister, TypeOK, WriterInv, Writing
  <1>2. /\ seq' = seq /\ caller' = caller /\ obj' = obj /\ pool' = pool /\ queue' = queue
        /\ rd' = rd /\ buf' = buf /\ wire' = wire
        /\ \A d \in Conns : d # c => wr'[d] = wr[d]
        /\ wr'[c].m = m /\ wr'[c].id = id
    BY <1>1 DEF WriterRegister, TypeOK, Writer
  <1>3. \A d \in Conns, i \in Ids : pending'[d][i] = IF d = c /\ i = id THEN m ELSE pending[d][i]
    BY <1>0, <1>1 DEF WriterRegister, TypeOK
  <1>4. \A x : (InQueue(x)' <=> InQueue(x)) /\ (NoPacketOf(x)' <=> NoPacketOf(x))
    BY <1>2 DEF InQueue, NoPacketOf
  <1>5. \A d \in Conns : Writing(d)' => Writing(d) /\ wr'[d].m = wr[d].m /\ wr'[d].id = wr[d].id
    BY <1>1, <1>2 DEF Writing
  <1>6. \A x \in Objs : Unsent(x)' => Unsent(x)
    BY <1>2, <1>4, <1>5 DEF Unsent, Unqueued
  <1>7. Unsent(m) /\ obj[m].req = id
    BY <1>0, <1>1 DEF Unsent, HandsInv
  <1>8. UnsentInv'
    <2>1. ASSUME NEW x \in Objs, Unsent(x)'
          PROVE  /\ Unsent(x) /\ obj'[x].req = obj[x].req /\ obj'[x].done # "closed" /\ x \notin pool'
                 /\ \A d \in Conns : pending'[d][obj[x].req] \in {pending[d][obj[x].req], NoObj, x}
      <3>1. Unsent(x) /\ obj[x].req \in 1..seq /\ obj[x].done # "closed" /\ x \notin pool
        BY <1>0, <1>6, <2>1 DEF UnsentInv
      <3>2. obj[x].req \in Ids
        BY <1>0, <3>1, ClientAssumption DEF Ids, TypeOK
      <3>3. obj[x].req = id => x = m
        BY <1>0, <1>1, <1>7, <3>1 DEF UnsentInv
      <3> QED
        BY <1>2, <1>3, <3>1, <3>2, <3>3
    <2> QED
      BY <1>0, <1>2, <1>4, <2>1, UnsentFewer
  <1>9. HandsInv'
    <2> SUFFICES ASSUME NEW d \in Conns, Writing(d)' PROVE HandsInv!(d)'
      BY DEF HandsInv
    <2> PICK n : n = wr[d].m
      OBVIOUS
    <2>1. Writing(d) /\ wr'[d].m = n /\ wr'[d].id = wr[d].id /\ obj'[n].req = wr[d].id /\ ~InQueue(n)'
      BY <1>0, <1>2, <1>4, <1>5 DEF HandsInv
    <2>2. ~InQueue(wr[d].m)'
      BY <2>1 DEF InQueue
    <2>3. \A e \in Conns : Writing(e)' /\ wr'[e].m = n => e = d
      BY <1>0, <1>5, <2>1 DEF HandsInv
    <2>4. \A k \in Callers : Unqueued(k)' => caller'[k].m # n
      BY <1>0, <1>2, <2>1 DEF HandsInv, Unqueued
    <2>5. \A e \in Conns, i \in Ids : pending'[e][i] = n => e = d
      BY <1>0, <1>1, <1>3, <2>1 DEF HandsInv
    <2> QED
      BY <2>1, <2>2, <2>3, <2>4, <2>5
  <1>10. NumberedInv'
    <2>1. id <= seq
      BY <1>0, <1>1, <1>7 DEF UnsentInv
    <2>2. \A i \in Ids : i > seq => i # id
      BY <1>0, <1>1, <2>1 DEF TypeOK, Ids
    <2> QED
      BY <1>0, <1>2, <1>3, <1>4, <2>2 DEF NumberedInv
  <1> QED
    BY <1>8, <1>9, <1>10 DEF EInv

\* callAsync queues, at the second attempt, the object it holds.
LEMMA ResendApart ==
    ASSUME IInv, EInv, NEW k \in Callers, caller[k].pc = "resend",
           queue' = Append(queue, caller[k].m), caller' = [caller EXCEPT ![k].pc = "wait"],
           UNCHANGED <<seq, obj, pool, pending, goVars, netVars>>
    PROVE  EInv'
  <1> USE DEF goVars, netVars
  <1>0. /\ TypeOK /\ UnsentInv /\ HandsInv /\ NumberedInv /\ CallerInv /\ QueueDistinct /\ WriterInv
    BY DEF IInv, EInv
  <1> PICK m : m = caller[k].m
    OBVIOUS
  <1>1. m \in Objs /\ ~InQueue(m) /\ Unsent(m) /\ caller[k] \in Caller
    BY <1>0 DEF CallerInv, CallerUnqueued, InFlight, Unsent, Unqueued, TypeOK
  <1>2. \A x \in Objs : InQueue(x)' <=> InQueue(x) \/ x = m
    BY <1>0, <1>1, AfterSend
  <1>3. /\ \A l \in Callers : l # k => caller'[l] = caller[l]
        /\ caller'[k].pc = "wait" /\ caller'[k].tries = caller[k].tries
    BY <1>0, <1>1 DEF TypeOK, Caller
  <1>4. \A x \in Objs : Unsent(x)' => Unsent(x)
    BY <1>1, <1>2, <1>3 DEF Unsent, Unqueued, Writing
  <1>5. \A i : NoPacketOf(i)' <=> NoPacketOf(i)
    BY DEF NoPacketOf
  <1>6. UnsentInv'
    <2>1. ASSUME NEW x \in Objs, Unsent(x)'
          PROVE  /\ Unsent(x) /\ obj'[x].req = obj[x].req /\ obj'[x].done # "closed" /\ x \notin pool'
                 /\ \A d \in Conns : pending'[d][obj[x].req] \in {pending[d][obj[x].req], NoObj, x}
      BY <1>0, <1>4, <2>1 DEF UnsentInv
    <2> QED
      BY <1>0, <1>5, <2>1, UnsentFewer
  <1>7. HandsInv'
    <2> SUFFICES ASSUME NEW d \in Conns, Writing(d)' PROVE HandsInv!(d)'
      BY DEF HandsInv
    <2> PICK n : n = wr[d].m
      OBVIOUS
    <2>1. Writing(d) /\ n \in Objs /\ n # m
      BY <1>0 DEF Writing, WriterInv, HandsInv, Unqueued
    <2>2. ~InQueue(n)'
      BY <1>0, <1>2, <2>1 DEF HandsInv
    <2>3. ~InQueue(wr[d].m)'
      BY <2>2 DEF InQueue
    <2>4. \A l \in Callers : Unqueued(l)' => Unqueued(l) /\ caller'[l].m = caller[l].m
      BY <1>3 DEF Unqueued
    <2>5. \A l \in Callers : Unqueued(l)' => caller'[l].m # n
      BY <1>0, <2>1, <2>4 DEF HandsInv
    <2>6. /\ obj'[n].req = wr[d].id /\ \A e \in Conns : Writing(e)' /\ wr'[e].m = n => e = d
          /\ \A e \in Conns, i \in Ids : pending'[e][i] = n => e = d
      BY <1>0, <2>1 DEF HandsInv, Writing
    <2> QED
      BY <2>3, <2>5, <2>6
  <1>8. NumberedInv'
    BY <1>0, <1>3, <1>5 DEF NumberedInv
  <1> QED
    BY <1>6, <1>7, <1>8 DEF EInv

\* A new call puts an object with a new number on its way, or refuses it.
LEMMA SendApart ==
    ASSUME IInv, EInv, NEW k \in Callers, NEW m, Fresh(m), \A c \in Conns : Writing(c) => wr[c].m # m,
           seq < MaxSeq, seq' = seq + 1,
           \A x \in Objs : x # m => obj'[x] = obj[x],
           \A x \in Objs : x # m => (InQueue(x)' <=> InQueue(x)) /\ (x \in pool' <=> x \in pool),
           \A l \in Callers : l # k => caller'[l] = caller[l],
           Unqueued(k)' => caller'[k].m = m, caller'[k].pc # "retry", caller'[k].tries = 0,
           Unsent(m)' => obj'[m].req = seq + 1 /\ obj'[m].done # "closed" /\ m \notin pool',
           caller[k].pc = "idle", UNCHANGED <<pending, goVars, netVars>>
    PROVE  EInv'
  <1> USE DEF goVars, netVars
  <1>0. /\ TypeOK /\ UnsentInv /\ HandsInv /\ NumberedInv /\ WriterInv /\ seq \in Nat /\ m \in Objs
    BY DEF IInv, EInv, TypeOK, Fresh
  <1>1. seq + 1 \in Ids
    BY <1>0, ClientAssumption DEF Ids
  <1>2. \A i : NoPacketOf(i)' <=> NoPacketOf(i)
    BY DEF NoPacketOf
  <1>3. \A x \in Objs : x # m /\ Unsent(x)' => Unsent(x)
    BY DEF Unsent, Writing, Unqueued
  <1>4. UnsentInv'
    <2> SUFFICES ASSUME NEW x \in Objs, Unsent(x)' PROVE UnsentInv!(x)'
      BY DEF UnsentInv
    <2> PICK i : i = obj'[x].req
      OBVIOUS
    <2>0. \A y \in Objs : y # m /\ Unsent(y)' => /\ obj'[y] = obj[y] /\ Unsent(y) /\ y \notin pool'
                                                 /\ obj[y].req \in 1..seq
      BY <1>0, <1>3 DEF UnsentInv
    <2>1. CASE x = m
      <3>1. i = seq + 1 /\ i > seq /\ i \in 1..seq'
        BY <1>0, <2>1
      <3>2. NoPacketOf(i)' /\ \A d \in Conns : pending'[d][i] = NoObj
        BY <1>0, <1>1, <1>2, <3>1 DEF NumberedInv
      <3>3. \A n \in Objs : Unsent(n)' /\ obj'[n].req = i => n = m
        BY <1>0, <2>0, <3>1
      <3> QED
        BY <2>1, <3>1, <3>2, <3>3 DEF NoPacketOf
    <2>2. CASE x # m
      <3>1. /\ obj'[x] = obj[x] /\ Unsent(x) /\ x \notin pool' /\ i \in 1..seq /\ obj'[x].done # "closed"
            /\ i \in 1..seq'
        BY <1>0, <2>0, <2>2 DEF UnsentInv
      <3>2. NoPacketOf(i) /\ \A d \in Conns : pending'[d][i] \in {NoObj, x}
        BY <1>0, <3>1 DEF UnsentInv
      <3>3. \A n \in Objs : Unsent(n)' /\ obj'[n].req = i => n = x
        BY <1>0, <2>0, <3>1 DEF UnsentInv
      <3>4. NoPacketOf(i)'
        BY <1>2, <3>2
      <3> QED
        BY <3>1, <3>2, <3>3, <3>4 DEF NoPacketOf
    <2> QED
      BY <2>1, <2>2
  <1>5. HandsInv'
    <2> SUFFICES ASSUME NEW d \in Conns, Writing(d)' PROVE HandsInv!(d)'
      BY DEF HandsInv
    <2> PICK n : n = wr[d].m
      OBVIOUS
    <2>1. Writing(d) /\ n \in Objs /\ n # m
      BY <1>0 DEF Writing, WriterInv
    <2>2. ~InQueue(n)'
      BY <1>0, <2>1 DEF HandsInv
    <2>3. ~InQueue(wr[d].m)'
      BY <2>2 DEF InQueue
    <2>5. ASSUME NEW l \in Callers, Unqueued(l)' PROVE caller'[l].m # n
      BY <1>0, <2>1, <2>5 DEF HandsInv, Unqueued
    <2>6. /\ obj'[n].req = wr[d].id /\ \A e \in Conns : Writing(e)' /\ wr'[e].m = n => e = d
          /\ \A e \in Conns, i \in Ids : pending'[e][i] = n => e = d
      BY <1>0, <2>1 DEF HandsInv, Writing
    <2> QED
      BY <2>3, <2>5, <2>6
  <1>6. NumberedInv'
    BY <1>0, <1>2 DEF NumberedInv, Ids
  <1> QED
    BY <1>4, <1>5, <1>6 DEF EInv

\* A call takes an object from the pool or a new one.
LEMMA CallApart ==
    ASSUME IInv, EInv, NEW k \in Callers, NEW kind \in Kinds, Call(k, kind)
    PROVE  EInv'
  <1> USE DEF callVars, goVars, netVars, mapVars
  <1>0. /\ TypeOK /\ UnsentInv /\ QueueDistinct /\ PoolInv /\ kind \in {"call", "async", "udp"}
        /\ seq \in Nat
    BY ClientAssumption DEF IInv, EInv, TypeOK
  <1>1. /\ caller[k].pc = "idle" /\ seq < MaxSeq /\ seq' = seq + 1
        /\ UNCHANGED <<pending, goVars, netVars>>
    BY DEF Call
  <1> PICK id : id = seq + 1
    OBVIOUS
  <1>2. TrySend(k, kind, id, 0) /\ id \in Ids
    BY <1>0, <1>1, ClientAssumption DEF Call, Ids
  <1>3. PICK m \in Available(kind) : TrySend(k, kind, id, 0)!(m)
    BY <1>2 DEF TrySend
  <1>4. Fresh(m) /\ m \in Objs /\ ~InQueue(m)
    BY AvailableIsFresh DEF Fresh
  <1>5. \A c \in Conns : Writing(c) => wr[c].m # m
    <2>1. CASE m \in pool
      BY <1>0, <1>4, <2>1 DEF UnsentInv, Unsent
    <2>2. CASE m \in Garbage
      BY <2>2 DEF Garbage, Referenced
    <2> QED
      BY <2>1, <2>2 DEF Available
  <1> DEFINE o == Filled(m, kind, id)
             At(pc) == [caller EXCEPT ![k] = [pc |-> pc, kind |-> kind, id |-> id,
                                              m |-> m, tries |-> 0]]
             idle == [caller EXCEPT ![k] = IdleCaller]
             Sent == /\ queue' = Append(queue, m)
                     /\ obj' = [obj EXCEPT ![m] = o]
                     /\ pool' = pool \ {m}
                     /\ caller' = IF kind = "udp" THEN idle ELSE At("wait")
             Refused == /\ obj' = [obj EXCEPT ![m] = Released(o)]
                        /\ pool' = pool \cup {m}
                        /\ caller' = idle
                        /\ queue' = queue
             Evicts == /\ obj' = [obj EXCEPT ![m] = o]
                       /\ pool' = pool \ {m}
                       /\ caller' = At("evict")
                       /\ queue' = queue
  <1>6. Sent \/ Refused \/ Evicts
    BY <1>3
  <1>7. o.req = id /\ o.done # "closed"
    BY <1>0, <1>4, FilledFields
  <1> HIDE DEF o
  <1>8. \A x \in Objs : x # m => obj'[x] = obj[x] /\ (x \in pool' <=> x \in pool)
    BY <1>0, <1>4, <1>6 DEF TypeOK
  <1>9. \A l \in Callers : l # k => caller'[l] = caller[l]
    BY <1>0, <1>6 DEF TypeOK
  <1>10. /\ caller'[k].pc \in {"idle", "wait", "evict"} /\ caller'[k].tries = 0
         /\ caller'[k].pc = "evict" => caller'[k].m = m
    BY <1>0, <1>6 DEF TypeOK, IdleCaller
  <1>11. \A x \in Objs : x # m => (InQueue(x)' <=> InQueue(x))
    <2>1. CASE Sent
      BY <1>0, <1>4, <2>1, AfterSend
    <2>2. CASE queue' = queue
      BY <2>2 DEF InQueue
    <2> QED
      BY <1>6, <2>1, <2>2
  <1>12. Unsent(m)' => obj'[m].req = seq + 1 /\ obj'[m].done # "closed" /\ m \notin pool'
    <2>1. CASE Sent \/ Evicts
      BY <1>0, <1>4, <1>7, <2>1 DEF TypeOK
    <2>2. CASE Refused
      <3>1. ~InQueue(m)'
        BY <1>4, <2>2 DEF InQueue
      <3>2. \A l \in Callers : Unqueued(l)' => caller'[l].m # m
        BY <1>0, <1>4, <2>2 DEF Unqueued, Fresh, TypeOK, IdleCaller
      <3>3. \A c \in Conns : Writing(c)' => wr'[c].m # m
        BY <1>1, <1>5 DEF Writing
      <3> QED
        BY <3>1, <3>2, <3>3 DEF Unsent
    <2> QED
      BY <1>6, <2>1, <2>2
  <1>13. /\ Unqueued(k)' => caller'[k].m = m
         /\ caller'[k].pc # "retry"
    BY <1>10 DEF Unqueued
  <1> HIDE DEF Sent, Refused, Evicts
  <1> QED
    BY <1>1, <1>4, <1>5, <1>8, <1>9, <1>10, <1>11, <1>12, <1>13, SendApart

\* The other steps of a caller: it gives up, is served, or evicts the oldest.
LEMMA CallerApart ==
    ASSUME IInv, EInv, RetryNum = 0, NEW k \in Callers,
           Evict(k) \/ Resend(k) \/ Receive(k) \/ Timeout(k) \/ Cancel(k)
    PROVE  EInv'
  <1> USE DEF callVars, goVars, netVars, mapVars
  <1>0. /\ TypeOK /\ UnsentInv /\ HandsInv /\ NumberedInv /\ CallerInv /\ QueueDistinct /\ WriterInv
        /\ QueueInv
    BY DEF IInv, EInv
  <1>1. seq' = seq /\ pending' = pending /\ wr' = wr /\ rd' = rd /\ buf' = buf /\ wire' = wire
    BY DEF Evict, Resend, Receive, Timeout, Cancel
  <1>2. /\ \A i : NoPacketOf(i)' <=> NoPacketOf(i)
        /\ \A c : Writing(c)' <=> Writing(c)
    BY <1>1 DEF NoPacketOf, Writing
  <1>3. caller[k] \in Caller /\ \A l \in Callers : l # k => caller'[l] = caller[l]
    BY <1>0 DEF Evict, Resend, Receive, Timeout, Cancel, TypeOK
  <1>4. ASSUME caller'[k].pc # "retry" /\ caller'[k].tries = 0,
               Unqueued(k)' => Unqueued(k) /\ caller'[k].m = caller[k].m,
               \A m \in Objs : InQueue(m)' => InQueue(m),
               \A m \in Objs : Unsent(m)' => obj'[m].req = obj[m].req /\ obj'[m].done # "closed"
                                               /\ m \notin pool'
        PROVE  EInv'
    <2>1. \A l \in Callers : /\ Unqueued(l)' => Unqueued(l) /\ caller'[l].m = caller[l].m
                             /\ caller'[l].pc # "retry" /\ caller'[l].tries = 0
      BY <1>0, <1>3, <1>4 DEF Unqueued, NumberedInv
    <2> QED
      BY <1>1, <1>2, <1>4, <2>1, OnlyFewer
  <1>5. ASSUME Evict(k) PROVE EInv'
    <2>1. caller'[k].pc = "resend" /\ caller'[k].tries = 0 /\ caller'[k].m = caller[k].m /\ Unqueued(k)
      BY <1>0, <1>3, <1>5 DEF Evict, Unqueued, NumberedInv, TypeOK, Caller
    <2>2. CASE queue' = queue /\ obj' = obj /\ pool' = pool
      <3>1. \A m : InQueue(m)' <=> InQueue(m)
        BY <2>2 DEF InQueue
      <3>2. \A m \in Objs : Unsent(m)' => Unsent(m)
        BY <1>1, <1>2, <1>3, <2>1, <3>1 DEF Unsent, Unqueued
      <3> QED
        BY <1>0, <1>4, <2>1, <2>2, <3>1, <3>2 DEF UnsentInv
    <2>3. CASE queue # <<>> /\ queue' = Tail(queue)
      <3> PICK mm : mm = Head(queue)
        OBVIOUS
      <3>1. /\ mm \in Objs /\ InQueue(mm)
            /\ \A x \in Objs : InQueue(x)' <=> InQueue(x) /\ x # mm
        BY <1>0, <2>3, AfterReceive
      <3>2. \/ Finish(mm, "overflow") \/ RecycleIf(TRUE, mm) \/ RecycleIf(FALSE, mm)
        BY <1>5, <2>3 DEF Evict
      <3>3. \A x \in Objs : x # mm => obj'[x] = obj[x] /\ (x \in pool' <=> x \in pool)
        BY <1>0, <3>1, <3>2, FinishEffect, RecycleEffect
      <3>4. ~Unsent(mm)'
        <4>1. \A c \in Conns : Writing(c)' => wr'[c].m # mm
          BY <1>0, <1>1, <1>2, <3>1 DEF HandsInv
        <4>2. \A l \in Callers : Unqueued(l)' => caller'[l].m # mm
          BY <1>0, <1>3, <2>1, <3>1 DEF Unqueued, CallerInv, CallerUnqueued, InFlight
        <4> QED
          BY <3>1, <4>1, <4>2 DEF Unsent
      <3>5. \A m \in Objs : Unsent(m)' => Unsent(m)
        BY <1>1, <1>2, <1>3, <2>1, <3>1 DEF Unsent, Unqueued
      <3> QED
        BY <1>0, <1>4, <2>1, <3>1, <3>3, <3>4, <3>5 DEF UnsentInv
    <2> QED
      BY <1>5, <2>2, <2>3 DEF Evict
  <1>6. ASSUME Resend(k), Len(queue) >= PendingRequests,
               RecycleIf(caller[k].kind = "call", caller[k].m),
               caller' = [caller EXCEPT ![k] = IdleCaller], queue' = queue
        PROVE  EInv'
    <2> PICK m : m = caller[k].m
      OBVIOUS
    <2>1. m \in Objs /\ ~InQueue(m) /\ Unqueued(k)
      BY <1>0, <1>6 DEF CallerInv, CallerUnqueued, InFlight, Resend, Unqueued
    <2>2. caller'[k].pc = "idle" /\ caller'[k].tries = 0
      BY <1>0, <1>6 DEF TypeOK, IdleCaller
    <2>3. RecycleIf(TRUE, m) \/ RecycleIf(FALSE, m)
      BY <1>6 DEF RecycleIf
    <2>4. \A x \in Objs : x # m => obj'[x] = obj[x] /\ (x \in pool' <=> x \in pool)
      BY <1>0, <2>1, <2>3 DEF RecycleIf, TypeOK
    <2>5. \A x : InQueue(x)' <=> InQueue(x)
      BY <1>6 DEF InQueue
    <2>6. ~Unsent(m)'
      <3>1. \A c \in Conns : Writing(c)' => wr'[c].m # m
        BY <1>0, <1>1, <1>2, <2>1 DEF HandsInv
      <3>2. \A l \in Callers : Unqueued(l)' => caller'[l].m # m
        BY <1>0, <1>3, <2>1, <2>2 DEF Unqueued, CallerInv, CallersApart, Active
      <3> QED
        BY <2>1, <2>5, <3>1, <3>2 DEF Unsent
    <2>7. \A x \in Objs : Unsent(x)' => Unsent(x)
      BY <1>1, <1>2, <1>3, <2>2, <2>5 DEF Unsent, Unqueued
    <2> QED
      BY <1>0, <1>4, <2>2, <2>4, <2>5, <2>6, <2>7 DEF UnsentInv, Unqueued
  <1>7. ASSUME Receive(k) PROVE EInv'
    <2> PICK m : m = caller[k].m
      OBVIOUS
    <2>1. m \in Objs /\ obj[m].done = "closed"
      BY <1>0, <1>7 DEF CallerInv, CallerOwns, Active, Receive
    <2>2. caller'[k].pc = "idle" /\ caller'[k].tries = 0 /\ queue' = queue
      BY <1>0, <1>7 DEF Receive, TypeOK, IdleCaller
    <2>3. RecycleIf(TRUE, m) \/ RecycleIf(FALSE, m)
      BY <1>7 DEF Receive, RecycleIf
    <2>4. \A x \in Objs : x # m => obj'[x] = obj[x] /\ (x \in pool' <=> x \in pool)
      BY <1>0, <2>1, <2>3 DEF RecycleIf, TypeOK
    <2>5. \A x : InQueue(x)' <=> InQueue(x)
      BY <2>2 DEF InQueue
    <2>7. \A x \in Objs : Unsent(x)' => Unsent(x) /\ x # m
      <3>1. \A x \in Objs : Unsent(x)' => Unsent(x)
        BY <1>1, <1>2, <1>3, <2>2, <2>5 DEF Unsent, Unqueued
      <3> QED
        BY <1>0, <2>1, <3>1 DEF UnsentInv
    <2> QED
      BY <1>0, <1>4, <2>2, <2>4, <2>5, <2>7 DEF UnsentInv, Unqueued
  <1>8. ASSUME Timeout(k) \/ Cancel(k) PROVE EInv'
    <2> PICK m : m = caller[k].m
      OBVIOUS
    <2>1. m \in Objs /\ caller[k].pc = "wait" /\ obj[m] \in AsyncResult
      BY <1>0, <1>8 DEF CallerInv, CallerOwns, Active, Timeout, Cancel, TypeOK
    <2>2. obj' = [obj EXCEPT ![m] = [obj[m] EXCEPT !.canceled = TRUE]] /\ queue' = queue /\ pool' = pool
      BY <1>8 DEF Timeout, Cancel
    <2>3. \A x \in Objs : obj'[x].req = obj[x].req /\ obj'[x].done = obj[x].done
      BY <1>0, <2>1, <2>2 DEF TypeOK, AsyncResult
    <2>4. caller[k].tries = 0 /\ RetryNum = 0 /\ ~(caller[k].tries + 1 <= RetryNum)
      BY <1>0 DEF NumberedInv
    <2>5. caller' = caller \/ caller' = [caller EXCEPT ![k] = IdleCaller]
      BY <1>8, <2>4 DEF Timeout, Cancel
    <2>6. caller'[k].pc \in {"wait", "idle"} /\ caller'[k].tries = 0
      BY <1>0, <2>1, <2>4, <2>5 DEF TypeOK, IdleCaller
    <2>7. \A x : InQueue(x)' <=> InQueue(x)
      BY <2>2 DEF InQueue
    <2>8. \A x \in Objs : Unsent(x)' => Unsent(x)
      BY <1>1, <1>2, <1>3, <2>6, <2>7 DEF Unsent, Unqueued
    <2> QED
      BY <1>0, <1>4, <2>2, <2>3, <2>6, <2>7, <2>8 DEF UnsentInv, Unqueued
  <1> QED
    BY <1>1, <1>5, <1>6, <1>7, <1>8, ResendApart DEF Resend

\* A step that leaves the callers, the channel and all objects alone.
LEMMA NoneMoved ==
    ASSUME IInv, EInv, UNCHANGED <<callVars, obj, pool, queue>>,
           \A c \in Conns : Writing(c)' => Writing(c) /\ wr'[c].m = wr[c].m /\ wr'[c].id = wr[c].id,
           \A d \in Conns, i \in Ids : pending'[d][i] \in {pending[d][i], NoObj},
           \A i \in Ids : NoPacketOf(i) =>
              NoPacketOf(i)' \/ (i <= seq /\ \A m \in Objs : Unsent(m)' => obj[m].req # i)
    PROVE  EInv'
  <1> USE DEF callVars
  <1>1. \A m : InQueue(m)' <=> InQueue(m)
    BY DEF InQueue
  <1>2. \A k \in Callers : /\ Unqueued(k)' => Unqueued(k) /\ caller'[k].m = caller[k].m
                           /\ caller'[k].pc # "retry" /\ caller'[k].tries = 0
    BY DEF Unqueued, EInv, NumberedInv
  <1>3. \A m \in Objs : Unsent(m)' => Unsent(m)
    BY <1>1, <1>2 DEF Unsent
  <1>4. \A m \in Objs : Unsent(m)' =>
              obj'[m].req = obj[m].req /\ obj'[m].done # "closed" /\ m \notin pool'
    BY <1>3 DEF EInv, UnsentInv
  <1> QED
    BY <1>1, <1>2, <1>4, OnlyFewer

\* Dialling, stopping and joining.
LEMMA HandlerApart ==
    ASSUME IInv, EInv, NEW c \in Conns,
           DialOk(c) \/ DialFail(c) \/ DialStopped(c) \/ Teardown(c) \/ Joined(c) \/ Drained(c)
    PROVE  EInv'
  <1> USE DEF callVars, goVars, netVars, mapVars, resVars
  <1>0. TypeOK /\ ConnInv
    BY DEF IInv
  <1>1. UNCHANGED <<callVars, obj, pool, queue>>
    BY DEF DialOk, DialFail, DialStopped, Teardown, Joined, Drained
  <1>2. \A d \in Conns : d # c => wr'[d] = wr[d] /\ rd'[d] = rd[d] /\ buf'[d] = buf[d] /\ wire'[d] = wire[d]
    BY <1>0 DEF DialOk, DialFail, DialStopped, Teardown, Joined, Drained, TypeOK
  <1>3. \/ wr'[c] = wr[c] /\ rd'[c] = rd[c] /\ buf'[c] = buf[c] /\ wire'[c] = wire[c]
        \/ /\ wr'[c].pc \in {"select", "off"} /\ rd'[c].pc \in {"read", "off"}
           /\ \/ buf'[c] = buf[c] /\ wire'[c] = wire[c]
              \/ buf'[c] = NoPackets /\ wire'[c] = NoPackets
    BY <1>0 DEF DialOk, DialFail, DialStopped, Teardown, Joined, Drained, TypeOK, IdleWriter, IdleReader
  <1>4. \A d \in Conns : Writing(d)' => Writing(d) /\ wr'[d].m = wr[d].m /\ wr'[d].id = wr[d].id
    BY <1>2, <1>3 DEF Writing
  <1>5. \A i \in Ids : NoPacketOf(i) => NoPacketOf(i)'
    BY <1>2, <1>3 DEF NoPacketOf, NoPackets
  <1>6. pending' = pending \/ pending' = [pending EXCEPT ![c] = NoPending]
    BY DEF DialOk, DialFail, DialStopped, Teardown, Joined, Drained
  <1>7. \A d \in Conns, i \in Ids : pending'[d][i] \in {pending[d][i], NoObj}
    <2>1. \A d \in Conns : pending'[d] \in {pending[d], NoPending}
      BY <1>0, <1>6 DEF TypeOK
    <2>2. \A i \in Ids : NoPending[i] = NoObj
      BY DEF NoPending
    <2> QED
      BY <2>1, <2>2
  <1> QED
    BY <1>1, <1>4, <1>5, <1>7, NoneMoved

\* A pending request that is failed is not on its way.
LEMMA DrainApart ==
    ASSUME IInv, EInv, NEW c \in Conns, NEW id \in Ids, Drain(c, id)
    PROVE  EInv'
  <1> USE DEF callVars, goVars, netVars, mapVars, resVars
  <1>0. TypeOK /\ ConnInv /\ PendingInv /\ CallerInv /\ HandsInv /\ UnsentInv
    BY DEF IInv, EInv
  <1> PICK m : m = pending[c][id]
    OBVIOUS
  <1>1. /\ m \in Objs /\ conn[c] = "drain" /\ wr[c].pc = "done" /\ InFlight(m, id)
    BY <1>0 DEF Drain, TypeOK, ConnInv, PendingInv
  <1>2. UNCHANGED <<callVars, queue, pool, wr, rd, buf, wire>> /\ \A x \in Objs : x # m => obj'[x] = obj[x]
    BY <1>0, <1>1 DEF Drain, Finish, TypeOK
  <1>3. pending' = [pending EXCEPT ![c][id] = NoObj]
    BY DEF Drain
  <1>4. \A d \in Conns, i \in Ids : pending'[d][i] \in {pending[d][i], NoObj}
    BY <1>0, <1>3, OneErased
  <1>5. /\ \A x : (InQueue(x)' <=> InQueue(x)) /\ (NoPacketOf(x)' <=> NoPacketOf(x))
        /\ \A d : (Writing(d)' <=> Writing(d)) /\ (Unqueued(d)' <=> Unqueued(d))
    BY <1>2 DEF InQueue, NoPacketOf, Writing, Unqueued
  <1>6. ~Unsent(m)
    <2>1. \A d \in Conns : Writing(d) => wr[d].m # m
      BY <1>0, <1>1 DEF HandsInv, Writing
    <2>2. \A k \in Callers : Unqueued(k) => caller[k].m # m
      BY <1>0 DEF CallerInv, CallerUnqueued, Unqueued
    <2> QED
      BY <1>1, <2>1, <2>2 DEF Unsent, InFlight
  <1>7. \A x \in Objs : Unsent(x)' => Unsent(x) /\ x # m
    BY <1>2, <1>5, <1>6 DEF Unsent
  <1>8. \A x \in Objs : Unsent(x)' =>
              obj'[x].req = obj[x].req /\ obj'[x].done # "closed" /\ x \notin pool'
    BY <1>0, <1>2, <1>7 DEF UnsentInv
  <1>9. \A k \in Callers : /\ Unqueued(k)' => Unqueued(k) /\ caller'[k].m = caller[k].m
                           /\ caller'[k].pc # "retry" /\ caller'[k].tries = 0
    BY <1>2, <1>5 DEF EInv, NumberedInv
  <1> QED
    BY <1>2, <1>4, <1>5, <1>8, <1>9, OnlyFewer

\* What a reader finds pending under an answer's number is not on its way.
LEMMA ReaderApart ==
    ASSUME IInv, EInv, NEW c \in Conns,
           ReaderComplete(c) \/ ReaderFail(c) \/ \E id \in Ids : ReaderReceive(c, id)
    PROVE  EInv'
  <1> USE DEF callVars, goVars, netVars, mapVars, resVars
  <1>0. TypeOK /\ ReaderInv /\ UnsentInv
    BY DEF IInv, EInv
  <1>1. ASSUME NEW id \in Ids, ReaderReceive(c, id) PROVE EInv'
    <2>1. UNCHANGED <<callVars, obj, pool, queue, wr, buf>> /\ ~NoPacketOf(id)
      BY <1>0, <1>1 DEF ReaderReceive, NoPacketOf, TypeOK
    <2>2. \A d \in Conns, i \in Ids : i # id => wire'[d][i] = wire[d][i]
      BY <1>0, <1>1 DEF ReaderReceive, TypeOK
    <2>3. /\ \A d \in Conns : d # c => rd'[d] = rd[d]
          /\ rd'[c] = rd[c] \/ rd'[c].id = id
      BY <1>0, <1>1 DEF ReaderReceive, TypeOK
    <2>4. \A i \in Ids : NoPacketOf(i) => NoPacketOf(i)'
      BY <2>1, <2>2, <2>3 DEF NoPacketOf
    <2>5. pending' = [pending EXCEPT ![c][id] = NoObj] \/ pending' = pending
      BY <1>1 DEF ReaderReceive
    <2>6. \A d \in Conns, i \in Ids : pending'[d][i] \in {pending[d][i], NoObj}
      BY <1>0, <1>1, <2>5, OneErased
    <2>7. \A d \in Conns : Writing(d)' => Writing(d) /\ wr'[d].m = wr[d].m /\ wr'[d].id = wr[d].id
      BY <2>1 DEF Writing
    <2> QED
      BY <2>1, <2>4, <2>6, <2>7, NoneMoved
  <1>2. ASSUME ReaderFail(c) PROVE EInv'
    <2>1. /\ UNCHANGED <<callVars, obj, pool, queue, wr, buf, wire, pending>>
          /\ \A d \in Conns : d # c => rd'[d] = rd[d]
          /\ rd'[c].pc = "done"
      BY <1>0, <1>2 DEF ReaderFail, TypeOK, Reader
    <2>2. \A i \in Ids : NoPacketOf(i) => NoPacketOf(i)'
      BY <2>1 DEF NoPacketOf
    <2>7. \A d \in Conns : Writing(d)' => Writing(d) /\ wr'[d].m = wr[d].m /\ wr'[d].id = wr[d].id
      BY <2>1 DEF Writing
    <2> QED
      BY <2>1, <2>2, <2>7, NoneMoved
  <1>3. ASSUME ReaderComplete(c) PROVE EInv'
    <2> PICK m : m = rd[c].m
      OBVIOUS
    <2>1. /\ m \in Objs /\ obj[m].req = rd[c].id /\ ~NoPacketOf(obj[m].req)
      BY <1>0, <1>3 DEF ReaderComplete, ReaderInv, InFlight, NoPacketOf
    <2>2. /\ UNCHANGED <<callVars, pool, queue, wr, buf, wire, pending>>
          /\ \A d \in Conns : d # c => rd'[d] = rd[d]
          /\ rd'[c].pc = "read" /\ \A x \in Objs : x # m => obj'[x] = obj[x]
      BY <1>0, <1>3 DEF ReaderComplete, TypeOK, IdleReader
    <2>3. /\ \A x : (InQueue(x)' <=> InQueue(x)) /\ (NoPacketOf(x) => NoPacketOf(x)')
          /\ \A d : (Writing(d)' <=> Writing(d)) /\ (Unqueued(d)' <=> Unqueued(d))
      BY <2>2 DEF InQueue, NoPacketOf, Writing, Unqueued
    <2>4. \A x \in Objs : Unsent(x)' => Unsent(x)
      BY <2>2, <2>3 DEF Unsent
    <2>5. \A x \in Objs : Unsent(x)' => Unsent(x) /\ x # m
      BY <1>0, <2>1, <2>4 DEF UnsentInv
    <2>6. \A x \in Objs : Unsent(x)' =>
              obj'[x].req = obj[x].req /\ obj'[x].done # "closed" /\ x \notin pool'
      BY <1>0, <2>2, <2>5 DEF UnsentInv
    <2>7. \A k \in Callers : /\ Unqueued(k)' => Unqueued(k) /\ caller'[k].m = caller[k].m
                             /\ caller'[k].pc # "retry" /\ caller'[k].tries = 0
      BY <2>2, <2>3 DEF EInv, NumberedInv
    <2> QED
      BY <2>2, <2>3, <2>6, <2>7, OnlyFewer
  <1> QED
    BY <1>1, <1>2, <1>3

\* The writer's other steps: it encodes the request under its own number, drops
\* it, or has none.
LEMMA WriterApart ==
    ASSUME IInv, EInv, NEW c \in Conns, WriterStep(c)
    PROVE  EInv'
  <1> USE DEF callVars, goVars, netVars, mapVars, resVars
  <1>0. TypeOK /\ WriterInv /\ UnsentInv /\ HandsInv /\ QueueDistinct /\ CallerInv
    BY DEF IInv, EInv
  <1>1. ASSUME WriterTake(c) PROVE EInv'
    <2> PICK m : m = Head(queue)
      OBVIOUS
    <2>1. /\ m \in Objs /\ InQueue(m) /\ queue # <<>> /\ queue' = Tail(queue)
          /\ \A x \in Objs : InQueue(x)' <=> InQueue(x) /\ x # m
      BY <1>0, <1>1, AfterReceive DEF WriterTake
    <2>2. \A d \in Conns : d # c => wr'[d] = wr[d]
      BY <1>0, <1>1 DEF WriterTake, TypeOK
    <2>3. UNCHANGED <<callVars, pending, rd, netVars>>
      BY <1>1 DEF WriterTake
    <2>4. CASE ~obj[m].canceled
      <3>1. /\ wr' = [wr EXCEPT ![c] = [pc |-> IF obj[m].skip THEN "encode" ELSE "register",
                                        m |-> m, id |-> obj[m].req,
                                        flush |-> TRUE, failed |-> FALSE]]
            /\ obj' = obj /\ pool' = pool
        BY <1>1, <2>4 DEF WriterTake
      <3>2. wr'[c].m = m /\ wr'[c].id = obj[m].req
        BY <1>0, <3>1 DEF TypeOK
      <3> QED
        BY <2>1, <2>2, <2>3, <3>1, <3>2, TakeApart
    <2>5. CASE obj[m].canceled
      <3>0. /\ wr' = [wr EXCEPT ![c] = [pc |-> "select", m |-> NoObj, id |-> NoId,
                                        flush |-> TRUE, failed |-> FALSE]]
            /\ Finish(m, "canceled") \/ RecycleIf(TRUE, m)
        BY <1>1, <2>5 DEF WriterTake
      <3>1. wr'[c].pc = "select" /\ (Finish(m, "canceled") \/ RecycleIf(TRUE, m))
        BY <1>0, <3>0 DEF TypeOK
      <3>2. \A x \in Objs : x # m => obj'[x] = obj[x] /\ (x \in pool' <=> x \in pool)
        BY <1>0, <2>1, <3>1 DEF Finish, RecycleIf, TypeOK
      <3>3. /\ \A d \in Conns : Writing(d)' => Writing(d) /\ wr'[d].m = wr[d].m /\ wr'[d].id = wr[d].id
            /\ \A i \in Ids : NoPacketOf(i) => NoPacketOf(i)'
            /\ \A k : Unqueued(k)' <=> Unqueued(k)
        BY <2>2, <2>3, <3>1 DEF Writing, NoPacketOf, Unqueued
      <3>4. \A x \in Objs : Unsent(x)' => Unsent(x)
        BY <2>1, <2>3, <3>3 DEF Unsent
      <3>5. ~Unsent(m)'
        <4>1. \A d \in Conns : Writing(d)' => wr'[d].m # m
          BY <1>0, <2>1, <3>3 DEF HandsInv
        <4>2. \A k \in Callers : Unqueued(k)' => caller'[k].m # m
          BY <1>0, <2>1, <2>3, <3>3 DEF CallerInv, CallerUnqueued, InFlight, Unqueued
        <4> QED
          BY <2>1, <4>1, <4>2 DEF Unsent
      <3>6. \A x \in Objs : Unsent(x)' =>
                obj'[x].req = obj[x].req /\ obj'[x].done # "closed" /\ x \notin pool'
        BY <1>0, <3>2, <3>4, <3>5 DEF UnsentInv
      <3>7. \A k \in Callers : /\ Unqueued(k)' => Unqueued(k) /\ caller'[k].m = caller[k].m
                               /\ caller'[k].pc # "retry" /\ caller'[k].tries = 0
        BY <2>3, <3>3 DEF EInv, NumberedInv
      <3> QED
        BY <2>1, <2>3, <3>3, <3>6, <3>7, OnlyFewer
    <2> QED
      BY <2>4, <2>5
  <1>2. ASSUME WriterClean(c) PROVE EInv'
    <2>1. UNCHANGED <<callVars, obj, pool, queue, rd, buf, wire>> /\ wr[c].id \in Ids /\ wr[c] \in Writer
      BY <1>0, <1>2 DEF WriterClean, WriterInv, TypeOK
    <2>2. \A d \in Conns : Writing(d)' => Writing(d) /\ wr'[d].m = wr[d].m /\ wr'[d].id = wr[d].id
      BY <1>0, <1>2, <2>1 DEF WriterClean, Writing, TypeOK, Writer
    <2>3. pending' = [pending EXCEPT ![c][wr[c].id] = NoObj] \/ pending' = pending
      BY <1>2 DEF WriterClean
    <2>4. \A d \in Conns, i \in Ids : pending'[d][i] \in {pending[d][i], NoObj}
      BY <1>0, <2>1, <2>3, OneErased
    <2>5. \A i \in Ids : NoPacketOf(i) => NoPacketOf(i)'
      BY <2>1 DEF NoPacketOf
    <2> QED
      BY <2>1, <2>2, <2>4, <2>5, NoneMoved
  <1>3. ASSUME WriterPoll(c) \/ WriterRecheck(c) \/ WriterFlush(c) \/ WriterFail(c) \/ WriterStop(c)
        PROVE  EInv'
    <2>1. UNCHANGED <<callVars, obj, pool, queue, rd, pending>>
      BY <1>3 DEF WriterPoll, WriterRecheck, WriterFlush, WriterFail, WriterStop
    <2>2. \A d \in Conns : Writing(d)' => Writing(d) /\ wr'[d].m = wr[d].m /\ wr'[d].id = wr[d].id
      BY <1>0, <1>3, WriterMoves DEF Writing
    <2>3. \/ buf' = buf /\ wire' = wire
          \/ wire' = [wire EXCEPT ![c] = Plus(@, buf[c])] /\ buf' = [buf EXCEPT ![c] = NoPackets]
      BY <1>3 DEF WriterPoll, WriterRecheck, WriterFlush, WriterFail, WriterStop
    <2>4. \A i \in Ids : NoPacketOf(i) => NoPacketOf(i)'
      <3>1. \A i \in Ids : buf[c][i] = 0 /\ wire[c][i] = 0 => Plus(wire[c], buf[c])[i] = 0
        BY DEF Plus
      <3>2. \A i \in Ids : NoPackets[i] = 0
        BY DEF NoPackets
      <3>3. \A d \in Conns, i \in Ids :
               buf[d][i] = 0 /\ wire[d][i] = 0 => buf'[d][i] = 0 /\ wire'[d][i] = 0
        <4>1. \A d \in Conns : \/ buf'[d] = buf[d] /\ wire'[d] = wire[d]
                               \/ d = c /\ buf'[d] = NoPackets /\ wire'[d] = Plus(wire[c], buf[c])
          BY <1>0, <2>3 DEF TypeOK
        <4> QED
          BY <3>1, <3>2, <4>1
      <3> QED
        BY <2>1, <3>3 DEF NoPacketOf
    <2> QED
      BY <2>1, <2>2, <2>4, NoneMoved
  <1>4. ASSUME WriterEncode(c) PROVE EInv'
    <2> PICK m, r : m = wr[c].m /\ r = obj[m].req
      OBVIOUS
    <2>1. UNCHANGED <<callVars, obj, pool, queue, rd, pending>>
      BY <1>4 DEF WriterEncode
    <2>2. /\ \A d \in Conns : d # c => wr'[d] = wr[d]
          /\ wr'[c].pc \in {"select", "block", "done"}
      BY <1>0, <1>4, WriterMoves DEF WriterEncode
    <2>3. \A d \in Conns : Writing(d)' => Writing(d) /\ wr'[d].m = wr[d].m /\ wr'[d].id = wr[d].id
      BY <2>2 DEF Writing
    <2>4. Writing(c) /\ m \in Objs /\ Unsent(m) /\ r \in 1..seq /\ ~InQueue(m)
      BY <1>0, <1>4 DEF WriterEncode, WriterInv, Unsent, Writing, UnsentInv, HandsInv
    <2>5. \/ buf' = buf /\ wire' = wire
          \/ buf' = [buf EXCEPT ![c] = Plus(buf[c], Packet(r))] /\ wire' = wire
          \/ wire' = [wire EXCEPT ![c] = Plus(wire[c], Plus(buf[c], Packet(r)))]
               /\ buf' = [buf EXCEPT ![c] = NoPackets]
      BY <1>4 DEF WriterEncode
    <2>6. \A i \in Ids : i # r /\ NoPacketOf(i) => NoPacketOf(i)'
      BY <1>0, <2>1, <2>5 DEF NoPacketOf, Plus, Packet, NoPackets, TypeOK
    <2>7. ~Unsent(m)'
      <3>1. ~InQueue(m)' /\ \A k : Unqueued(k)' <=> Unqueued(k)
        BY <2>1, <2>4 DEF InQueue, Unqueued
      <3>2. \A d \in Conns : Writing(d)' => wr'[d].m # m
        BY <1>0, <2>2, <2>3, <2>4 DEF HandsInv, Writing
      <3>3. \A k \in Callers : Unqueued(k)' => caller'[k].m # m
        BY <1>0, <2>1, <2>4, <3>1 DEF HandsInv
      <3> QED
        BY <3>1, <3>2, <3>3 DEF Unsent
    <2>8. \A x \in Objs : Unsent(x)' => Unsent(x)
      <3>1. \A x : (InQueue(x)' <=> InQueue(x)) /\ (Unqueued(x)' <=> Unqueued(x))
        BY <2>1 DEF InQueue, Unqueued
      <3> QED
        BY <2>1, <2>3, <3>1 DEF Unsent
    <2>9. r <= seq /\ \A x \in Objs : Unsent(x)' => obj[x].req # r
      BY <1>0, <2>4, <2>7, <2>8 DEF UnsentInv
    <2>10. \A i \in Ids : NoPacketOf(i) =>
              NoPacketOf(i)' \/ (i <= seq /\ \A x \in Objs : Unsent(x)' => obj[x].req # i)
      BY <2>6, <2>9
    <2> QED
      BY <2>1, <2>3, <2>10, NoneMoved
  <1> QED
    BY <1>1, <1>2, <1>3, <1>4, RegisterApart DEF WriterStep

\* Without retries every step keeps it so.
LEMMA ApartStep ==
    ASSUME RetryNum = 0, IInv, EInv, [Next]_vars
    PROVE  EInv'
  <1> USE DEF callVars, goVars, netVars, mapVars, resVars
  <1>1. ASSUME NEW k \in Callers, CallerStep(k) PROVE EInv'
    <2>1. ~Retry(k)
      BY DEF Retry, EInv, NumberedInv
    <2> QED
      BY <1>1, <2>1, CallApart, CallerApart DEF CallerStep
  <1>2. ASSUME NEW c \in Conns, HandlerStep(c) PROVE EInv'
    BY <1>2, HandlerApart, DrainApart DEF HandlerStep
  <1>3. ASSUME NEW c \in Conns, ReaderStep(c) PROVE EInv'
    BY <1>3, ReaderApart DEF ReaderStep
  <1>4. CASE Stop \/ UNCHANGED vars
    <2>1. UNCHANGED <<callVars, obj, pool, queue, wr, pending, rd, buf, wire>>
      BY <1>4 DEF Stop, vars
    <2>2. \A i : NoPacketOf(i)' <=> NoPacketOf(i)
      BY <2>1 DEF NoPacketOf
    <2>3. \A d \in Conns : Writing(d)' => Writing(d) /\ wr'[d].m = wr[d].m /\ wr'[d].id = wr[d].id
      BY <2>1 DEF Writing
    <2> QED
      BY <2>1, <2>2, <2>3, NoneMoved
  <1> QED
    BY <1>1, <1>2, <1>3, <1>4, WriterApart DEF Next

\* In the beginning nothing is on its way.
LEMMA InitApart == Init => EInv
  <1> SUFFICES ASSUME Init PROVE EInv
    OBVIOUS
  <1>1. \A m : ~Unsent(m)
    BY DEF Init, Unsent, InQueue, Writing, Unqueued, IdleWriter, IdleCaller
  <1>2. \A c \in Conns : ~Writing(c)
    BY DEF Init, Writing, IdleWriter
  <1>3. \A i \in Ids : NoPacketOf(i) /\ \A d \in Conns : pending[d][i] = NoObj
    BY DEF Init, NoPacketOf, NoPackets, NoPending, IdleReader
  <1>4. \A k \in Callers : caller[k].pc # "retry" /\ caller[k].tries = 0
    BY DEF Init, IdleCaller
  <1> QED
    BY <1>1, <1>2, <1>3, <1>4 DEF EInv, UnsentInv, HandsInv, NumberedInv

\* Without retries the packet a writer encodes is that of the request it took
\* from the channel, although it reads the request only after it has released the
\* lock and the object may be recycled meanwhile (client.go:253-285).  With
\* retries it is not: a late answer to the first attempt completes the second.
THEOREM EncodesItsOwn == RetryNum = 0 => (Spec => []EncodesOwnRequest)
  <1> SUFFICES ASSUME RetryNum = 0 PROVE Spec => []EncodesOwnRequest
    OBVIOUS
  <1>1. IInv /\ EInv /\ [Next]_vars => EInv'
    BY ApartStep
  <1>2. EInv => EncodesOwnRequest
    BY DEF EInv, HandsInv, EncodesOwnRequest, Writing
  <1> QED
    BY <1>1, <1>2, InitApart, Invariance, PTL DEF Spec

-----------------------------------------------------------------------------
(* The counter of the requests that wait for a response.                   *)

\* Division with remainder.
LEMMA DivDef ==
    ASSUME NEW a \in Int, NEW n \in Nat \ {0}
    PROVE  /\ a \div n \in Int /\ a % n \in 0..(n - 1)
           /\ a = n * (a \div n) + (a % n)
  BY SMTT(30)

\* The remainder is unique.
LEMMA NoMultiple ==
    ASSUME NEW n \in Nat \ {0}, NEW p \in Int, NEW q \in Int, NEW r \in 0..(n-1), NEW s \in 0..(n-1),
           n * p + r = n * q + s
    PROVE  r = s
  <1>1. CASE p = q
    BY <1>1
  <1>2. CASE p > q
    <2>1. PICK d \in Nat : p = q + 1 + d
      <3>1. p - q - 1 \in Nat
        BY <1>2
      <3> QED
        BY <3>1
    <2>2. n * p = n * q + n + n * d
      BY <2>1
    <2>3. n * d \in Nat /\ n * q \in Int
      BY SMT
    <2> QED
      BY <2>2, <2>3
  <1>3. CASE p < q
    <2>1. PICK d \in Nat : q = p + 1 + d
      <3>1. q - p - 1 \in Nat
        BY <1>3
      <3> QED
        BY <3>1
    <2>2. n * q = n * p + n + n * d
      BY <2>1
    <2>3. n * d \in Nat /\ n * p \in Int
      BY SMT
    <2> QED
      BY <2>2, <2>3
  <1> QED
    BY <1>1, <1>2, <1>3

\* Multiplication distributes over addition.
LEMMA Distributes ==
    ASSUME NEW n \in Int, NEW p \in Int, NEW q \in Int
    PROVE  n * (p + q) = n * p + n * q
  OBVIOUS

\* A counter that wraps may be reduced before or after it is moved.
LEMMA ModShift ==
    ASSUME NEW a \in Int, NEW d \in Int, NEW n \in Nat \ {0}
    PROVE  ((a % n) + d) % n = (a + d) % n
  <1> PICK q, r : q = a \div n /\ r = a % n
    OBVIOUS
  <1>1. q \in Int /\ r \in 0..(n - 1) /\ a = n * q + r
    BY DivDef
  <1> PICK x : x = r + d
    OBVIOUS
  <1>2. x \in Int
    BY <1>1
  <1> PICK q2, r2 : q2 = x \div n /\ r2 = x % n
    OBVIOUS
  <1>3. q2 \in Int /\ r2 \in 0..(n - 1) /\ x = n * q2 + r2
    BY <1>2, DivDef
  <1> PICK q3, r3 : q3 = (a + d) \div n /\ r3 = (a + d) % n
    OBVIOUS
  <1>4. q3 \in Int /\ r3 \in 0..(n - 1) /\ a + d = n * q3 + r3
    BY DivDef
  <1>5. n * (q + q2) = n * q + n * q2
    BY <1>1, <1>3, Distributes
  <1> PICK u, v, w : u = n * q /\ v = n * q2 /\ w = n * q3
    OBVIOUS
  <1>6. u \in Int /\ v \in Int /\ w \in Int
    BY <1>1, <1>3, <1>4
  <1>7. (u + v) + r2 = w + r3
    <2>1. a = u + r /\ x = v + r2 /\ a + d = w + r3 /\ x = r + d
      BY <1>1, <1>3, <1>4
    <2> QED
      BY <1>1, <1>3, <1>4, <1>6, <2>1
  <1>8. n * (q + q2) + r2 = n * q3 + r3
    BY <1>5, <1>7
  <1>9. r2 = r3
    BY <1>1, <1>3, <1>4, <1>8, NoMultiple
  <1> QED
    BY <1>9

\* The requests that wait for a response: registered, or in a reader's hands.
Registered == {ci \in Conns \X Ids : pending[ci[1]][ci[2]] # NoObj}
Completing == {c \in Conns : rd[c].pc = "complete"}

\* The counter counts them, and they are finitely many.
CountInv == IsFiniteSet(Registered) /\ IsFiniteSet(Completing) /\ CountExact

\* One request more, or one less, moves the counter with it.
LEMMA CountShift ==
    ASSUME NEW a \in Nat, NEW n, n = a % CountMod
    PROVE  (n + 1) % CountMod = (a + 1) % CountMod /\ (n - 1) % CountMod = (a - 1) % CountMod
  <1>1. ASSUME NEW d \in Int PROVE (n + d) % CountMod = (a + d) % CountMod
    <2>1. a \in Int /\ CountMod \in Nat \ {0}
      BY ClientAssumption
    <2>2. ((a % CountMod) + d) % CountMod = (a + d) % CountMod
      BY ONLY <2>1, d \in Int, ModShift
    <2> QED
      BY <2>2
  <1>2. (n + 1) % CountMod = (a + 1) % CountMod /\ (n + (-1)) % CountMod = (a + (-1)) % CountMod
    BY <1>1
  <1>3. n \in Int
    BY ModRange
  <1> QED
    BY <1>2, <1>3

\* A request is registered.
LEMMA CountUp ==
    ASSUME NEW P, NEW Q, IsFiniteSet(P), IsFiniteSet(Q),
           NEW n, n = (Cardinality(P) + Cardinality(Q)) % CountMod, NEW x, x \notin P
    PROVE  /\ IsFiniteSet(P \cup {x})
           /\ (n + 1) % CountMod = (Cardinality(P \cup {x}) + Cardinality(Q)) % CountMod
  <1> PICK a, b : a = Cardinality(P) /\ b = Cardinality(Q)
    OBVIOUS
  <1>1. a \in Nat /\ b \in Nat
    BY FS_CardinalityType
  <1>2. IsFiniteSet(P \cup {x}) /\ Cardinality(P \cup {x}) = a + 1
    BY FS_AddElement
  <1>3. a + b \in Nat /\ (a + 1) + b = (a + b) + 1
    BY <1>1
  <1>4. (n + 1) % CountMod = ((a + b) + 1) % CountMod
    BY <1>3, CountShift
  <1> QED
    BY <1>2, <1>3, <1>4

\* A request leaves one of the two sets.
LEMMA CountDown ==
    ASSUME NEW P, NEW Q, IsFiniteSet(P), IsFiniteSet(Q),
           NEW n, n = (Cardinality(P) + Cardinality(Q)) % CountMod, NEW x, x \in P
    PROVE  /\ IsFiniteSet(P \ {x})
           /\ (n - 1) % CountMod = (Cardinality(P \ {x}) + Cardinality(Q)) % CountMod
           /\ (n - 1) % CountMod = (Cardinality(Q) + Cardinality(P \ {x})) % CountMod
  <1> PICK a, b : a = Cardinality(P) /\ b = Cardinality(Q)
    OBVIOUS
  <1>1. a \in Nat /\ b \in Nat
    BY FS_CardinalityType
  <1>2. IsFiniteSet(P \ {x}) /\ Cardinality(P \ {x}) = a - 1
    BY FS_RemoveElement
  <1>3. a + b \in Nat /\ (a - 1) + b = (a + b) - 1 /\ b + (a - 1) = (a + b) - 1
    BY <1>1
  <1>4. (n - 1) % CountMod = ((a + b) - 1) % CountMod
    BY <1>3, CountShift
  <1> QED
    BY <1>2, <1>3, <1>4

\* A request that goes from one set to the other is counted as before.
LEMMA CountMoves ==
    ASSUME NEW P, NEW Q, IsFiniteSet(P), IsFiniteSet(Q), NEW x \in P, NEW y, y \notin Q
    PROVE  /\ IsFiniteSet(P \ {x}) /\ IsFiniteSet(Q \cup {y})
           /\ Cardinality(P \ {x}) + Cardinality(Q \cup {y}) = Cardinality(P) + Cardinality(Q)
  <1>1. IsFiniteSet(P \ {x}) /\ Cardinality(P \ {x}) = Cardinality(P) - 1
    BY FS_RemoveElement
  <1>2. IsFiniteSet(Q \cup {y}) /\ Cardinality(Q \cup {y}) = Cardinality(Q) + 1
    BY FS_AddElement
  <1>3. Cardinality(P) \in Nat /\ Cardinality(Q) \in Nat
    BY FS_CardinalityType
  <1> QED
    BY <1>1, <1>2, <1>3

\* CountExact in terms of the two sets.
LEMMA CountSets ==
    /\ CountExact <=> count = (Cardinality(Registered) + Cardinality(Completing)) % CountMod
    /\ CountExact' <=> count' = (Cardinality(Registered') + Cardinality(Completing')) % CountMod
  BY DEF CountExact, Registered, Completing

\* A step that leaves the counter and both sets alone.
LEMMA CountSame ==
    ASSUME CountInv, count' = count, Registered' = Registered, Completing' = Completing
    PROVE  CountInv'
  BY CountSets DEF CountInv

\* Writing one entry of one map.
LEMMA OneEntry ==
    ASSUME TypeOK, NEW c \in Conns, NEW id \in Ids, NEW m \in Objs \cup {NoObj},
           pending' = [pending EXCEPT ![c][id] = m]
    PROVE  Registered' = IF m = NoObj THEN Registered \ {<<c, id>>}
                                      ELSE Registered \cup {<<c, id>>}
  <1>1. pending \in [Conns -> [Ids -> Objs \cup {NoObj}]]
    BY DEF TypeOK
  <1>2. pending' = [pending EXCEPT ![c] = [pending[c] EXCEPT ![id] = m]]
    OBVIOUS
  <1>3. pending'[c] = [pending[c] EXCEPT ![id] = m]
    BY <1>1, <1>2
  <1>4. pending'[c][id] = m /\ \A i \in Ids : i # id => pending'[c][i] = pending[c][i]
    BY <1>1, <1>3
  <1>5. \A d \in Conns : d # c => pending'[d] = pending[d]
    BY <1>1, <1>2
  <1>6. \A d \in Conns, i \in Ids : <<d, i>> # <<c, id>> => pending'[d][i] = pending[d][i]
    BY <1>4, <1>5
  <1>7. ASSUME NEW d \in Conns, NEW i \in Ids
        PROVE  <<d, i>> \in Registered' <=>
                  <<d, i>> \in IF m = NoObj THEN Registered \ {<<c, id>>}
                                            ELSE Registered \cup {<<c, id>>}
    <2>1. <<d, i>> \in Registered' <=> pending'[d][i] # NoObj
      BY DEF Registered
    <2>2. <<d, i>> \in Registered <=> pending[d][i] # NoObj
      BY DEF Registered
    <2>3. CASE <<d, i>> = <<c, id>>
      BY <1>4, <2>1, <2>2, <2>3
    <2>4. CASE <<d, i>> # <<c, id>>
      BY <1>6, <2>1, <2>2, <2>4
    <2> QED
      BY <2>3, <2>4
  <1>8. Registered \subseteq Conns \X Ids /\ Registered' \subseteq Conns \X Ids
    BY DEF Registered
  <1>9. \A e \in Conns \X Ids : \E d \in Conns, i \in Ids : e = <<d, i>>
    OBVIOUS
  <1> QED
    BY <1>7, <1>8, <1>9

\* The entry a writer fills is empty: its number has never been on a connection.
LEMMA EntryIsFree ==
    ASSUME IInv, EInv, NEW c \in Conns, wr[c].pc = "register"
    PROVE  wr[c].m \in Objs /\ wr[c].id \in Ids /\ pending[c][wr[c].id] = NoObj
  <1> PICK m : m = wr[c].m
    OBVIOUS
  <1>1. WriterInv /\ HandsInv /\ UnsentInv
    BY DEF IInv, EInv
  <1>2. Writing(c) /\ m \in Objs /\ wr[c].id \in Ids /\ Unsent(m)
    BY <1>1 DEF WriterInv, Writing, Unsent
  <1>3. obj[m].req = wr[c].id /\ pending[c][obj[m].req] \in {NoObj, m}
    BY <1>1, <1>2 DEF HandsInv, UnsentInv
  <1>4. pending[c][wr[c].id] # m
    BY <1>1, <1>2 DEF WriterInv
  <1> QED
    BY <1>2, <1>3, <1>4

\* Every step but the clean-up keeps the counter exact.
LEMMA CountStep ==
    ASSUME IInv, EInv, CountInv, \A c \in Conns : wr[c].pc # "clean", [Next]_vars
    PROVE  CountInv'
  <1> USE DEF callVars, resVars, connVars, goVars, netVars, mapVars
  <1>0. TypeOK /\ ConnInv /\ IsFiniteSet(Registered) /\ IsFiniteSet(Completing)
    BY DEF IInv, CountInv
  <1> PICK P, Q, n : P = Registered /\ Q = Completing /\ n = count
    OBVIOUS
  <1>12. IsFiniteSet(P) /\ IsFiniteSet(Q) /\ n = (Cardinality(P) + Cardinality(Q)) % CountMod
    BY CountSets DEF CountInv
  <1>1. CASE count' = count /\ pending' = pending /\ rd' = rd
    BY <1>1, CountSame DEF Registered, Completing
  <1>2. ASSUME NEW k \in Callers, CallerStep(k) PROVE CountInv'
    BY <1>1, <1>2
    DEF CallerStep, Call, Retry, Evict, Resend, Receive, Timeout, Cancel
  <1>3. ASSUME NEW c \in Conns, DialFail(c) \/ DialStopped(c) \/ Teardown(c) \/ Joined(c)
        PROVE  CountInv'
    BY <1>1, <1>3 DEF DialFail, DialStopped, Teardown, Joined
  <1>4. ASSUME NEW c \in Conns, WriterPoll(c) \/ WriterTake(c) \/ WriterRecheck(c) \/ WriterEncode(c)
                   \/ WriterFlush(c) \/ WriterFail(c) \/ WriterStop(c)
        PROVE  CountInv'
    BY <1>1, <1>4
    DEF WriterPoll, WriterTake, WriterRecheck, WriterEncode, WriterFlush, WriterFail, WriterStop
  <1>5. CASE Stop \/ UNCHANGED vars
    BY <1>1, <1>5 DEF Stop, vars
  <1>6. ASSUME NEW c \in Conns, ReaderFail(c) \/ DialOk(c) \/ Drained(c) PROVE CountInv'
    <2>1. /\ count' = count /\ rd[c].pc # "complete" /\ rd'[c].pc # "complete"
          /\ \A d \in Conns : d # c => rd'[d] = rd[d]
      BY <1>0, <1>6 DEF ReaderFail, DialOk, Drained, TypeOK, Reader, IdleReader, ConnInv
    <2>2. Completing' = Completing
      BY <2>1 DEF Completing
    <2>3. pending' = pending
      <3>1. CASE DialOk(c)
        <4>1. pending' = [pending EXCEPT ![c] = NoPending] /\ pending[c] = NoPending
          BY <1>0, <3>1 DEF DialOk, ConnInv
        <4> QED
          BY <1>0, <4>1 DEF TypeOK
      <3> QED
        BY <1>6, <3>1 DEF ReaderFail, Drained
    <2> QED
      BY <2>1, <2>2, <2>3, CountSame DEF Registered
  <1>7. ASSUME NEW c \in Conns, WriterRegister(c) PROVE CountInv'
    <2> PICK m, i : m = wr[c].m /\ i = wr[c].id
      OBVIOUS
    <2>1. m \in Objs /\ i \in Ids /\ pending[c][i] = NoObj /\ m # NoObj
      BY <1>7, EntryIsFree, ClientAssumption DEF WriterRegister
    <2>2. count' = (count + 1) % CountMod /\ pending' = [pending EXCEPT ![c][i] = m] /\ Completing' = Completing
      BY <1>7 DEF WriterRegister, Completing
    <2>3. Registered' = Registered \cup {<<c, i>>}
      BY <1>0, <2>1, <2>2, OneEntry
    <2>4. <<c, i>> \notin Registered
      BY <2>1 DEF Registered
    <2> QED
      <3> PICK x : x = <<c, i>>
        OBVIOUS
      <3>1. /\ IsFiniteSet(P \cup {x})
            /\ (n + 1) % CountMod = (Cardinality(P \cup {x}) + Cardinality(Q)) % CountMod
        BY <1>12, <2>4, CountUp
      <3> QED
        BY <1>12, <2>2, <2>3, <3>1, CountSets DEF CountInv
  <1>8. ASSUME NEW c \in Conns, NEW id \in Ids, Drain(c, id) PROVE CountInv'
    <2>1. count' = (count - 1) % CountMod /\ pending' = [pending EXCEPT ![c][id] = NoObj] /\ Completing' = Completing
      BY <1>8 DEF Drain, Completing
    <2>2. Registered' = Registered \ {<<c, id>>}
      BY <1>0, <2>1, OneEntry
    <2>3. <<c, id>> \in Registered
      BY <1>8 DEF Registered, Drain
    <2> QED
      <3>2. PICK x : x = <<c, id>>
        OBVIOUS
      <3>1. /\ IsFiniteSet(P \ {x})
            /\ (n - 1) % CountMod = (Cardinality(P \ {x}) + Cardinality(Q)) % CountMod
        <4>1. x \in P
          BY <2>3, <3>2
        <4> QED
          BY <1>12, <4>1, CountDown
      <3> QED
        BY <1>12, <2>1, <2>2, <3>1, <3>2, CountSets DEF CountInv
  <1>9. ASSUME NEW c \in Conns, NEW id \in Ids, ReaderReceive(c, id) PROVE CountInv'
    <2>1. count' = count /\ rd[c].pc = "read"
      BY <1>9 DEF ReaderReceive
    <2>2. CASE pending[c][id] # NoObj
      <3>1. pending' = [pending EXCEPT ![c][id] = NoObj]
        BY <1>9, <2>2 DEF ReaderReceive
      <3>2. Registered' = Registered \ {<<c, id>>} /\ <<c, id>> \in Registered
        BY <1>0, <2>2, <3>1, OneEntry DEF Registered
      <3>3. rd'[c].pc = "complete" /\ \A d \in Conns : d # c => rd'[d] = rd[d]
        BY <1>0, <1>9, <2>2 DEF ReaderReceive, TypeOK
      <3>4. Completing' = Completing \cup {c} /\ c \notin Completing
        BY <2>1, <3>3 DEF Completing
      <3> QED
        <4>2. PICK x : x = <<c, id>>
          OBVIOUS
        <4>1. x \in P /\ c \notin Q
          BY <3>2, <3>4, <4>2
        <4>3. /\ IsFiniteSet(P \ {x}) /\ IsFiniteSet(Q \cup {c})
              /\ Cardinality(P \ {x}) + Cardinality(Q \cup {c}) = Cardinality(P) + Cardinality(Q)
          BY <1>12, <4>1, CountMoves
        <4> QED
          BY <1>12, <2>1, <3>2, <3>4, <4>2, <4>3, CountSets DEF CountInv
    <2>3. CASE pending[c][id] = NoObj
      BY <1>1, <1>9, <2>3 DEF ReaderReceive
    <2> QED
      BY <2>2, <2>3
  <1>10. ASSUME NEW c \in Conns, ReaderComplete(c) PROVE CountInv'
    <2>1. count' = (count - 1) % CountMod /\ Registered' = Registered
      BY <1>10 DEF ReaderComplete, Registered
    <2>2. rd'[c].pc = "read" /\ \A d \in Conns : d # c => rd'[d] = rd[d]
      BY <1>0, <1>10 DEF ReaderComplete, TypeOK, IdleReader
    <2>3. Completing' = Completing \ {c} /\ c \in Completing
      BY <1>10, <2>2 DEF Completing, ReaderComplete
    <2> QED
      <3>1. /\ IsFiniteSet(Q \ {c})
            /\ (n - 1) % CountMod = (Cardinality(P) + Cardinality(Q \ {c})) % CountMod
        <4>1. n = (Cardinality(Q) + Cardinality(P)) % CountMod
          BY <1>12, FS_CardinalityType
        <4>2. c \in Q
          BY <2>3
        <4> QED
          BY <1>12, <4>1, <4>2, CountDown
      <3> QED
        BY <1>12, <2>1, <2>3, <3>1, CountSets DEF CountInv
  <1>11. ASSUME NEW c \in Conns PROVE ~WriterClean(c)
    BY DEF WriterClean
  <1> QED
    BY <1>2, <1>3, <1>4, <1>5, <1>6, <1>7, <1>8, <1>9, <1>10, <1>11
    DEF Next, HandlerStep, WriterStep, ReaderStep

\* In the beginning nothing waits for a response.
LEMMA InitCount == Init => CountInv
  <1> SUFFICES ASSUME Init PROVE CountInv
    OBVIOUS
  <1>1. Registered = {} /\ Completing = {}
    BY DEF Init, Registered, Completing, NoPending, IdleReader
  <1>2. 0 % CountMod = 0
    BY ClientAssumption
  <1>3. count = 0
    BY DEF Init
  <1> QED
    BY <1>1, <1>2, <1>3, FS_EmptySet, CountSets DEF CountInv

\* When no call is retried and no pending map overflows, pendingRequestsCount is
\* the number of requests that wait for a response, modulo its width
\* (client.go:196, 261, 323): no interleaving of writers, readers and teardowns
\* counts a request twice or not at all.  Both conditions are needed: the clean-up
\* counts down requests it keeps (line 268), and a retry may overwrite an entry.
THEOREM CountIsExact ==
    RetryNum = 0 => (Spec /\ [](\A c \in Conns : wr[c].pc # "clean") => []CountExact)
  <1> SUFFICES ASSUME RetryNum = 0
               PROVE  Spec /\ [](\A c \in Conns : wr[c].pc # "clean") => []CountExact
    OBVIOUS
  <1>1. IInv /\ EInv /\ [Next]_vars => EInv'
    BY ApartStep
  <1>2. IInv /\ EInv /\ CountInv /\ (\A c \in Conns : wr[c].pc # "clean") /\ [Next]_vars => CountInv'
    BY CountStep
  <1>3. CountInv => CountExact
    BY DEF CountInv
  <1> QED
    BY <1>1, <1>2, <1>3, InitApart, InitCount, Invariance, PTL DEF Spec
=============================================================================
