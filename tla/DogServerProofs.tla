--------------------------- MODULE DogServerProofs ---------------------------
(***************************************************************************)
(* The inductive invariant of DogServer and the theorems it gives, for any *)
(* number of connections, requests and starts and any channel capacities.  *)
(***************************************************************************)
EXTENDS DogServer, FiniteSetTheorems, FunctionTheorems, SequenceTheorems, TLAPS

\* The connections that a Stop waits for.
Open == {c \in Conns : conn[c] \in {"up", "closing"}}

\* The requests of the connections of the n-th start that have a goroutine.
LiveOf(n) == {r \in Reqs : req[r] \notin {"none", "done"} /\ era[owner[r]] = n}

\* stopWg counts the accepting goroutine and the connections that are not joined.
StopInv ==
    /\ stopWg = InHand(handler # "off") + Cardinality(Open)
    /\ stopChan = "nil" => handler = "off"
    /\ handler # "off" => starts > 0

\* What the goroutines of a connection hold, and when they run.
ConnInv ==
    \A c \in Conns :
        /\ conn[c] \in {"new", "lost"} => rd[c].pc = "off" /\ wr[c].pc = "off"
        /\ conn[c] \notin {"new", "lost"} => era[c] > 0 /\ rd[c].pc # "off" /\ wr[c].pc # "off"
        /\ rd[c].r # None <=> rd[c].pc \in {"acquire", "blocked"}
        /\ wr[c].r # None <=> wr[c].pc = "encode"
        /\ rd[c].r # None => req[rd[c].r] = "none"

\* A request that has a goroutine was read from a connection that was accepted.
OwnerInv ==
    \A r \in Reqs :
        /\ owner[r] = None => req[r] = "none"
        /\ owner[r] # None => conn[owner[r]] \notin {"new", "lost"}

\* How many holders of connection c have request r or its response: like Places,
\* with a serverRequest counted for the connection it belongs to.
Held(c, r) ==
    InHand(rd[c].r = r) + InHand(owner[r] = c /\ req[r] \in {"handle", "reply", "blocked"})
      + Count(responses[c], r) + InHand(wr[c].r = r) + Count(buf[c], r) + Count(wire[c], r)

\* Only the owner's goroutines have a request, in one place at most, and in exactly
\* one place while the connection works.
HeldInv ==
    \A c \in Conns, r \in Reqs :
        /\ Held(c, r) <= 1
        /\ owner[r] # c => Held(c, r) = 0
        /\ owner[r] = c /\ conn[c] = "up" /\ wr[c].pc # "done" => Held(c, r) = 1

SInv == TypeOK /\ StopInv /\ ConnInv /\ OwnerInv /\ WorkersExact /\ HeldInv

-----------------------------------------------------------------------------
(* Counting.                                                               *)

\* How often a request is in a channel or buffer is a number.
LEMMA CountNat ==
    ASSUME NEW s \in Seq(Reqs), NEW r
    PROVE  IsFiniteSet({i \in 1..Len(s) : s[i] = r}) /\ Count(s, r) \in Nat
  <1>1. IsFiniteSet(1..Len(s))
    BY FS_Interval
  <1>2. {i \in 1..Len(s) : s[i] = r} \in SUBSET (1..Len(s))
    OBVIOUS
  <1>3. QED
    BY <1>1, <1>2, FS_Subset, FS_CardinalityType DEF Count

\* Nothing is in an empty channel.
LEMMA CountEmpty == ASSUME NEW r PROVE Count(<<>>, r) = 0
  <1>1. {i \in 1..Len(<<>>) : <<>>[i] = r} = {}
    OBVIOUS
  <1>2. QED
    BY <1>1, FS_EmptySet DEF Count

\* Shifting a set of positions keeps its size.
LEMMA ShiftKeepsSize ==
    ASSUME NEW A \in SUBSET Nat, NEW B \in SUBSET Nat, NEW k \in Nat, IsFiniteSet(A),
           \A i \in A : i + k \in B,
           \A j \in B : j - k \in A
    PROVE  IsFiniteSet(B) /\ Cardinality(B) = Cardinality(A)
  <1> DEFINE f == [i \in A |-> i + k]
  <1>1. f \in [A -> B]
    OBVIOUS
  <1>2. \A a, b \in A : f[a] = f[b] => a = b
    OBVIOUS
  <1>3. \A j \in B : \E i \in A : f[i] = j
    OBVIOUS
  <1> HIDE DEF f
  <1>4. f \in Bijection(A, B)
    BY <1>1, <1>2, <1>3, Fun_IsBij
  <1>5. ExistsBijection(A, B)
    BY <1>4 DEF ExistsBijection
  <1>6. QED
    BY <1>5, FS_Bijection

\* Counts add up over a concatenation, which is how a buffer goes to the wire.
LEMMA CountConcat ==
    ASSUME NEW s \in Seq(Reqs), NEW t \in Seq(Reqs), NEW r
    PROVE  Count(s \o t, r) = Count(s, r) + Count(t, r)
  <1> DEFINE A == {i \in 1..Len(s) : s[i] = r}
             B == {i \in 1..Len(t) : t[i] = r}
             C == {i \in 1..Len(s \o t) : (s \o t)[i] = r}
             D == {i \in C : i > Len(s)}
  <1>1. /\ Len(s) \in Nat /\ Len(t) \in Nat /\ Len(s \o t) = Len(s) + Len(t)
        /\ \A i \in 1..Len(s) : (s \o t)[i] = s[i]
        /\ \A i \in 1..Len(t) : (s \o t)[i + Len(s)] = t[i]
    OBVIOUS
  <1>2. IsFiniteSet(A) /\ IsFiniteSet(B)
    BY CountNat
  <1>3. IsFiniteSet(D) /\ Cardinality(D) = Cardinality(B)
    <2>1. \A i \in B : i + Len(s) \in D
      BY <1>1
    <2>2. ASSUME NEW j \in D PROVE j - Len(s) \in B
      <3>1. j - Len(s) \in 1..Len(t) /\ (j - Len(s)) + Len(s) = j
        BY <1>1
      <3>2. (s \o t)[(j - Len(s)) + Len(s)] = t[j - Len(s)]
        BY <3>1, <1>1
      <3>3. QED
        BY <3>1, <3>2
    <2>3. B \in SUBSET Nat /\ D \in SUBSET Nat
      BY <1>1
    <2> HIDE DEF B, D
    <2>4. QED
      BY <2>1, <2>2, <2>3, <1>1, <1>2, ShiftKeepsSize
  <1>4. C = A \cup D /\ A \cap D = {}
    BY <1>1
  <1> HIDE DEF A, B, C, D
  <1>5. Cardinality(C) = Cardinality(A) + Cardinality(D)
    <2>1. Cardinality(A \cup D) = Cardinality(A) + Cardinality(D) - Cardinality(A \cap D)
      BY <1>2, <1>3, FS_Union
    <2>2. Cardinality(A \cap D) = 0
      BY <1>4, FS_EmptySet
    <2>3. Cardinality(A) \in Nat /\ Cardinality(D) \in Nat
      BY <1>2, <1>3, FS_CardinalityType
    <2>4. QED
      BY <1>4, <2>1, <2>2, <2>3
  <1>6. QED
    BY <1>3, <1>5 DEF A, B, C, Count

\* The count of a single request.
LEMMA CountOne == ASSUME NEW x, NEW r PROVE Count(<<x>>, r) = InHand(x = r)
  <1>1. CASE x = r
    <2>1. {i \in 1..Len(<<x>>) : <<x>>[i] = r} = {1}
      BY <1>1
    <2>2. QED
      BY <1>1, <2>1, FS_Singleton DEF Count, InHand
  <1>2. CASE x # r
    <2>1. {i \in 1..Len(<<x>>) : <<x>>[i] = r} = {}
      BY <1>2
    <2>2. QED
      BY <1>2, <2>1, FS_EmptySet DEF Count, InHand
  <1>3. QED
    BY <1>1, <1>2

\* A send adds one to the count of the request that is sent.
LEMMA CountAppend ==
    ASSUME NEW s \in Seq(Reqs), NEW x \in Reqs, NEW r
    PROVE  Count(Append(s, x), r) = Count(s, r) + InHand(x = r)
  <1>1. Append(s, x) = s \o <<x>>
    OBVIOUS
  <1>2. <<x>> \in Seq(Reqs)
    OBVIOUS
  <1>3. Count(s \o <<x>>, r) = Count(s, r) + Count(<<x>>, r)
    BY <1>2, CountConcat
  <1>4. QED
    BY <1>1, <1>3, CountOne

\* A receive takes one from the count of the request that is received.
LEMMA CountTail ==
    ASSUME NEW s \in Seq(Reqs), s # <<>>, NEW r
    PROVE  Count(s, r) = InHand(Head(s) = r) + Count(Tail(s), r)
  <1>1. Head(s) \in Reqs /\ Tail(s) \in Seq(Reqs) /\ <<Head(s)>> \in Seq(Reqs)
    OBVIOUS
  <1>2. s = <<Head(s)>> \o Tail(s)
    BY <1>1
  <1>3. Count(<<Head(s)>> \o Tail(s), r) = Count(<<Head(s)>>, r) + Count(Tail(s), r)
    BY <1>1, CountConcat
  <1>4. Count(<<Head(s)>>, r) = InHand(Head(s) = r)
    BY CountOne
  <1>5. QED
    BY <1>2, <1>3, <1>4

\* There are finitely many open connections and live requests.
LEMMA SetsFinite ==
    /\ IsFiniteSet(Open) /\ Cardinality(Open) \in Nat /\ Cardinality(Open) <= Cardinality(Conns)
    /\ IsFiniteSet(Open') /\ Cardinality(Open') \in Nat /\ Cardinality(Open') <= Cardinality(Conns)
    /\ Cardinality(Conns) \in Nat
    /\ \A n : IsFiniteSet(LiveOf(n)) /\ Cardinality(LiveOf(n)) \in Nat
  <1>1. Open \in SUBSET Conns /\ Open' \in SUBSET Conns /\ \A n : LiveOf(n) \in SUBSET Reqs
    BY DEF Open, LiveOf
  <1>2. QED
    BY <1>1, ServerAssumption, FS_Subset, FS_CardinalityType

\* How many holders a request has is a number ...
LEMMA HeldNat ==
    ASSUME TypeOK, NEW c \in Conns, NEW r \in Reqs
    PROVE  /\ Held(c, r) \in Nat
           /\ Count(responses[c], r) \in Nat /\ Count(buf[c], r) \in Nat /\ Count(wire[c], r) \in Nat
  <1>1. Count(responses[c], r) \in Nat /\ Count(buf[c], r) \in Nat /\ Count(wire[c], r) \in Nat
    BY CountNat DEF TypeOK
  <1>2. QED
    BY <1>1 DEF Held, InHand

-----------------------------------------------------------------------------
(* The steps that leave the server and its connections as they are.        *)

InnerStep ==
    \/ \E c \in Conns : ReaderStep(c) \/ WriterStep(c)
    \/ \E r \in Reqs : RequestStep(r)

\* The goroutines of a connection leave the server's own state alone.
LEMMA InnerKeeps == InnerStep => UNCHANGED <<serverVars, stopWg, connVars>>
  BY DEF InnerStep, ReaderStep, WriterStep, RequestStep, Read, ReadFails, Acquire, AcquireBlocks,
         ReaderStops, WriterPoll, WriterTake, WriterEncode, WriterFlush, WriterFails, WriterStops,
         Handled, Reply, ReplyBlocks, ReplyStops, Release

\* The wait group, by the steps that start and end goroutines.
LEMMA StopStep ==
    ASSUME SInv, [Next]_vars
    PROVE  StopInv'
  <1> USE DEF SInv
  <1>0. /\ IsFiniteSet(Open) /\ Cardinality(Open) \in Nat /\ stopWg \in Nat /\ starts \in Nat
        /\ MaxStarts \in Nat
    BY SetsFinite, ServerAssumption DEF TypeOK
  <1>1. ASSUME UNCHANGED conn, Start \/ Stop \/ Stopped \/ AcceptFails \/ AcceptAgain
                                 \/ HandlerStopsInBackoff
        PROVE  StopInv'
    <2>1. Open' = Open
      BY <1>1 DEF Open
    <2>2. QED
      BY <2>1, <1>0, <1>1 DEF Start, Stop, Stopped, AcceptFails, AcceptAgain,
                              HandlerStopsInBackoff, StopInv, InHand, TypeOK
  <1>2. ASSUME NEW c \in Conns, Accept(c) PROVE StopInv'
    <2>1. c \notin Open /\ Open' = Open \cup {c}
      BY <1>2 DEF Accept, Open, TypeOK
    <2>2. Cardinality(Open') = Cardinality(Open) + 1
      BY <2>1, <1>0, FS_AddElement
    <2>3. QED
      BY <1>0, <1>2, <2>2 DEF Accept, StopInv, serverVars, InHand
  <1>3. ASSUME HandlerStops PROVE StopInv'
    <2>1. Open' = Open
      BY <1>3 DEF HandlerStops, Open, TypeOK
    <2>2. QED
      BY <2>1, <1>0, <1>3 DEF HandlerStops, StopInv, InHand
  <1>4. ASSUME NEW c \in Conns, Teardown(c) PROVE StopInv'
    <2>1. Open' = Open
      BY <1>4 DEF Teardown, Open, TypeOK
    <2>2. QED
      BY <2>1, <1>0, <1>4 DEF Teardown, StopInv, serverVars
  <1>5. ASSUME NEW c \in Conns, Joined(c) PROVE StopInv'
    <2>1. c \in Open /\ Open' = Open \ {c}
      BY <1>5 DEF Joined, Open, TypeOK
    <2>2. Cardinality(Open') = Cardinality(Open) - 1
      BY <2>1, <1>0, FS_RemoveElement
    <2>3. QED
      BY <1>0, <1>5, <2>2 DEF Joined, StopInv, serverVars, InHand
  <1>6. ASSUME InnerStep \/ UNCHANGED vars PROVE StopInv'
    <2>1. UNCHANGED <<serverVars, stopWg, connVars>>
      BY <1>6, InnerKeeps DEF vars
    <2>2. Open' = Open
      BY <2>1 DEF Open, connVars
    <2>3. QED
      BY <2>1, <2>2 DEF StopInv, serverVars
  <1>7. Start \/ Stop \/ Stopped \/ AcceptFails \/ AcceptAgain \/ HandlerStopsInBackoff
           => UNCHANGED conn
    BY DEF Start, Stop, Stopped, AcceptFails, AcceptAgain, HandlerStopsInBackoff, connVars
  <1>8. QED
    BY <1>1, <1>2, <1>3, <1>4, <1>5, <1>6, <1>7 DEF Next, HandlerStep, InnerStep

\* Types: the counters by StopInv and the guards, the rest by the assignments.
LEMMA TypeStep ==
    ASSUME SInv, [Next]_vars
    PROVE  TypeOK'
  <1> USE DEF SInv
  <1>0. stopWg' \in 0..(1 + Cardinality(Conns))
    BY StopStep, SetsFinite DEF StopInv, InHand
  <1>a. /\ rd \in [Conns -> Readers] /\ wr \in [Conns -> Writers] /\ era \in [Conns -> 0..MaxStarts]
        /\ conn \in [Conns -> {"new", "up", "closing", "gone", "lost"}]
    BY DEF TypeOK
  <1>b. /\ owner \in [Reqs -> Conns \cup {None}] /\ req \in [Reqs -> RequestStates]
        /\ workers \in [1..MaxStarts -> 0..Concurrency]
    BY DEF TypeOK
  <1>c. /\ responses \in [Conns -> Seq(Reqs)] /\ buf \in [Conns -> Seq(Reqs)]
        /\ wire \in [Conns -> Seq(Reqs)]
    BY DEF TypeOK
  <1>d. /\ stopChan \in {"nil", "open", "closed"} /\ starts \in 0..MaxStarts
        /\ stopping \in BOOLEAN /\ bound \in BOOLEAN
        /\ handler \in {"off", "accept", "backoff"}
    BY DEF TypeOK
  <1>e. MaxStarts \in Nat /\ Concurrency \in Nat
    BY ServerAssumption
  <1>1. ASSUME Start \/ Stop \/ Stopped \/ HandlerStep PROVE TypeOK'
    <2>1. CASE \E c \in Conns : Accept(c)
      <3>1. IdleReader \in Readers /\ IdleWriter \in Writers
        BY DEF IdleReader, IdleWriter, Readers, Writers
      <3>2. PICK c \in Conns : Accept(c)
        BY <2>1
      <3>3. rd' \in [Conns -> Readers] /\ wr' \in [Conns -> Writers]
        BY <1>a, <3>1, <3>2 DEF Accept
      <3>4. /\ conn' \in [Conns -> {"new", "up", "closing", "gone", "lost"}]
            /\ era' \in [Conns -> 0..MaxStarts]
        BY <1>a, <1>d, <3>2 DEF Accept
      <3>5. UNCHANGED <<serverVars, requestVars, responses, outVars>>
        BY <3>2 DEF Accept
      <3>6. QED
        BY <1>0, <3>3, <3>4, <3>5 DEF TypeOK, serverVars, requestVars, outVars
    <2>2. CASE HandlerStops
      BY <1>0, <2>2 DEF HandlerStops, TypeOK, requestVars, outVars
    <2>3. CASE Start \/ Stop \/ Stopped \/ AcceptFails \/ AcceptAgain \/ HandlerStopsInBackoff
      <3>1. starts' \in 0..MaxStarts
        BY <2>3, <1>d, <1>e DEF Start, Stop, Stopped, AcceptFails, AcceptAgain, HandlerStopsInBackoff
      <3>2. /\ stopChan' \in {"nil", "open", "closed"} /\ stopping' \in BOOLEAN
            /\ bound' \in BOOLEAN /\ handler' \in {"off", "accept", "backoff"}
        BY <2>3, <1>d, Zenon
           DEF Start, Stop, Stopped, AcceptFails, AcceptAgain, HandlerStopsInBackoff
      <3>3. UNCHANGED <<connVars, rd, wr, requestVars, responses, outVars>>
        BY <2>3 DEF Start, Stop, Stopped, AcceptFails, AcceptAgain, HandlerStopsInBackoff
      <3>4. QED
        BY <1>0, <3>1, <3>2, <3>3 DEF TypeOK, connVars, requestVars, outVars
    <2>4. QED
      BY <1>1, <2>1, <2>2, <2>3 DEF HandlerStep
  <1>2. ASSUME NEW c \in Conns, Teardown(c) \/ Joined(c) PROVE TypeOK'
    BY <1>0, <1>2 DEF Teardown, Joined, TypeOK, serverVars, requestVars, outVars
  <1>3. ASSUME NEW c \in Conns, ReaderStep(c) PROVE TypeOK'
    <2>1. UNCHANGED <<serverVars, connVars, wr, responses, outVars>>
      BY <1>3 DEF ReaderStep, Read, ReadFails, Acquire, AcquireBlocks, ReaderStops
    <2>2. rd' \in [Conns -> Readers]
      <3>1. PICK v \in Readers : rd' = [rd EXCEPT ![c] = v]
        BY <1>3, <1>a DEF ReaderStep, Read, ReadFails, Acquire, AcquireBlocks, ReaderStops,
                          IdleReader, Readers
      <3>2. QED
        BY <3>1, <1>a
    <2>3. owner' \in [Reqs -> Conns \cup {None}]
      BY <1>3, <1>b DEF ReaderStep, Read, ReadFails, Acquire, AcquireBlocks, ReaderStops, requestVars
    <2>4. req' \in [Reqs -> RequestStates] /\ workers' \in [1..MaxStarts -> 0..Concurrency]
      <3>1. CASE Acquire(c)
        <4>1. /\ workers' = [workers EXCEPT ![era[c]] = @ + 1] /\ workers[era[c]] < Concurrency
              /\ rd[c].pc # "off" /\ req' = [req EXCEPT ![rd[c].r] = "handle"]
          BY <3>1 DEF Acquire
        <4>2. era[c] \in 1..MaxStarts
          BY <4>1, <1>a, <1>e DEF ConnInv
        <4>3. workers[era[c]] + 1 \in 0..Concurrency
          BY <4>1, <4>2, <1>b, <1>e
        <4>4. workers' \in [1..MaxStarts -> 0..Concurrency]
          BY <4>1, <4>2, <4>3, <1>b
        <4>5. req' \in [Reqs -> RequestStates]
          BY <4>1, <1>b DEF RequestStates
        <4>6. QED
          BY <4>4, <4>5
      <3>2. CASE ~Acquire(c)
        BY <1>3, <1>b, <3>2 DEF ReaderStep, Read, ReadFails, AcquireBlocks, ReaderStops, requestVars
      <3>3. QED
        BY <3>1, <3>2
    <2>5. QED
      BY <1>0, <2>1, <2>2, <2>3, <2>4 DEF TypeOK, serverVars, connVars, outVars
  <1>4. ASSUME NEW c \in Conns, WriterStep(c) PROVE TypeOK'
    <2>1. UNCHANGED <<serverVars, connVars, rd, requestVars>>
      BY <1>4 DEF WriterStep, WriterPoll, WriterTake, WriterEncode, WriterFlush, WriterFails,
                  WriterStops
    <2>2. wr' \in [Conns -> Writers] /\ responses' \in [Conns -> Seq(Reqs)]
      <3>1. CASE WriterTake(c)
        <4>1. Head(responses[c]) \in Reqs /\ Tail(responses[c]) \in Seq(Reqs)
          BY <3>1, <1>c DEF WriterTake
        <4>2. [pc |-> "encode", r |-> Head(responses[c]), flush |-> TRUE] \in Writers
          BY <4>1 DEF Writers
        <4>3. wr' \in [Conns -> Writers]
          BY <4>2, <3>1, <1>a DEF WriterTake
        <4>4. responses' \in [Conns -> Seq(Reqs)]
          BY <4>1, <3>1, <1>c DEF WriterTake
        <4>5. QED
          BY <4>3, <4>4
      <3>2. CASE WriterFails(c) \/ WriterStops(c)
        <4>1. [IdleWriter EXCEPT !.pc = "done"] \in Writers
          BY DEF IdleWriter, Writers
        <4>2. wr' = [wr EXCEPT ![c] = [IdleWriter EXCEPT !.pc = "done"]] /\ responses' = responses
          BY <3>2 DEF WriterFails, WriterStops, WriterEnds
        <4>3. QED
          BY <4>1, <4>2, <1>a, <1>c
      <3>3. CASE WriterPoll(c) \/ WriterEncode(c) \/ WriterFlush(c)
        <4>1. /\ [wr[c] EXCEPT !.pc = "block"] \in Writers
              /\ [wr[c] EXCEPT !.pc = "select", !.r = None] \in Writers
              /\ [wr[c] EXCEPT !.pc = "select", !.flush = FALSE] \in Writers
          BY <1>a DEF Writers
        <4>2. /\ \/ wr' = [wr EXCEPT ![c] = [wr[c] EXCEPT !.pc = "block"]]
                 \/ wr' = [wr EXCEPT ![c] = [wr[c] EXCEPT !.pc = "select", !.r = None]]
                 \/ wr' = [wr EXCEPT ![c] = [wr[c] EXCEPT !.pc = "select", !.flush = FALSE]]
              /\ responses' = responses
          BY <3>3, <1>a DEF WriterPoll, WriterEncode, WriterFlush, Writers
        <4>3. QED
          BY <4>1, <4>2, <1>a, <1>c
      <3>4. QED
        BY <1>4, <3>1, <3>2, <3>3 DEF WriterStep
    <2>3. buf' \in [Conns -> Seq(Reqs)] /\ wire' \in [Conns -> Seq(Reqs)]
      <3>1. CASE WriterEncode(c)
        <4>1. wr[c].r \in Reqs
          BY <3>1, <1>a DEF WriterEncode, ConnInv, Writers
        <4>a. Append(buf[c], wr[c].r) \in Seq(Reqs)
          BY <4>1, <1>c
        <4>2. PICK b \in Seq(Reqs) : b = Append(buf[c], wr[c].r)
          BY <4>a
        <4>3. wire[c] \o b \in Seq(Reqs) /\ <<>> \in Seq(Reqs)
          BY <4>2, <1>c
        <4>4. \/ buf' = [buf EXCEPT ![c] = b] /\ wire' = wire
              \/ buf' = [buf EXCEPT ![c] = <<>>] /\ wire' = [wire EXCEPT ![c] = wire[c] \o b]
          BY <4>2, <3>1 DEF WriterEncode
        <4>5. QED
          BY <4>3, <4>4, <1>c
      <3>2. CASE WriterFlush(c)
        BY <3>2, <1>c DEF WriterFlush
      <3>3. CASE UNCHANGED outVars
        BY <3>3, <1>c DEF outVars
      <3>4. QED
        BY <1>4, <3>1, <3>2, <3>3 DEF WriterStep, WriterPoll, WriterTake, WriterFails, WriterStops
    <2>4. QED
      BY <1>0, <2>1, <2>2, <2>3 DEF TypeOK, serverVars, connVars, requestVars
  <1>5. ASSUME NEW r \in Reqs, RequestStep(r) PROVE TypeOK'
    <2>1. UNCHANGED <<serverVars, connVars, rd, wr, owner, outVars>>
      BY <1>5 DEF RequestStep, Handled, Reply, ReplyBlocks, ReplyStops, Release
    <2>2. req' \in [Reqs -> RequestStates]
      BY <1>5, <1>b DEF RequestStep, Handled, Reply, ReplyBlocks, ReplyStops, Release, RequestStates
    <2>3. responses' \in [Conns -> Seq(Reqs)]
      <3>1. CASE Reply(r)
        <4>1. \A c \in Conns : Append(responses[c], r) \in Seq(Reqs)
          BY <1>c
        <4>2. QED
          BY <4>1, <3>1, <1>c DEF Reply
      <3>2. CASE ~Reply(r)
        BY <1>5, <3>2, <1>c DEF RequestStep, Handled, ReplyBlocks, ReplyStops, Release
      <3>3. QED
        BY <3>1, <3>2
    <2>4. workers' \in [1..MaxStarts -> 0..Concurrency]
      <3>1. CASE Release(r)
        <4>1. PICK n : n = era[owner[r]]
          OBVIOUS
        <4>2. workers' = [workers EXCEPT ![n] = workers[n] - 1] /\ workers[n] > 0
          BY <4>1, <3>1 DEF Release
        <4>3. n \in 1..MaxStarts => workers[n] - 1 \in 0..Concurrency
          BY <4>2, <1>b, <1>e
        <4>4. QED
          BY <4>2, <4>3, <1>b
      <3>2. CASE ~Release(r)
        BY <1>5, <3>2, <1>b DEF RequestStep, Handled, Reply, ReplyBlocks, ReplyStops
      <3>3. QED
        BY <3>1, <3>2
    <2>5. QED
      BY <1>0, <2>1, <2>2, <2>3, <2>4 DEF TypeOK, serverVars, connVars, outVars
  <1>6. CASE UNCHANGED vars
    BY <1>6 DEF vars, TypeOK, serverVars, connVars, requestVars, outVars
  <1>7. QED
    BY <1>1, <1>2, <1>3, <1>4, <1>5, <1>6 DEF Next

\* The request in a reader's hands came from that reader's connection.
LEMMA ReaderOwns ==
    ASSUME SInv, NEW c \in Conns, rd[c].r # None
    PROVE  rd[c].r \in Reqs /\ owner[rd[c].r] = c /\ req[rd[c].r] = "none"
  <1> USE DEF SInv
  <1>1. PICK r \in Reqs : r = rd[c].r
    BY DEF TypeOK, Readers
  <1>2. Held(c, r) > 0
    BY <1>1, HeldNat DEF Held, InHand
  <1>3. owner[r] = c
    BY <1>2 DEF HeldInv
  <1>4. QED
    BY <1>1, <1>3 DEF ConnInv

\* Every step keeps what the goroutines of a connection hold, and when they run.
LEMMA ConnStep ==
    ASSUME SInv, [Next]_vars
    PROVE  ConnInv'
  <1> USE DEF SInv
  <1>a. /\ rd \in [Conns -> Readers] /\ wr \in [Conns -> Writers]
        /\ conn \in [Conns -> {"new", "up", "closing", "gone", "lost"}]
        /\ era \in [Conns -> 0..MaxStarts] /\ starts \in 0..MaxStarts /\ MaxStarts \in Nat
        /\ req \in [Reqs -> RequestStates] /\ None \notin Reqs
    BY ServerAssumption DEF TypeOK
  <1>b. ConnInv
    OBVIOUS
  <1>1. CASE Start \/ Stop \/ Stopped \/ AcceptFails \/ AcceptAgain \/ HandlerStopsInBackoff
             \/ UNCHANGED vars
    <2>1. UNCHANGED <<conn, era, rd, wr, req>>
      BY <1>1 DEF Start, Stop, Stopped, AcceptFails, AcceptAgain, HandlerStopsInBackoff, connVars,
                  requestVars, vars
    <2>2. QED
      BY <2>1 DEF ConnInv
  <1>2. ASSUME NEW c \in Conns, Accept(c) PROVE ConnInv'
    <2>1. starts > 0
      BY <1>2 DEF Accept, StopInv
    <2>2. QED
      BY <1>2, <1>a, <2>1 DEF Accept, ConnInv, IdleReader, IdleWriter, requestVars
  <1>3. CASE HandlerStops
    BY <1>3, <1>a DEF HandlerStops, ConnInv, requestVars
  <1>4. ASSUME NEW c \in Conns, Teardown(c) \/ Joined(c) PROVE ConnInv'
    BY <1>4, <1>a DEF Teardown, Joined, ConnInv, requestVars
  <1>5. ASSUME NEW c \in Conns, ReaderStep(c) PROVE ConnInv'
    <2>1. CASE \E r \in Reqs : Read(c, r)
      BY <2>1, <1>a DEF Read, ConnInv, OwnerInv, connVars
    <2>2. CASE ReadFails(c) \/ AcquireBlocks(c) \/ ReaderStops(c)
      BY <2>2, <1>a DEF ReadFails, AcquireBlocks, ReaderStops, ConnInv, connVars, requestVars, Readers
    <2>3. CASE Acquire(c)
      <3>1. rd[c].r # None
        BY <2>3 DEF Acquire, ConnInv
      <3>2. PICK r \in Reqs : r = rd[c].r /\ owner[r] = c
        BY <3>1, ReaderOwns
      <3>3. \A d \in Conns : d # c => rd[d].r # r
        BY <3>2, ReaderOwns, <1>a
      <3>4. /\ rd' = [rd EXCEPT ![c] = IdleReader] /\ req' = [req EXCEPT ![r] = "handle"]
            /\ UNCHANGED <<conn, era, wr>> /\ rd[c].pc # "off"
        BY <2>3, <3>2 DEF Acquire, connVars
      <3>5. QED
        BY <3>3, <3>4, <1>a DEF ConnInv, IdleReader
    <2>4. QED
      BY <1>5, <2>1, <2>2, <2>3 DEF ReaderStep
  <1>6. ASSUME NEW c \in Conns, WriterStep(c) PROVE ConnInv'
    <2>1. UNCHANGED <<conn, era, rd, req>>
      BY <1>6 DEF WriterStep, WriterPoll, WriterTake, WriterEncode, WriterFlush, WriterFails,
                  WriterStops, connVars, requestVars
    <2>2. CASE WriterTake(c)
      <3>1. Head(responses[c]) \in Reqs
        BY <2>2 DEF WriterTake, TypeOK
      <3>2. QED
        BY <2>1, <2>2, <3>1, <1>a DEF WriterTake, ConnInv
    <2>3. CASE ~WriterTake(c)
      <3>1. \A d \in Conns : d # c => wr'[d] = wr[d]
        BY <1>6, <2>3, <1>a DEF WriterStep, WriterPoll, WriterEncode, WriterFlush, WriterFails,
                                WriterStops, WriterEnds
      <3>2. wr'[c].r = None /\ wr'[c].pc \in {"select", "block", "done"} /\ wr[c].pc # "off"
        <4>0. wr[c] \in Writers /\ (wr[c].r # None <=> wr[c].pc = "encode")
          BY <1>a DEF ConnInv
        <4>1. CASE WriterPoll(c)
          BY <4>0, <4>1, <1>a DEF WriterPoll, Writers
        <4>2. CASE WriterEncode(c)
          BY <4>0, <4>2, <1>a DEF WriterEncode, Writers
        <4>3. CASE WriterFlush(c)
          BY <4>0, <4>3, <1>a DEF WriterFlush, Writers
        <4>4. CASE WriterFails(c) \/ WriterStops(c)
          BY <4>4, <1>a DEF WriterFails, WriterStops, WriterEnds, IdleWriter
        <4>5. QED
          BY <1>6, <2>3, <4>1, <4>2, <4>3, <4>4 DEF WriterStep
      <3>3. QED
        BY <3>1, <3>2, <2>1 DEF ConnInv
    <2>4. QED
      BY <2>2, <2>3
  <1>7. ASSUME NEW r \in Reqs, RequestStep(r) PROVE ConnInv'
    <2>1. /\ UNCHANGED <<conn, era, rd, wr>> /\ req[r] # "none"
          /\ \A q \in Reqs : q # r => req'[q] = req[q]
      BY <1>7, <1>a DEF RequestStep, Handled, Reply, ReplyBlocks, ReplyStops, Release, connVars
    <2>2. \A c \in Conns : rd[c].r \in Reqs \cup {None}
      BY <1>a DEF Readers
    <2>3. QED
      BY <2>1, <2>2 DEF ConnInv
  <1>8. QED
    BY <1>1, <1>2, <1>3, <1>4, <1>5, <1>6, <1>7 DEF Next, HandlerStep

\* Every step keeps the owners of the requests.
LEMMA OwnerStep ==
    ASSUME SInv, [Next]_vars
    PROVE  OwnerInv'
  <1> USE DEF SInv
  <1>a. /\ conn \in [Conns -> {"new", "up", "closing", "gone", "lost"}]
        /\ owner \in [Reqs -> Conns \cup {None}] /\ req \in [Reqs -> RequestStates]
        /\ None \notin Conns
    BY ServerAssumption DEF TypeOK
  <1>1. CASE UNCHANGED <<owner, req>>
    <2>1. \A c \in Conns : conn'[c] = conn[c] \/ conn[c] = "new" \/ conn'[c] \in {"closing", "gone"}
      BY <1>a DEF Next, HandlerStep, InnerStep, Start, Stop, Stopped, AcceptFails, AcceptAgain,
            HandlerStops, HandlerStopsInBackoff, Accept, Teardown, Joined, connVars, ReaderStep,
            WriterStep, RequestStep, Read, ReadFails, Acquire, AcquireBlocks, ReaderStops, WriterPoll,
            WriterTake, WriterEncode, WriterFlush, WriterFails, WriterStops, Handled, Reply,
            ReplyBlocks, ReplyStops, Release, vars
    <2>2. QED
      BY <2>1, <1>1, <1>a DEF OwnerInv
  <1>2. ASSUME NEW c \in Conns, NEW r \in Reqs, Read(c, r) PROVE OwnerInv'
    <2>1. conn[c] \notin {"new", "lost"}
      BY <1>2 DEF Read, ConnInv
    <2>2. QED
      BY <2>1, <1>2, <1>a DEF Read, OwnerInv, connVars
  <1>3. ASSUME NEW c \in Conns, Acquire(c) PROVE OwnerInv'
    <2>1. rd[c].r # None
      BY <1>3 DEF Acquire, ConnInv
    <2>2. PICK r \in Reqs : r = rd[c].r /\ owner[r] = c
      BY <2>1, ReaderOwns
    <2>3. QED
      BY <2>2, <1>3, <1>a DEF Acquire, OwnerInv, connVars
  <1>4. ASSUME NEW r \in Reqs, RequestStep(r) PROVE OwnerInv'
    <2>1. /\ UNCHANGED <<conn, owner>> /\ req[r] # "none"
          /\ \A q \in Reqs : q # r => req'[q] = req[q]
      BY <1>4, <1>a DEF RequestStep, Handled, Reply, ReplyBlocks, ReplyStops, Release, connVars
    <2>2. QED
      BY <2>1 DEF OwnerInv
  <1>5. \/ UNCHANGED <<owner, req>> \/ \E r \in Reqs : RequestStep(r)
        \/ \E c \in Conns : Acquire(c) \/ \E r \in Reqs : Read(c, r)
    BY DEF Next, HandlerStep, Start, Stop, Stopped, AcceptFails, AcceptAgain,
            HandlerStops, HandlerStopsInBackoff, Accept, Teardown, Joined, requestVars, ReaderStep,
            WriterStep, ReadFails, AcquireBlocks, ReaderStops, WriterPoll,
            WriterTake, WriterEncode, WriterFlush, WriterFails, WriterStops, vars
  <1>6. QED
    BY <1>1, <1>2, <1>3, <1>4, <1>5

\* One token per live serverRequest.
LEMMA WorkersStep ==
    ASSUME SInv, [Next]_vars
    PROVE  WorkersExact'
  <1> USE DEF SInv
  <1>a. /\ owner \in [Reqs -> Conns \cup {None}] /\ req \in [Reqs -> RequestStates]
        /\ None \notin Conns /\ MaxStarts \in Nat /\ era \in [Conns -> 0..MaxStarts]
        /\ workers \in [1..MaxStarts -> 0..Concurrency] /\ Concurrency \in Nat
    BY ServerAssumption DEF TypeOK
  <1>b. \A n \in 1..MaxStarts : workers[n] = Cardinality(LiveOf(n))
    BY DEF WorkersExact, LiveOf
  <1>c. SUFFICES ASSUME NEW n \in 1..MaxStarts PROVE workers'[n] = Cardinality(LiveOf(n)')
    BY DEF WorkersExact, LiveOf
  <1>d. IsFiniteSet(LiveOf(n)) /\ Cardinality(LiveOf(n)) \in Nat
    BY SetsFinite
  <1>1. ASSUME NEW c \in Conns, Acquire(c) PROVE workers'[n] = Cardinality(LiveOf(n)')
    <2>1. rd[c].r # None /\ era[c] \in 1..MaxStarts
      BY <1>1, <1>a DEF Acquire, ConnInv
    <2>2. PICK r \in Reqs : r = rd[c].r /\ owner[r] = c /\ req[r] = "none"
      BY <2>1, ReaderOwns
    <2>3. /\ workers' = [workers EXCEPT ![era[c]] = @ + 1] /\ req' = [req EXCEPT ![r] = "handle"]
          /\ UNCHANGED <<owner, era>>
      BY <1>1, <2>2 DEF Acquire, connVars
    <2>4. CASE n = era[c]
      <3>1. r \notin LiveOf(n) /\ LiveOf(n)' = LiveOf(n) \cup {r}
        BY <2>2, <2>3, <2>4, <1>a DEF LiveOf
      <3>2. Cardinality(LiveOf(n)') = Cardinality(LiveOf(n)) + 1
        BY <3>1, <1>d, FS_AddElement
      <3>3. workers'[n] = workers[n] + 1
        BY <2>3, <2>4, <1>a
      <3>4. QED
        BY <3>2, <3>3, <1>b
    <2>5. CASE n # era[c]
      <3>1. LiveOf(n)' = LiveOf(n)
        BY <2>2, <2>3, <2>5, <1>a DEF LiveOf
      <3>2. workers'[n] = workers[n]
        BY <2>3, <2>5, <1>a
      <3>3. QED
        BY <3>1, <3>2, <1>b
    <2>6. QED
      BY <2>4, <2>5
  <1>2. ASSUME NEW r \in Reqs, Release(r) PROVE workers'[n] = Cardinality(LiveOf(n)')
    <2>1. PICK m : m = era[owner[r]]
      OBVIOUS
    <2>2. /\ workers' = [workers EXCEPT ![m] = @ - 1] /\ req' = [req EXCEPT ![r] = "done"]
          /\ UNCHANGED <<owner, era>> /\ req[r] = "release"
      BY <1>2, <2>1 DEF Release, connVars
    <2>3. CASE n = m
      <3>1. r \in LiveOf(n) /\ LiveOf(n)' = LiveOf(n) \ {r}
        BY <2>1, <2>2, <2>3, <1>a DEF LiveOf
      <3>2. Cardinality(LiveOf(n)') = Cardinality(LiveOf(n)) - 1
        BY <3>1, <1>d, FS_RemoveElement
      <3>3. workers'[n] = workers[n] - 1
        BY <2>2, <2>3, <1>a
      <3>4. QED
        BY <3>2, <3>3, <1>b
    <2>4. CASE n # m
      <3>1. LiveOf(n)' = LiveOf(n)
        BY <2>1, <2>2, <2>4, <1>a DEF LiveOf
      <3>2. workers'[n] = workers[n]
        BY <2>2, <2>4, <1>a
      <3>3. QED
        BY <3>1, <3>2, <1>b
    <2>5. QED
      BY <2>3, <2>4
  <1>3. ASSUME NEW c \in Conns, NEW r \in Reqs, Read(c, r)
        PROVE  workers'[n] = Cardinality(LiveOf(n)')
    <2>1. LiveOf(n)' = LiveOf(n)
      BY <1>3, <1>a DEF Read, LiveOf, OwnerInv, connVars
    <2>2. QED
      BY <2>1, <1>3, <1>b DEF Read
  <1>4. ASSUME NEW c \in Conns, Accept(c) PROVE workers'[n] = Cardinality(LiveOf(n)')
    <2>1. \A r \in Reqs : owner[r] # c /\ (req[r] # "none" => owner[r] \in Conns)
      BY <1>4, <1>a DEF Accept, OwnerInv
    <2>2. LiveOf(n)' = LiveOf(n)
      BY <1>4, <2>1, <1>a DEF Accept, LiveOf, requestVars
    <2>3. QED
      BY <2>2, <1>4, <1>b DEF Accept, requestVars
  <1>5. ASSUME NEW r \in Reqs, Handled(r) \/ Reply(r) \/ ReplyBlocks(r) \/ ReplyStops(r)
        PROVE  workers'[n] = Cardinality(LiveOf(n)')
    <2>1. /\ req[r] \notin {"none", "done"} /\ req'[r] \notin {"none", "done"}
          /\ \A q \in Reqs : q # r => req'[q] = req[q]
          /\ UNCHANGED <<owner, era, workers>>
      BY <1>5, <1>a DEF Handled, Reply, ReplyBlocks, ReplyStops, connVars
    <2>2. LiveOf(n)' = LiveOf(n)
      BY <2>1, Zenon DEF LiveOf
    <2>3. QED
      BY <2>1, <2>2, <1>b
  <1>6. CASE UNCHANGED <<owner, req, era, workers>>
    BY <1>6, <1>b DEF LiveOf
  <1>7. \/ UNCHANGED <<owner, req, era, workers>>
        \/ \E r \in Reqs : Release(r) \/ Handled(r) \/ Reply(r) \/ ReplyBlocks(r) \/ ReplyStops(r)
        \/ \E c \in Conns : Accept(c) \/ Acquire(c) \/ \E r \in Reqs : Read(c, r)
    BY DEF Next, HandlerStep, Start, Stop, Stopped, AcceptFails, AcceptAgain, connVars,
            HandlerStops, HandlerStopsInBackoff, Teardown, Joined, requestVars, ReaderStep,
            WriterStep, RequestStep, ReadFails, AcquireBlocks, ReaderStops, WriterPoll,
            WriterTake, WriterEncode, WriterFlush, WriterFails, WriterStops, vars
  <1>8. QED
    BY <1>1, <1>2, <1>3, <1>4, <1>5, <1>6, <1>7

-----------------------------------------------------------------------------
(* Where each request is.                                                  *)

\* ... after a step as well.
LEMMA HeldNatNext ==
    ASSUME TypeOK', NEW c \in Conns, NEW r \in Reqs
    PROVE  Held(c, r)' \in Nat
  <1>1. /\ Count(responses'[c], r) \in Nat /\ Count(buf'[c], r) \in Nat
        /\ Count(wire'[c], r) \in Nat
    BY CountNat DEF TypeOK
  <1>2. QED
    BY <1>1 DEF Held, InHand, Count

\* A connection keeps what it holds when neither its goroutines nor the
\* goroutine of the request hand anything over.
LEMMA HeldSame ==
    ASSUME NEW c, NEW r, rd'[c].r = rd[c].r, wr'[c].r = wr[c].r,
           responses'[c] = responses[c], buf'[c] = buf[c], wire'[c] = wire[c],
           \/ owner'[r] # c /\ owner[r] # c
           \/ owner'[r] = owner[r] /\ (req'[r] \in {"handle", "reply", "blocked"}
                                         <=> req[r] \in {"handle", "reply", "blocked"})
    PROVE  Held(c, r)' = Held(c, r)
  <1>1. InHand(owner[r] = c /\ req[r] \in {"handle", "reply", "blocked"})'
          = InHand(owner[r] = c /\ req[r] \in {"handle", "reply", "blocked"})
    BY DEF InHand
  <1>2. QED
    BY <1>1 DEF Held, InHand, Count

\* A step that drops requests of broken connections only, and moves the others.
LEMMA HeldKept ==
    ASSUME SInv, TypeOK', UNCHANGED owner,
           \A c \in Conns, r \in Reqs : Held(c, r)' <= Held(c, r),
           \A c \in Conns : conn'[c] = "up" /\ wr'[c].pc # "done" =>
              \/ \A r \in Reqs : owner[r] # c
              \/ /\ conn[c] = "up" /\ wr[c].pc # "done"
                 /\ \A r \in Reqs : Held(c, r)' = Held(c, r)
    PROVE  HeldInv'
  <1> USE DEF SInv
  <1>1. SUFFICES ASSUME NEW c \in Conns, NEW r \in Reqs
                 PROVE  /\ Held(c, r)' <= 1
                        /\ owner[r] # c => Held(c, r)' = 0
                        /\ owner[r] = c /\ conn'[c] = "up" /\ wr'[c].pc # "done" => Held(c, r)' = 1
    BY DEF HeldInv
  <1>2. Held(c, r) \in Nat /\ Held(c, r)' \in Nat /\ Held(c, r)' <= Held(c, r)
    BY HeldNat, HeldNatNext
  <1>3. /\ Held(c, r) <= 1 /\ (owner[r] # c => Held(c, r) = 0)
        /\ owner[r] = c /\ conn[c] = "up" /\ wr[c].pc # "done" => Held(c, r) = 1
    BY DEF HeldInv
  <1>4. QED
    BY <1>2, <1>3

\* Start, Stop and the handling of connections move no request.
LEMMA HeldServerStep ==
    ASSUME SInv, TypeOK',
           \/ Start \/ Stop \/ Stopped \/ HandlerStep \/ UNCHANGED vars
           \/ \E c \in Conns : Teardown(c) \/ Joined(c)
    PROVE  HeldInv'
  <1> USE DEF SInv
  <1>1. UNCHANGED <<owner, req, responses, buf, wire>>
    BY DEF HandlerStep, Start, Stop, Stopped, AcceptFails, AcceptAgain, HandlerStops,
           HandlerStopsInBackoff, Accept, Teardown, Joined, requestVars, outVars, vars
  <1>2. rd \in [Conns -> Readers] /\ wr \in [Conns -> Writers]
        /\ conn \in [Conns -> {"new", "up", "closing", "gone", "lost"}]
    BY DEF TypeOK
  <1>3. CASE \E c \in Conns : Accept(c)
    <2>1. PICK c \in Conns : Accept(c)
      BY <1>3
    <2>2. \A d \in Conns : rd'[d].r = rd[d].r /\ wr'[d].r = wr[d].r
      BY <2>1, <1>2 DEF Accept, IdleReader, IdleWriter, ConnInv
    <2>3. \A d \in Conns, r \in Reqs : Held(d, r)' = Held(d, r)
      BY <2>2, <1>1, HeldSame
    <2>4. (\A r \in Reqs : owner[r] # c)
          /\ \A d \in Conns : d # c => conn'[d] = conn[d] /\ wr'[d] = wr[d]
      BY <2>1, <1>2, ServerAssumption DEF Accept, OwnerInv
    <2>5. QED
      BY <2>3, <2>4, <1>1, HeldNat, HeldKept
  <1>4. CASE ~\E c \in Conns : Accept(c)
    <2>1. UNCHANGED <<rd, wr>>
      BY <1>4 DEF HandlerStep, Start, Stop, Stopped, AcceptFails, AcceptAgain, HandlerStops,
                  HandlerStopsInBackoff, Teardown, Joined, vars
    <2>2. \A d \in Conns, r \in Reqs : Held(d, r)' = Held(d, r)
      BY <2>1, <1>1, HeldSame
    <2>3. \A d \in Conns : conn'[d] = "up" => conn[d] = "up"
      BY <1>4, <1>2 DEF HandlerStep, Start, Stop, Stopped, AcceptFails, AcceptAgain, HandlerStops,
                  HandlerStopsInBackoff, Teardown, Joined, vars, connVars
    <2>4. QED
      BY <2>1, <2>2, <2>3, <1>1, HeldNat, HeldKept
  <1>5. QED
    BY <1>3, <1>4

\* The reader takes a request from the wire and hands it to one goroutine.
LEMMA HeldReaderStep ==
    ASSUME SInv, TypeOK', NEW c \in Conns, ReaderStep(c)
    PROVE  HeldInv'
  <1> USE DEF SInv
  <1>1. UNCHANGED <<conn, wr, responses, buf, wire>>
    BY DEF ReaderStep, Read, ReadFails, Acquire, AcquireBlocks, ReaderStops, connVars, outVars
  <1>2. /\ rd \in [Conns -> Readers] /\ owner \in [Reqs -> Conns \cup {None}]
        /\ req \in [Reqs -> RequestStates] /\ None \notin Conns /\ None \notin Reqs
    BY ServerAssumption DEF TypeOK
  <1>3. \A d \in Conns : d # c => rd'[d] = rd[d]
    BY <1>2 DEF ReaderStep, Read, ReadFails, Acquire, AcquireBlocks, ReaderStops
  <1>4. ASSUME NEW r \in Reqs, Read(c, r) PROVE HeldInv'
    <2>1. /\ rd[c].r = None /\ rd'[c].r = r /\ owner[r] = None /\ owner'[r] = c
          /\ req[r] = "none" /\ req' = req /\ \A q \in Reqs : q # r => owner'[q] = owner[q]
      BY <1>4, <1>2 DEF Read, ConnInv, OwnerInv
    <2>2. \A d \in Conns, q \in Reqs : d # c => Held(d, q)' = Held(d, q)
      <3>1. SUFFICES ASSUME NEW d \in Conns, NEW q \in Reqs, d # c
                     PROVE  Held(d, q)' = Held(d, q)
        OBVIOUS
      <3>2. rd'[d].r = rd[d].r
        BY <1>3, <3>1
      <3>3. (owner'[q] # d /\ owner[q] # d) \/ (owner'[q] = owner[q] /\ req'[q] = req[q])
        BY <2>1, <3>1, <1>2
      <3>4. QED
        BY <3>2, <3>3, <1>1, HeldSame
    <2>3. \A q \in Reqs : q # r => Held(c, q)' = Held(c, q)
      BY <1>1, <1>2, <2>1 DEF Held, InHand, Count
    <2>4. Held(c, r) = 0
      BY <2>1, <1>2 DEF HeldInv
    <2>5. Held(c, r)' = 1
      <3>1. /\ Count(responses[c], r) \in Nat /\ Count(buf[c], r) \in Nat /\ Count(wire[c], r) \in Nat
        BY HeldNat
      <3>2. Count(responses[c], r) = 0 /\ Count(buf[c], r) = 0 /\ Count(wire[c], r) = 0 /\ wr[c].r # r
        <4>1. Count(responses[c], r) + InHand(wr[c].r = r) + Count(buf[c], r) + Count(wire[c], r) = 0
          BY <2>1, <2>4, <3>1, <1>2 DEF Held, InHand
        <4>2. QED
          BY <4>1, <3>1 DEF InHand
      <3>3. /\ Count(responses[c], r)' = 0 /\ Count(buf[c], r)' = 0 /\ Count(wire[c], r)' = 0
            /\ wr'[c].r # r
        BY <3>2, <1>1 DEF Count
      <3>4. QED
        BY <3>3, <2>1 DEF Held, InHand
    <2>6. QED
      BY <2>1, <2>2, <2>3, <2>5, <1>1, <1>2 DEF HeldInv
  <1>5. CASE ReadFails(c) \/ AcquireBlocks(c)
    <2>1. rd'[c].r = rd[c].r /\ UNCHANGED <<owner, req>>
      BY <1>5, <1>2 DEF ReadFails, AcquireBlocks, Readers, requestVars
    <2>2. \A d \in Conns, r \in Reqs : Held(d, r)' = Held(d, r)
      BY <2>1, <1>1, <1>3, HeldSame
    <2>3. QED
      BY <2>1, <2>2, <1>1, HeldNat, HeldKept
  <1>6. CASE ReaderStops(c)
    <2>1. /\ rd'[c].r = None /\ conn[c] = "closing" /\ UNCHANGED <<owner, req>>
      BY <1>6, <1>2 DEF ReaderStops, requestVars
    <2>2. \A d \in Conns, r \in Reqs : d # c => Held(d, r)' = Held(d, r)
      BY <2>1, <1>1, <1>3, HeldSame
    <2>3. ASSUME NEW r \in Reqs PROVE Held(c, r)' <= Held(c, r)
      <3>1. /\ Count(responses[c], r) \in Nat /\ Count(buf[c], r) \in Nat /\ Count(wire[c], r) \in Nat
        BY HeldNat
      <3>2. /\ Count(responses[c], r)' = Count(responses[c], r) /\ Count(buf[c], r)' = Count(buf[c], r)
            /\ Count(wire[c], r)' = Count(wire[c], r)
        BY <1>1 DEF Count
      <3>3. QED
        BY <3>1, <3>2, <2>1, <1>1, <1>2 DEF Held, InHand
    <2>4. QED
      BY <2>1, <2>2, <2>3, <1>1, HeldNat, HeldKept
  <1>7. CASE Acquire(c)
    <2>1. rd[c].r # None
      BY <1>7 DEF Acquire, ConnInv
    <2>2. PICK r \in Reqs : r = rd[c].r /\ owner[r] = c /\ req[r] = "none"
      BY <2>1, ReaderOwns
    <2>3. /\ rd'[c].r = None /\ req'[r] = "handle" /\ \A q \in Reqs : q # r => req'[q] = req[q]
          /\ UNCHANGED owner
      BY <1>7, <2>2, <1>2 DEF Acquire, IdleReader
    <2>4. \A d \in Conns, q \in Reqs : d # c => Held(d, q)' = Held(d, q)
      <3>1. SUFFICES ASSUME NEW d \in Conns, NEW q \in Reqs, d # c
                     PROVE  Held(d, q)' = Held(d, q)
        OBVIOUS
      <3>2. rd'[d].r = rd[d].r
        BY <1>3, <3>1
      <3>3. (owner'[q] # d /\ owner[q] # d) \/ (owner'[q] = owner[q] /\ req'[q] = req[q])
        <4>1. CASE q = r
          BY <4>1, <2>2, <2>3, <3>1
        <4>2. CASE q # r
          BY <4>2, <2>3
        <4>3. QED
          BY <4>1, <4>2
      <3>4. QED
        BY <3>2, <3>3, <1>1, HeldSame
    <2>5. ASSUME NEW q \in Reqs PROVE Held(c, q)' = Held(c, q)
      <3>1. /\ Count(responses[c], q)' = Count(responses[c], q) /\ Count(buf[c], q)' = Count(buf[c], q)
            /\ Count(wire[c], q)' = Count(wire[c], q)
        BY <1>1 DEF Count
      <3>2. /\ Count(responses[c], q) \in Nat /\ Count(buf[c], q) \in Nat /\ Count(wire[c], q) \in Nat
        BY HeldNat
      <3>3. QED
        BY <3>1, <3>2, <2>2, <2>3, <1>1, <1>2 DEF Held, InHand
    <2>6. QED
      BY <2>3, <2>4, <2>5, <1>1, HeldNat, HeldKept
  <1>8. QED
    BY <1>4, <1>5, <1>6, <1>7 DEF ReaderStep

\* The goroutine of a request puts its response into the channel, or drops it on a connection that ends.
LEMMA HeldRequestStep ==
    ASSUME SInv, TypeOK', NEW r \in Reqs, RequestStep(r)
    PROVE  HeldInv'
  <1> USE DEF SInv
  <1>1. UNCHANGED <<conn, rd, wr, owner, buf, wire>>
    BY DEF RequestStep, Handled, Reply, ReplyBlocks, ReplyStops, Release, connVars, outVars
  <1>2. /\ owner \in [Reqs -> Conns \cup {None}] /\ req \in [Reqs -> RequestStates]
        /\ responses \in [Conns -> Seq(Reqs)] /\ None \notin Conns /\ None \notin Reqs
    BY ServerAssumption DEF TypeOK
  <1>3. \A q \in Reqs : q # r => req'[q] = req[q]
    BY <1>2 DEF RequestStep, Handled, Reply, ReplyBlocks, ReplyStops, Release
  <1>4. req[r] # "none" /\ owner[r] \in Conns
    BY <1>2 DEF RequestStep, Handled, Reply, ReplyBlocks, ReplyStops, Release, OwnerInv
  <1>5. CASE Handled(r) \/ ReplyBlocks(r) \/ Release(r)
    <2>1. /\ req'[r] \in {"handle", "reply", "blocked"} <=> req[r] \in {"handle", "reply", "blocked"}
          /\ responses' = responses
      BY <1>5, <1>2 DEF Handled, ReplyBlocks, Release
    <2>2. \A d \in Conns, q \in Reqs : Held(d, q)' = Held(d, q)
      BY <2>1, <1>1, <1>3, HeldSame
    <2>3. QED
      BY <2>2, <1>1, HeldNat, HeldKept
  <1>6. PICK c \in Conns : c = owner[r]
    BY <1>4
  <1>7. ASSUME Reply(r) \/ ReplyStops(r)
        PROVE  \A d \in Conns, q \in Reqs : d # c \/ q # r => Held(d, q)' = Held(d, q)
    <2>1. SUFFICES ASSUME NEW d \in Conns, NEW q \in Reqs, d # c \/ q # r
                   PROVE  Held(d, q)' = Held(d, q)
      OBVIOUS
    <2>2. CASE d # c
      <3>1. responses'[d] = responses[d]
        BY <1>7, <1>6, <2>2, <1>2 DEF Reply, ReplyStops
      <3>2. (owner'[q] # d /\ owner[q] # d) \/ (owner'[q] = owner[q] /\ req'[q] = req[q])
        BY <1>1, <1>3, <1>6, <2>2
      <3>3. QED
        BY <3>1, <3>2, <1>1, HeldSame
    <2>3. CASE d = c /\ q # r
      <3>1. Count(responses[d], q)' = Count(responses[d], q)
        <4>1. CASE Reply(r)
          <5>1. responses'[d] = Append(responses[d], r)
            BY <4>1, <1>6, <2>3, <1>2 DEF Reply
          <5>2. Count(Append(responses[d], r), q) = Count(responses[d], q) + 0
            BY <2>3, <1>2, CountAppend DEF InHand
          <5>3. Count(responses[d], q) \in Nat
            BY HeldNat
          <5>4. Count(responses'[d], q) = Count(responses[d], q)
            BY <5>1, <5>2, <5>3
          <5>5. QED
            BY <5>4 DEF Count
        <4>2. CASE ReplyStops(r)
          BY <4>2 DEF ReplyStops, Count
        <4>3. QED
          BY <4>1, <4>2, <1>7
      <3>2. Count(buf[d], q)' = Count(buf[d], q) /\ Count(wire[d], q)' = Count(wire[d], q)
        BY <1>1 DEF Count
      <3>3. req'[q] = req[q]
        BY <1>3, <2>3
      <3>4. QED
        BY <3>1, <3>2, <3>3, <1>1 DEF Held, InHand
    <2>4. QED
      BY <2>1, <2>2, <2>3
  <1>8. CASE Reply(r)
    <2>1. /\ req[r] \in {"handle", "reply", "blocked"} /\ req'[r] = "release"
          /\ responses'[c] = Append(responses[c], r)
      BY <1>8, <1>6, <1>2 DEF Reply
    <2>2. Count(responses[c], r)' = Count(responses[c], r) + 1
      <3>1. Count(Append(responses[c], r), r) = Count(responses[c], r) + 1
        BY <1>2, CountAppend DEF InHand
      <3>2. QED
        BY <3>1, <2>1 DEF Count
    <2>3. Count(buf[c], r)' = Count(buf[c], r) /\ Count(wire[c], r)' = Count(wire[c], r)
      BY <1>1 DEF Count
    <2>4. /\ Count(responses[c], r) \in Nat /\ Count(buf[c], r) \in Nat /\ Count(wire[c], r) \in Nat
      BY HeldNat
    <2>5. Held(c, r)' = Held(c, r)
      BY <2>1, <2>2, <2>3, <2>4, <1>1, <1>6 DEF Held, InHand
    <2>6. \A d \in Conns, q \in Reqs : Held(d, q)' = Held(d, q)
      BY <2>5, <1>7, <1>8
    <2>7. QED
      BY <2>6, <1>1, HeldNat, HeldKept
  <1>9. CASE ReplyStops(r)
    <2>1. /\ req'[r] = "release" /\ responses' = responses /\ conn[c] \in {"closing", "gone"}
      BY <1>9, <1>6, <1>2 DEF ReplyStops
    <2>2. /\ Count(responses[c], r)' = Count(responses[c], r) /\ Count(buf[c], r)' = Count(buf[c], r)
          /\ Count(wire[c], r)' = Count(wire[c], r)
      BY <2>1, <1>1 DEF Count
    <2>3. /\ Count(responses[c], r) \in Nat /\ Count(buf[c], r) \in Nat /\ Count(wire[c], r) \in Nat
      BY HeldNat
    <2>4. Held(c, r)' <= Held(c, r)
      BY <2>1, <2>2, <2>3, <1>1 DEF Held, InHand
    <2>5. \A d \in Conns, q \in Reqs : Held(d, q)' <= Held(d, q)
      BY <2>4, <1>7, <1>9, HeldNat
    <2>6. \A d \in Conns : conn'[d] = "up" /\ wr'[d].pc # "done" => 
             conn[d] = "up" /\ wr[d].pc # "done" /\ \A q \in Reqs : Held(d, q)' = Held(d, q)
      BY <2>1, <1>1, <1>7, <1>9
    <2>7. QED
      BY <2>5, <2>6, <1>1, HeldKept
  <1>10. QED
    BY <1>5, <1>8, <1>9 DEF RequestStep

\* The writer moves a response from the channel to the buffer and to the wire.
LEMMA HeldWriterStep ==
    ASSUME SInv, TypeOK', NEW c \in Conns, WriterStep(c)
    PROVE  HeldInv'
  <1> USE DEF SInv
  <1>1. UNCHANGED <<conn, rd, owner, req>>
    BY DEF WriterStep, WriterPoll, WriterTake, WriterEncode, WriterFlush, WriterFails, WriterStops,
           connVars, requestVars
  <1>2. /\ wr \in [Conns -> Writers] /\ responses \in [Conns -> Seq(Reqs)]
        /\ buf \in [Conns -> Seq(Reqs)] /\ wire \in [Conns -> Seq(Reqs)] /\ None \notin Reqs
    BY ServerAssumption DEF TypeOK
  <1>3. \A d \in Conns : d # c => /\ wr'[d] = wr[d] /\ responses'[d] = responses[d]
                                  /\ buf'[d] = buf[d] /\ wire'[d] = wire[d]
    <2>1. \A d \in Conns : d # c => wr'[d] = wr[d]
      BY <1>2 DEF WriterStep, WriterPoll, WriterTake, WriterEncode, WriterFlush, WriterFails,
                  WriterStops, WriterEnds
    <2>2. \A d \in Conns : d # c => responses'[d] = responses[d]
      BY <1>2 DEF WriterStep, WriterPoll, WriterTake, WriterEncode, WriterFlush, WriterFails,
                  WriterStops
    <2>3. \A d \in Conns : d # c => buf'[d] = buf[d] /\ wire'[d] = wire[d]
      BY <1>2 DEF WriterStep, WriterPoll, WriterTake, WriterEncode, WriterFlush, WriterFails,
                  WriterStops, outVars
    <2>4. QED
      BY <2>1, <2>2, <2>3
  <1>4. \A d \in Conns, q \in Reqs : d # c => Held(d, q)' = Held(d, q)
    <2>1. SUFFICES ASSUME NEW d \in Conns, NEW q \in Reqs, d # c PROVE Held(d, q)' = Held(d, q)
      OBVIOUS
    <2>2. /\ wr'[d].r = wr[d].r /\ responses'[d] = responses[d] /\ buf'[d] = buf[d]
          /\ wire'[d] = wire[d]
      BY <2>1, <1>3
    <2>3. QED
      BY <2>2, <1>1, HeldSame
  <1>5. SUFFICES ASSUME NEW q \in Reqs
                 PROVE  /\ Held(c, q)' <= Held(c, q)
                        /\ wr'[c].pc # "done" => wr[c].pc # "done" /\ Held(c, q)' = Held(c, q)
    <2>1. \A d \in Conns, q \in Reqs : Held(d, q)' <= Held(d, q)
      BY <1>4, <1>5, HeldNat
    <2>2. Reqs = {} \/ \E q \in Reqs : TRUE
      OBVIOUS
    <2>3. \A d \in Conns : conn'[d] = "up" /\ wr'[d].pc # "done" =>
              \/ \A r \in Reqs : owner[r] # d
              \/ /\ conn[d] = "up" /\ wr[d].pc # "done"
                 /\ \A r \in Reqs : Held(d, r)' = Held(d, r)
      BY <1>1, <1>3, <1>4, <1>5, <2>2
    <2>4. QED
      BY <2>1, <2>3, <1>1, HeldKept
  <1>6. /\ Count(responses[c], q) \in Nat /\ Count(buf[c], q) \in Nat /\ Count(wire[c], q) \in Nat
        /\ Held(c, q) \in Nat
    BY HeldNat
  <1> DEFINE Rest == InHand(rd[c].r = q)
                       + InHand(owner[q] = c /\ req[q] \in {"handle", "reply", "blocked"})
  <1>7. /\ Rest \in Nat /\ Rest' = Rest
        /\ Held(c, q) = Rest + Count(responses[c], q) + InHand(wr[c].r = q) + Count(buf[c], q)
                          + Count(wire[c], q)
        /\ Held(c, q)' = Rest + Count(responses'[c], q) + InHand(wr'[c].r = q) + Count(buf'[c], q)
                          + Count(wire'[c], q)
    BY <1>1 DEF Held, InHand, Count
  <1> HIDE DEF Rest
  <1>8. CASE WriterPoll(c)
    <2>1. /\ wr'[c].r = wr[c].r /\ wr[c].pc # "done" /\ responses' = responses /\ buf' = buf
          /\ wire' = wire
      BY <1>8, <1>2 DEF WriterPoll, Writers, outVars
    <2>2. QED
      BY <2>1, <1>6, <1>7
  <1>9. CASE WriterTake(c)
    <2>1. /\ wr[c].r = None /\ wr[c].pc # "done" /\ wr'[c].r = Head(responses[c])
          /\ responses[c] # <<>> /\ responses'[c] = Tail(responses[c]) /\ buf' = buf /\ wire' = wire
      BY <1>9, <1>2 DEF WriterTake, ConnInv, outVars
    <2>2. Count(responses[c], q) = InHand(Head(responses[c]) = q) + Count(Tail(responses[c]), q)
      BY <2>1, <1>2, CountTail
    <2>3. Count(Tail(responses[c]), q) \in Nat
      <3>1. Tail(responses[c]) \in Seq(Reqs)
        BY <2>1, <1>2
      <3>2. QED
        BY <3>1, CountNat
    <2>4. QED
      BY <2>1, <2>2, <2>3, <1>2, <1>6, <1>7 DEF InHand
  <1>10. CASE WriterEncode(c)
    <2>1. /\ wr[c].r \in Reqs /\ wr[c].pc # "done" /\ wr'[c].r = None /\ responses' = responses
      BY <1>10, <1>2 DEF WriterEncode, ConnInv, Writers
    <2>2. Append(buf[c], wr[c].r) \in Seq(Reqs)
      BY <2>1, <1>2
    <2>3. PICK b \in Seq(Reqs) : b = Append(buf[c], wr[c].r)
      BY <2>2
    <2>4. Count(b, q) = Count(buf[c], q) + InHand(wr[c].r = q)
      BY <2>1, <2>3, <1>2, CountAppend
    <2>5. \/ buf'[c] = b /\ wire'[c] = wire[c]
          \/ buf'[c] = <<>> /\ wire'[c] = wire[c] \o b
      BY <1>10, <2>3, <1>2 DEF WriterEncode
    <2>6. Count(<<>>, q) = 0 /\ Count(wire[c] \o b, q) = Count(wire[c], q) + Count(b, q)
      BY <1>2, CountEmpty, CountConcat
    <2>7. InHand(wr'[c].r = q) = 0 /\ InHand(wr[c].r = q) \in Nat
      BY <2>1, <1>2 DEF InHand
    <2>8. /\ Count(responses'[c], q) = Count(responses[c], q)
          /\ \/ /\ Count(buf'[c], q) = Count(buf[c], q) + InHand(wr[c].r = q)
                /\ Count(wire'[c], q) = Count(wire[c], q)
             \/ /\ Count(buf'[c], q) = 0
                /\ Count(wire'[c], q) = Count(wire[c], q) + (Count(buf[c], q) + InHand(wr[c].r = q))
      BY <2>1, <2>4, <2>5, <2>6
    <2>9. Held(c, q)' = Held(c, q)
      BY <2>7, <2>8, <1>6, <1>7
    <2>10. QED
      BY <2>1, <2>9, <1>6
  <1>11. CASE WriterFlush(c)
    <2>1. /\ wr[c].pc # "done" /\ wr'[c].r = wr[c].r /\ responses' = responses
          /\ buf'[c] = <<>> /\ wire'[c] = wire[c] \o buf[c]
      BY <1>11, <1>2 DEF WriterFlush, Writers
    <2>2. Count(<<>>, q) = 0 /\ Count(wire[c] \o buf[c], q) = Count(wire[c], q) + Count(buf[c], q)
      BY <1>2, CountEmpty, CountConcat
    <2>3. InHand(wr[c].r = q) \in Nat
      BY DEF InHand
    <2>4. QED
      BY <2>1, <2>2, <2>3, <1>6, <1>7
  <1>12. CASE WriterFails(c) \/ WriterStops(c)
    <2>1. /\ wr'[c].pc = "done" /\ wr'[c].r = None /\ responses' = responses /\ buf' = buf
          /\ wire' = wire
      BY <1>12, <1>2 DEF WriterFails, WriterStops, WriterEnds, IdleWriter, outVars
    <2>2. QED
      BY <2>1, <1>2, <1>6, <1>7 DEF InHand
  <1>13. QED
    BY <1>8, <1>9, <1>10, <1>11, <1>12 DEF WriterStep

-----------------------------------------------------------------------------
(* The theorems.                                                           *)

\* Nothing runs and nothing is held before the first Start.
LEMMA SInvInit == Init => SInv
  <1> SUFFICES ASSUME Init PROVE SInv
    OBVIOUS
  <1>1. TypeOK
    <2>1. [IdleReader EXCEPT !.pc = "off"] \in Readers /\ [IdleWriter EXCEPT !.pc = "off"] \in Writers
      BY DEF Readers, Writers, IdleReader, IdleWriter
    <2>2. rd \in [Conns -> Readers] /\ wr \in [Conns -> Writers]
      BY <2>1 DEF Init
    <2>3. stopWg \in 0..(1 + Cardinality(Conns)) /\ starts \in 0..MaxStarts
      BY SetsFinite, ServerAssumption DEF Init
    <2>4. era \in [Conns -> 0..MaxStarts] /\ workers \in [1..MaxStarts -> 0..Concurrency]
      BY ServerAssumption DEF Init
    <2>5. /\ responses \in [Conns -> Seq(Reqs)] /\ buf \in [Conns -> Seq(Reqs)]
          /\ wire \in [Conns -> Seq(Reqs)]
      BY DEF Init
    <2>6. req \in [Reqs -> RequestStates] /\ owner \in [Reqs -> Conns \cup {None}]
      BY DEF Init, RequestStates
    <2>7. QED
      BY <2>2, <2>3, <2>4, <2>5, <2>6 DEF Init, TypeOK
  <1>2. Open = {} /\ \A n : LiveOf(n) = {}
    BY DEF Init, Open, LiveOf
  <1>3. StopInv
    BY <1>2, FS_EmptySet DEF Init, StopInv, InHand
  <1>4. ConnInv /\ OwnerInv
    BY ServerAssumption DEF Init, ConnInv, OwnerInv, IdleReader, IdleWriter
  <1>5. WorkersExact
    <2>1. \A n \in 1..MaxStarts : workers[n] = 0 /\ Cardinality(LiveOf(n)) = 0
      BY <1>2, FS_EmptySet DEF Init
    <2>2. QED
      BY <2>1 DEF WorkersExact, LiveOf
  <1>6. ASSUME NEW c \in Conns, NEW r \in Reqs PROVE Held(c, r) = 0 /\ owner[r] = None
    <2>1. Count(<<>>, r) = 0
      BY CountEmpty
    <2>2. /\ responses[c] = <<>> /\ buf[c] = <<>> /\ wire[c] = <<>> /\ owner[r] = None
          /\ rd[c].r = None /\ wr[c].r = None /\ req[r] = "none"
      BY DEF Init, IdleReader, IdleWriter
    <2>3. QED
      BY <2>1, <2>2, ServerAssumption DEF Held, InHand
  <1>7. HeldInv
    BY <1>6, ServerAssumption DEF HeldInv
  <1>8. QED
    BY <1>1, <1>3, <1>4, <1>5, <1>7 DEF SInv

(* The inductive invariant of the server: the wait group, the worker tokens   *)
(* and the place of every request, whatever order its goroutines take.        *)
THEOREM ServerInvariance == Spec => []SInv
  <1>1. SInv /\ [Next]_vars => SInv'
    <2> SUFFICES ASSUME SInv, [Next]_vars PROVE SInv'
      OBVIOUS
    <2>1. TypeOK'
      BY TypeStep
    <2>2. HeldInv'
      BY <2>1, HeldServerStep, HeldReaderStep, HeldRequestStep, HeldWriterStep DEF Next
    <2>3. QED
      BY <2>1, <2>2, StopStep, ConnStep, OwnerStep, WorkersStep DEF SInv
  <1>2. QED
    BY SInvInit, <1>1, PTL DEF Spec

(* A request is in one place until it is answered, and is answered at most     *)
(* once and on the connection it came from (server.go:187-312).               *)
THEOREM ServerRequestsExact == Spec => []RequestsExact
  <1>1. SInv => RequestsExact
    <2> SUFFICES ASSUME SInv PROVE RequestsExact
      OBVIOUS
    <2> USE DEF SInv
    <2>1. ASSUME NEW c \in Conns, NEW r \in Reqs
          PROVE  /\ owner[r] = c => Held(c, r) = Places(c, r)
                 /\ Count(wire[c], r) + Count(buf[c], r) + Count(responses[c], r) <= Held(c, r)
                 /\ Count(wire[c], r) + Count(buf[c], r) + Count(responses[c], r) \in Nat
                 /\ Held(c, r) \in Nat
      <3>1. /\ Count(responses[c], r) \in Nat /\ Count(buf[c], r) \in Nat /\ Count(wire[c], r) \in Nat
            /\ Held(c, r) \in Nat
        BY HeldNat
      <3>2. owner[r] = c => Held(c, r) = Places(c, r)
        BY DEF Held, Places, InHand
      <3>3. Count(wire[c], r) + Count(buf[c], r) + Count(responses[c], r) <= Held(c, r)
        BY <3>1 DEF Held, InHand
      <3>4. QED
        BY <3>1, <3>2, <3>3
    <2>2. RequestKept
      <3>1. SUFFICES ASSUME NEW r \in Reqs, NEW c \in Conns, owner[r] = c, conn[c] = "up",
                            wr[c].pc # "done"
                     PROVE  Places(c, r) = 1
        BY DEF RequestKept, TypeOK
      <3>2. QED
        BY <3>1, <2>1 DEF HeldInv
    <2>3. ReplyToOwner
      <3>1. SUFFICES ASSUME NEW c \in Conns, NEW r \in Reqs
                     PROVE  /\ Count(wire[c], r) + Count(buf[c], r) + Count(responses[c], r) <= 1
                            /\ Count(wire[c], r) + Count(buf[c], r) + Count(responses[c], r) = 1
                                 => owner[r] = c
        BY DEF ReplyToOwner
      <3>2. Held(c, r) <= 1 /\ (owner[r] # c => Held(c, r) = 0)
        BY DEF HeldInv
      <3>3. QED
        BY <3>2, <2>1
    <2>4. QED
      BY <2>2, <2>3 DEF RequestsExact
  <1>2. QED
    BY <1>1, ServerInvariance, PTL

(* workersCh has one token per live serverRequest of its Start, also of those *)
(* whose connection is gone (server.go:215-246).                              *)
THEOREM ServerWorkersExact == Spec => []WorkersExact
  BY ServerInvariance, PTL DEF SInv

(* When stopWg lets Stop through, the accepting goroutine and every reader    *)
(* and writer have ended (server.go:103-160).                                 *)
THEOREM ServerStopJoins == Spec => []StopJoins
  <1>1. SInv => StopJoins
    <2> SUFFICES ASSUME SInv, stopWg = 0
                 PROVE  /\ handler = "off"
                        /\ \A c \in Conns : conn[c] \in {"new", "gone", "lost"}
      BY DEF StopJoins
    <2>1. InHand(handler # "off") = 0 /\ Cardinality(Open) = 0
      BY SetsFinite DEF SInv, StopInv, InHand
    <2>2. Open = {}
      BY <2>1, SetsFinite, FS_EmptySet
    <2>3. QED
      BY <2>1, <2>2 DEF Open, InHand, SInv, TypeOK
  <1>2. QED
    BY <1>1, ServerInvariance, PTL
=============================================================================
