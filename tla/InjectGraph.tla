----------------------------- MODULE InjectGraph -----------------------------
(* runtime/inject: a graph of objects by name and by type.  register fills   *)
(* the tagged fields of a new object, creating what it does not find, starts *)
(* the object and stores it; Close closes what is stored, newest first.      *)
(*                                                                           *)
(* Graph.l is held throughout both, so calls do not interleave: the recursion *)
(* of register is the stack of its frames, and Close is a walk, one node a    *)
(* step, followed by the deletions.                                          *)
EXTENDS OrderedMap, FiniteSets

CONSTANTS
    Names,        \* names and tags
    NoName,       \* ""
    Structs,      \* pointers to structs
    Plains,       \* other types of values
    Interfaces,   \* interface types, of fields only
    Fields,       \* the tagged fields of each struct
    Impls,        \* implmap: the structs added for a name
    Assignable,   \* pairs <<t, u>> : a t can be assigned, or converted, to a u
    StartAble,    \* types with Start() error
    CloseAble,    \* types with Close()
    MaxCalls      \* bound on calls of Register

Types == Structs \cup Plains \cup Interfaces

Field == [tag : Names \cup {NoName}, type : Types, singleton : BOOLEAN,
          canNil : BOOLEAN, legal : BOOLEAN]

ASSUME GraphAssumption ==
    /\ NoName \notin Names \cup Types
    /\ Names \cap Types = {} /\ Structs \cap (Plains \cup Interfaces) = {}
    /\ Fields \in [Structs -> Seq(Field)]
    /\ Impls \in [Names -> Seq(Structs)]
    /\ Assignable \subseteq Types \X Types
    /\ \A t \in Types : <<t, t>> \in Assignable
    /\ StartAble \subseteq Types /\ CloseAble \subseteq Types
    /\ MaxCalls \in Nat

\* Creating a dependency never needs its user: register would not return.
ASSUME NoCycle ==
    \E rank \in [Structs -> 0 .. Cardinality(Structs)] :
        \A t \in Structs : \A i \in 1 .. Len(Fields[t]) : \A u \in Structs :
            LET f == Fields[t][i]
            IN  (u = f.type \/ (f.tag \in Names /\ \E j \in 1 .. Len(Impls[f.tag]) : Impls[f.tag][j] = u))
                    => rank[u] < rank[t]

VARIABLES
    named,     \* Graph.named: name or type name -> number of an object
    objs,      \* the objects that were stored
    stack,     \* the frames of register, innermost last
    pc,        \* "idle", "register" or "close"
    curr,      \* the next node of the walk of Close
    keys,      \* the keys Close is going to delete
    calls,     \* calls of Register so far
    evicted,   \* history: objects whose last key was given to another one
    late       \* history: objects stored under a name taken since the check

vars == <<named, objs, stack, pc, curr, keys, calls, evicted, late>>
callVars == <<calls, curr, keys>>
graphVars == <<named, objs, evicted, late>>

-----------------------------------------------------------------------------
(* Registration *)

Stored(om) == {Get(om, k) : k \in Keys(om)}
Top == stack[Len(stack)]
Below == SubSeq(stack, 1, Len(stack) - 1)
Replace(f) == stack' = Append(Below, f)

\* value is nil, a zero value or one whose tagged fields are set already.  A nil
\* pointer to a struct becomes a zero value, which is filled even under noFill; a
\* value without fields, or under noFill, is kept as it is.
NewFrame(n, t, s, noFill, value) ==
    [name |-> n, type |-> t, singleton |-> s /\ t \in Structs,
     value |-> IF value = "nil" THEN IF t \in Structs THEN "zero" ELSE "nil"
               ELSE IF noFill \/ t \notin Structs THEN "kept" ELSE value,
     field |-> 0, deps |-> {}]

Frame == [name : Names \cup Types \cup {NoName}, type : Types, singleton : BOOLEAN,
          value : {"nil", "zero", "set", "kept"}, field : Nat,
          deps : SUBSET (1 .. Len(objs))]

Register(n, t, s, noFill, value) ==
    /\ pc = "idle" /\ calls < MaxCalls
    /\ calls' = calls + 1
    /\ pc' = "register"
    /\ stack' = <<NewFrame(n, t, s, noFill, value)>>
    /\ UNCHANGED <<graphVars, curr, keys>>

\* Mutant: what the failed call has created is taken out again, but not closed.
FailRollsBack ==
    /\ stack' = <<>> /\ pc' = "idle"
    /\ named' = [named EXCEPT !.store = [k \in {x \in Keys(named) :
                    \A f \in 1 .. Len(stack) : Get(named, x) \notin stack[f].deps} |-> @[k]]]
    /\ UNCHANGED <<objs, evicted, late, callVars>>

\* An error is handed through all frames; what they have stored stays.
Fail ==
    /\ stack' = <<>> /\ pc' = "idle"
    /\ UNCHANGED <<graphVars, callVars>>

FullName == IF Top.name = NoName /\ Top.type \in Structs THEN Top.type ELSE Top.name

\* The name is free.
Begin ==
    /\ pc = "register" /\ Top.field = 0
    /\ FullName \notin Keys(named) \cup {NoName} /\ Top.value # "nil"
    /\ Replace([Top EXCEPT !.name = FullName, !.field = 1])
    /\ UNCHANGED <<graphVars, callVars, pc>>

\* No name, a name that is taken, or a nil that cannot be created.
BeginFails ==
    /\ pc = "register" /\ Top.field = 0
    /\ \/ FullName \in Keys(named) \cup {NoName}
       \/ Top.value = "nil"
    /\ Fail

FieldsOf(t) == IF t \in Structs THEN Fields[t] ELSE <<>>

\* The fields are looked at, except those of a given value under noFill.
AtField ==
    /\ pc = "register" /\ Top.field \in 1 .. Len(FieldsOf(Top.type))
    /\ Top.value # "kept"
F == FieldsOf(Top.type)[Top.field]
NextField(f) == [f EXCEPT !.field = @ + 1]

\* The key under which a dependency is found: its tag, or its type.
Found ==
    IF F.tag \in Keys(named) THEN {F.tag}
    ELSE {k \in {F.type} \cap Keys(named) :
            F.tag = NoName \/ (F.singleton /\ F.type \in Structs)}

\* The field is set already, or may stay nil.
FieldSkip ==
    /\ AtField
    /\ F.legal
    /\ Top.value = "set" \/ (Found = {} /\ F.canNil)
    /\ Replace(NextField(Top))
    /\ UNCHANGED <<graphVars, callVars, pc>>

\* What a missing dependency is created from: its type, or the first
\* implementation added for the tag that fits.
CreateType ==
    IF F.type \in Structs THEN {F.type}
    ELSE LET impls == IF F.tag = NoName THEN <<>> ELSE Impls[F.tag]
             fits  == {i \in 1 .. Len(impls) : <<impls[i], F.type>> \in Assignable}
         IN  {impls[i] : i \in {j \in fits : \A h \in fits : j <= h}}

\* The call of register that creates it, where noFill makes no difference; on
\* return the field is looked up again.
FieldCreate ==
    /\ AtField /\ Top.value # "set" /\ F.legal /\ Found = {} /\ ~F.canNil
    /\ \E t \in CreateType :
           stack' = Append(stack, NewFrame(F.tag, t, F.singleton, FALSE, "nil"))
    /\ UNCHANGED <<graphVars, callVars, pc>>

FieldFill ==
    /\ AtField /\ Top.value # "set" /\ F.legal
    /\ \E k \in Found :
           /\ <<objs[Get(named, k)].type, F.type>> \in Assignable
           /\ Replace(NextField([Top EXCEPT !.deps = @ \cup {Get(named, k)}]))
    /\ UNCHANGED <<graphVars, callVars, pc>>

\* A tag on a field that cannot be set, a dependency of the wrong type, or none.
FieldFails ==
    /\ AtField
    /\ \/ ~F.legal
       \/ Top.value # "set" /\ \E k \in Found : <<objs[Get(named, k)].type, F.type>> \notin Assignable
       \/ Top.value # "set" /\ Found = {} /\ ~F.canNil /\ CreateType = {}
    /\ Fail

Resolved ==
    /\ pc = "register" /\ Top.field > 0
    /\ \/ Top.field > Len(FieldsOf(Top.type))
       \/ Top.value = "kept"

\* Start of the object returns an error.
StartFails ==
    /\ Resolved /\ Top.type \in StartAble
    /\ Fail

NewObject(f) == [name |-> f.name, type |-> f.type, deps |-> f.deps, closes |-> 0]
Object == [name : Names \cup Types, type : Types, deps : SUBSET (1 .. Len(objs)),
           closes : Nat]

\* set, or setBoth for a singleton, which takes over the name of its type.
Started(o) ==
    LET set == Set(named, Top.name, o)
    IN  IF Top.singleton THEN Set(set, Top.type, o) ELSE set

\* The object is started and stored, and the frame below goes on.
Finish ==
    /\ Resolved
    /\ LET o == Len(objs) + 1
       IN  /\ objs' = Append(objs, NewObject(Top))
           /\ named' = Started(o)
           /\ evicted' = evicted \cup (Stored(named) \ Stored(Started(o)))
           /\ late' = late \cup {x \in {o} : Top.name \in Keys(named)}
    /\ stack' = Below
    /\ pc' = IF Below = <<>> THEN "idle" ELSE pc
    /\ UNCHANGED callVars

-----------------------------------------------------------------------------
(* Close *)

CloseBegin ==
    /\ pc = "idle"
    /\ pc' = "close"
    /\ curr' = named.prev[Root]
    /\ keys' = <<>>
    /\ UNCHANGED <<graphVars, stack, calls>>

Visited == named.key[curr]
TypeKey(o) == IF objs[o].type \in Structs THEN <<objs[o].type>> ELSE <<>>

\* Mutant: the walk ends at an object that needs no Close.
CloseVisitBreaks ==
    /\ pc = "close" /\ curr # Root
    /\ keys' = Append(keys, Visited)
    /\ IF Visited \in Keys(named) /\ objs[Get(named, Visited)].type \in CloseAble
       THEN /\ objs' = [objs EXCEPT ![Get(named, Visited)].closes = 1]
            /\ curr' = named.prev[curr]
       ELSE curr' = Root /\ UNCHANGED objs
    /\ UNCHANGED <<named, evicted, late, stack, pc, calls>>

\* The node's key is going to be deleted; its object is closed, if it was not.
CloseVisit ==
    /\ pc = "close" /\ curr # Root
    /\ IF Visited \notin Keys(named) \/ objs[Get(named, Visited)].closes > 0
       THEN keys' = Append(keys, Visited) /\ UNCHANGED objs
       ELSE LET o == Get(named, Visited)
            IN  /\ keys' = Append(keys, Visited) \o TypeKey(o)
                /\ objs' = IF objs[o].type \in CloseAble
                           THEN [objs EXCEPT ![o].closes = @ + 1] ELSE objs
    /\ curr' = named.prev[curr]
    /\ UNCHANGED <<named, evicted, late, stack, pc, calls>>

Deleted(om, ks) ==
    LET after[i \in 0 .. Len(ks)] ==
            IF i = 0 THEN om ELSE Delete(after[i - 1], ks[i])
    IN  after[Len(ks)]

\* The walk is over: the collected keys are deleted, some of them repeatedly.
CloseEnd ==
    /\ pc = "close" /\ curr = Root
    /\ named' = Deleted(named, keys)
    /\ keys' = <<>>
    /\ pc' = "idle"
    /\ UNCHANGED <<objs, evicted, late, stack, curr, calls>>

-----------------------------------------------------------------------------
Init ==
    /\ named = NewOrderedMap
    /\ objs = <<>> /\ stack = <<>> /\ keys = <<>>
    /\ pc = "idle" /\ curr = Root /\ calls = 0
    /\ evicted = {} /\ late = {}

Next ==
    \/ \E n \in Names \cup {NoName}, t \in Structs \cup Plains, s, noFill \in BOOLEAN,
          value \in {"nil", "zero", "set"} : Register(n, t, s, noFill, value)
    \/ Begin \/ BeginFails
    \/ FieldSkip \/ FieldCreate \/ FieldFill \/ FieldFails
    \/ StartFails \/ Finish
    \/ CloseBegin \/ CloseVisit \/ CloseEnd

Spec == Init /\ [][Next]_vars

-----------------------------------------------------------------------------
(* Properties *)

\* Every variable keeps its type: frames point at a field of their type or just
\* behind the last one, keys of the map lead to objects, links to nodes.
TypeOK ==
    /\ Keys(named) \subseteq Names \cup Types
    /\ Stored(named) \subseteq 1 .. Len(objs)
    /\ named.prev \in [Nodes(named) -> Nodes(named)]
    /\ named.next \in [Nodes(named) -> Nodes(named)]
    /\ \A o \in 1 .. Len(objs) : objs[o] \in Object
    /\ \A i \in 1 .. Len(stack) : /\ stack[i] \in Frame
                                 /\ stack[i].field <= Len(FieldsOf(stack[i].type)) + 1
    /\ pc \in {"idle", "register", "close"}
    /\ (stack # <<>>) = (pc = "register")
    /\ curr \in Nodes(named)
    /\ calls \in 0 .. MaxCalls
    /\ evicted \cup late \subseteq 1 .. Len(objs)

\* Close deletes a key more than once, through nodes that are unlinked already
\* (inject.go:460, 469, 485; orderedmap.go:73).  Its walk still ends, and still
\* meets the node of every object that is stored afterwards.
WalkMeetsAll == LinksOrdered(named) /\ WalkComplete(named)

\* Close is called at most once on an object, though a singleton has two keys
\* and stale nodes lead to keys that are in use again (inject.go:465, 480).
ClosedOnce == \A o \in 1 .. Len(objs) : objs[o].closes <= 1

Open(o) == objs[o].type \in CloseAble /\ objs[o].closes = 0

\* An object that was started and not closed can be found in the graph, also
\* when the call that created it for another one failed in the end, unless a
\* later object took its last key.
NoLeak == \A o \in 1 .. Len(objs) : Open(o) => o \in Stored(named) \cup evicted

\* What an object uses, directly or through others.
UsesIn(os) ==
    LET uses[o \in 1 .. Len(os)] ==
            os[o].deps \cup UNION {uses[d] : d \in os[o].deps}
    IN  uses
Uses == UsesIn(objs)

\* An object loses its last key only if it was registered without a name and a
\* singleton of its type came later (inject.go:135), or if its user was
\* registered under the tag it has itself (inject.go:225, 414).
EvictedByType ==
    \A o \in evicted :
        objs[o].name = objs[o].type \/ \E u \in late : o \in Uses[u]

\* "dep.Close, test.Close will be called orderly" (example_test.go:36): while an
\* object is open, everything it uses is open too; in particular no object of a
\* graph that was closed is injected into a new one.  An object is excused whose
\* name its user took: it is left with the place of its type, which may be old.
UsersFirst ==
    \A u \in 1 .. Len(objs) \ (evicted \cup late) :
        Open(u) /\ (\A v \in late : objs[v].name # objs[u].name)
            => \A d \in Uses[u] : objs[d].closes = 0

\* When Close returns, nothing is stored and nothing is left to be closed.
CloseEmpties ==
    [][pc = "close" /\ pc' = "idle" =>
            Keys(named') = {} /\ \A o \in 1 .. Len(objs) \ evicted : ~Open(o)]_vars

\* The graph accounts for every object it has created (inject.go:123-137, 307,
\* 446-490): each is stored or evicted or was closed, once, and the only ones it
\* loses are those whose type key a later registration takes.
ClosedExactly == TypeOK /\ ClosedOnce /\ NoLeak /\ EvictedByType
=============================================================================
