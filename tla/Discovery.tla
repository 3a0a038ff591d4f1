----------------------------- MODULE Discovery ------------------------------
(* service/discovery: one watched key, for etcd and for zookeeper. The list   *)
(* of the key is a value in a sync.Map that the watching goroutine and the    *)
(* callers of AddNode and DelNode load, change and store; readers assert its  *)
(* type.                                                                      *)
EXTENDS Integers, Sequences, SequencesExt, FiniteSets

CONSTANTS
    DsAddrs,    \* addresses that register
    DsBad,      \* an address whose published value does not parse
    DsChanges,  \* bound: changes in the store
    DsAdds      \* bound: calls of AddNode and DelNode by the user
ASSUME DsAssumption == /\ DsChanges \in Nat /\ DsAdds \in Nat /\ IsFiniteSet(DsAddrs)
                       /\ DsAddrs \cap {"absent", "nothing", "untyped nil"} = {}

NoInfo == "nil"   \* what unMsgNodeInfo returns for a value that does not parse

VARIABLES
    edRunning,  \* running
    edOnce,     \* closeOnce has run
    edList,     \* nodesInfo of the key; <<"absent">> before Watch
    edWatch,    \* the watching goroutine: "none", "get", "gap", "loop", "dead", "stopped"
    edStop,     \* stopChan is closed
    edEvents,   \* what the watch channel holds
    edHand,     \* per party, the list it has loaded and what it will store: EdNothing or a list
    edStore,    \* in etcd: the addresses that are registered
    edExcused,  \* what was put between Get and Watch, deleted by the user, or lost to the other
                \* party's store, and not added since (history)
    edSteps,    \* changes and calls so far (bound)
    zdEntry,    \* the value of the key: EdAbsent, ZdNil or a list
    zdWatch,    \* the watching goroutine: "none", "begin", "children", "armed", "changed",
                \* "reload", "dead", "stopped"
    zdStop,     \* stopChan is closed
    zdTodo,     \* children still to be read
    zdEvent,    \* the armed watch has fired
    zdKids,     \* in zookeeper: the children
    zdReloads,  \* reloads begun (history)
    zdPanics,   \* a reader or Close met a value of another type
    zdSteps     \* changes so far (bound)

edVars == <<edRunning, edOnce, edList, edWatch, edStop, edEvents, edHand, edStore, edExcused, edSteps>>
zdVars == <<zdEntry, zdWatch, zdStop, zdTodo, zdEvent, zdKids, zdReloads, zdPanics, zdSteps>>

EdAbsent == <<"absent">>
EdNothing == <<"nothing">>
EdInfo(a) == IF a = DsBad THEN NoInfo ELSE a

EdInit == /\ edRunning = TRUE /\ edOnce = FALSE /\ edList = EdAbsent /\ edWatch = "none" /\ edStop = FALSE
          /\ edEvents = <<>> /\ edHand = [p \in {"watch", "user"} |-> EdNothing]
          /\ edStore \in SUBSET DsAddrs /\ edExcused = {} /\ edSteps = 0

(* Watch, when the client can be made: the entry is stored and the watching  *)
(* goroutine begins. (A Watch after Close would never be stopped: closeOnce  *)
(* has run. The user is taken not to call it.)                               *)
EdWatch == /\ edRunning /\ ~edOnce /\ edWatch = "none" /\ edList = EdAbsent
           /\ edList' = <<>> /\ edWatch' = "get"
           /\ UNCHANGED <<edRunning, edOnce, edStop, edEvents, edHand, edStore, edExcused, edSteps>>

(* watchNode: Get and the AddNode of each node; an error ends the goroutine. *)
EdGet == /\ edWatch = "get"
         /\ \/ edWatch' = "dead" /\ UNCHANGED <<edList, edExcused>>
            \/ \E order \in SetToSeqs(edStore) :
                 /\ edList' = edList \o [i \in DOMAIN order |-> EdInfo(order[i])]
                 /\ edWatch' = "gap"
                 /\ edExcused' = edExcused \ Range(edList')
         /\ UNCHANGED <<edRunning, edOnce, edStop, edEvents, edHand, edStore, edSteps>>

\* The watch begins with what happens from now on.
EdWatchFrom == /\ edWatch = "gap" /\ edWatch' = "loop"
               /\ UNCHANGED <<edRunning, edOnce, edList, edStop, edEvents, edHand, edStore, edExcused, edSteps>>

(* An address is put, perhaps again, or deleted in etcd.                     *)
EdChange(a, type) ==
               /\ edSteps < DsChanges /\ edSteps' = edSteps + 1 /\ (type = "delete" => a \in edStore)
               /\ edStore' = IF type = "delete" THEN edStore \ {a} ELSE edStore \union {a}
               /\ edEvents' = IF edWatch = "loop" THEN Append(edEvents, [type |-> type, addr |-> a]) ELSE edEvents
               /\ edExcused' = IF edWatch \in {"get", "gap"} THEN edExcused \union {EdInfo(a)} ELSE edExcused
               /\ UNCHANGED <<edRunning, edOnce, edList, edWatch, edStop, edHand>>

(* AddNode: the list of the key, with one more.                              *)
EdAdded(list, a) == Append(list, EdInfo(a))

(* DelNode: the first element whose address is addr goes. An element that is *)
(* nil panics when it is compared.                                           *)
EdDelPanics(list, addr) == \E i \in DOMAIN list : list[i] = NoInfo /\ ~\E j \in 1..(i - 1) : list[j] = addr
EdDeleted(list, addr) == IF addr \in Range(list) THEN RemoveFirst(list, addr) ELSE list

\* Faulty variant: of the puts only the first of an address is applied, by what is registered now.
EdHandledNow(ev) == IF ev.addr \in edStore /\ edEvents' = <<>> THEN EdAdded(edList, ev.addr) ELSE edList

(* What an event makes of the list: a put adds the address; a delete hands   *)
(* DelNode the whole key, which is no ip:port, and removes nothing.          *)
EdHandled(ev) == IF ev.type = "put" THEN EdAdded(edList, ev.addr) ELSE EdDeleted(edList, "key")

(* The loop of watchNode takes an event, loads the list ...                  *)
EdTake == /\ edWatch = "loop" /\ edEvents # <<>> /\ edHand["watch"] = EdNothing
          /\ edEvents' = Tail(edEvents)
          /\ IF Head(edEvents).type = "delete" /\ EdDelPanics(edList, "key")
             THEN edWatch' = "dead" /\ UNCHANGED edHand
             ELSE edHand' = [edHand EXCEPT !["watch"] = EdHandled(Head(edEvents))] /\ UNCHANGED edWatch
          /\ UNCHANGED <<edRunning, edOnce, edList, edStop, edStore, edExcused, edSteps>>

(* ... and stores it; what the other party has stored since then is lost.    *)
EdPut(p) == /\ edHand[p] # EdNothing
            /\ edList' = edHand[p] /\ edHand' = [edHand EXCEPT ![p] = EdNothing]
            /\ edExcused' = (edExcused \union Range(edList)) \ Range(edHand[p])
            /\ UNCHANGED <<edRunning, edOnce, edWatch, edStop, edEvents, edStore, edSteps>>

(* The user's AddNode and DelNode load the list; before Watch AddNode panics *)
(* and DelNode does nothing.                                                 *)
EdUser(a) == /\ edList # EdAbsent /\ edHand["user"] = EdNothing /\ edSteps < DsChanges + DsAdds /\ edSteps' = edSteps + 1
             /\ \/ edHand' = [edHand EXCEPT !["user"] = EdAdded(edList, a)]
                \/ ~EdDelPanics(edList, a) /\ edHand' = [edHand EXCEPT !["user"] = EdDeleted(edList, a)]
             /\ UNCHANGED <<edRunning, edOnce, edList, edWatch, edStop, edEvents, edStore, edExcused>>

EdClose == /\ ~edOnce /\ edOnce' = TRUE /\ edStop' = (edList # EdAbsent)
           /\ UNCHANGED <<edRunning, edList, edWatch, edEvents, edHand, edStore, edExcused, edSteps>>

(* The loop sees the stop; running turns false for every key.                *)
EdStopped == /\ edWatch = "loop" /\ edHand["watch"] = EdNothing /\ edStop
             /\ edWatch' = "stopped" /\ edRunning' = FALSE
             /\ UNCHANGED <<edOnce, edList, edStop, edEvents, edHand, edStore, edExcused, edSteps>>

EdNext == \/ EdWatch \/ EdGet \/ EdWatchFrom \/ EdTake \/ EdClose \/ EdStopped
          \/ \E a \in DsAddrs : EdUser(a) \/ EdChange(a, "put") \/ EdChange(a, "delete")
          \/ \E p \in DOMAIN edHand : EdPut(p)

EdSpec == EdInit /\ [][EdNext]_edVars

(* While the watch runs and has handled its events, every registered address *)
(* is in the list, unless it was put between Get and Watch, was taken out by *)
(* the user or lost to a concurrent store.                                   *)
EdKnows == edWatch = "loop" /\ edEvents = <<>> /\ edHand["watch"] = EdNothing
             => \A a \in edStore : EdInfo(a) \in Range(edList) \union edExcused

(* After Close a watch that runs, or comes to run, stops or dies.            *)
EdCloseStops == edOnce ~> (edWatch \in {"none", "dead", "stopped"})

-----------------------------------------------------------------------------
\* The nil that a reload stores.
ZdNil == <<"untyped nil">>

ZdInit == /\ zdEntry = EdAbsent /\ zdWatch = "none" /\ zdStop = FALSE /\ zdTodo = {} /\ zdEvent = FALSE
          /\ zdKids \in SUBSET DsAddrs /\ zdReloads = 0 /\ zdPanics = FALSE /\ zdSteps = 0

ZdWatch == /\ zdWatch = "none" /\ zdEntry = EdAbsent /\ zdEntry' = <<>> /\ zdWatch' = "begin"
           /\ UNCHANGED <<zdStop, zdTodo, zdEvent, zdKids, zdReloads, zdPanics, zdSteps>>

(* The children are listed, at the start of watchNode and after an event;    *)
(* a reload first replaces the entry of the key by nil.                      *)
ZdChildren == /\ zdWatch \in {"begin", "changed"}
              /\ \/ zdWatch' = "dead" /\ UNCHANGED <<zdTodo, zdEntry, zdReloads>>
                 \/ /\ zdTodo' = zdKids
                    /\ zdWatch' = IF zdWatch = "begin" THEN "children" ELSE "reload"
                    /\ IF zdWatch = "begin" THEN UNCHANGED <<zdEntry, zdReloads>>
                       ELSE zdEntry' = ZdNil /\ zdReloads' = zdReloads + 1
              /\ UNCHANGED <<zdStop, zdEvent, zdKids, zdPanics, zdSteps>>

\* Faulty variant: the list that AddNode has changed is not stored.
ZdChildNotStored(a) == /\ zdWatch \in {"children", "reload"} /\ a \in zdTodo /\ zdTodo' = zdTodo \ {a}
                       /\ UNCHANGED <<zdEntry, zdWatch, zdStop, zdEvent, zdKids, zdReloads, zdPanics, zdSteps>>

(* Each child is read, which fails when it is gone, and added: first under   *)
(* the key; in a reload under the path, where nothing is stored, so that the *)
(* type assertion panics and ends the goroutine.                             *)
ZdChild(a) == /\ zdWatch \in {"children", "reload"} /\ a \in zdTodo /\ zdTodo' = zdTodo \ {a}
              /\ IF a \in zdKids /\ zdWatch = "children"
                 THEN zdEntry' = Append(zdEntry, EdInfo(a)) /\ UNCHANGED zdWatch
                 ELSE zdWatch' = "dead" /\ UNCHANGED zdEntry
              /\ UNCHANGED <<zdStop, zdEvent, zdKids, zdReloads, zdPanics, zdSteps>>

(* ChildrenW arms the next event; changes before it are not noticed.         *)
ZdArm == /\ zdWatch \in {"children", "reload"} /\ zdTodo = {}
         /\ zdWatch' \in {"armed", "dead"} /\ zdEvent' = FALSE
         /\ UNCHANGED <<zdEntry, zdStop, zdTodo, zdKids, zdReloads, zdPanics, zdSteps>>

ZdFired == /\ zdWatch = "armed" /\ zdEvent /\ zdWatch' = "changed"
           /\ UNCHANGED <<zdEntry, zdStop, zdTodo, zdEvent, zdKids, zdReloads, zdPanics, zdSteps>>

ZdStopped == /\ zdWatch = "armed" /\ zdStop /\ zdWatch' = "stopped"
             /\ UNCHANGED <<zdEntry, zdStop, zdTodo, zdEvent, zdKids, zdReloads, zdPanics, zdSteps>>

ZdChange(a) == /\ zdSteps < DsChanges /\ zdSteps' = zdSteps + 1
               /\ zdKids' = IF a \in zdKids THEN zdKids \ {a} ELSE zdKids \union {a}
               /\ zdEvent' = (zdEvent \/ zdWatch = "armed")
               /\ UNCHANGED <<zdEntry, zdWatch, zdStop, zdTodo, zdReloads, zdPanics>>

(* GetNodeInfo and DelNode assert the type of the entry, AddNode also when   *)
(* there is none.                                                            *)
ZdRead == /\ zdEntry = ZdNil /\ zdPanics' = TRUE
          /\ UNCHANGED <<zdEntry, zdWatch, zdStop, zdTodo, zdEvent, zdKids, zdReloads, zdSteps>>

(* Close asserts the type too, and has no once: a second close panics.       *)
ZdClose == /\ IF zdEntry = ZdNil \/ zdStop THEN zdPanics' = TRUE /\ UNCHANGED zdStop
              ELSE zdStop' = (zdEntry # EdAbsent) /\ UNCHANGED zdPanics
           /\ UNCHANGED <<zdEntry, zdWatch, zdTodo, zdEvent, zdKids, zdReloads, zdSteps>>

ZdNext == \/ ZdWatch \/ ZdChildren \/ ZdArm \/ ZdFired \/ ZdStopped \/ ZdRead \/ ZdClose
          \/ \E a \in DsAddrs : ZdChild(a) \/ ZdChange(a)

ZdSpec == ZdInit /\ [][ZdNext]_zdVars

(* A reader or a Close panics only after a reload has begun, or when Close   *)
(* is called again; and a reload that met a child has ended the watch.       *)
ZdPanicsLate == /\ zdPanics => zdReloads > 0 \/ zdStop
                /\ zdWatch = "armed" /\ zdReloads > 0 => zdEntry = ZdNil

(* Until the first reload the list is what the children were when they were  *)
(* read: every child is there.                                               *)
ZdFirstLoad == zdWatch = "armed" /\ zdReloads = 0 /\ ~zdEvent /\ zdSteps = 0
                 => \A a \in zdKids : EdInfo(a) \in Range(zdEntry)

\* What the zookeeper discovery knows (zk.go:157-258): the first load is
\* complete, and readers panic only after a reload or when Close is repeated.
ZdKnows == ZdFirstLoad /\ ZdPanicsLate
=============================================================================
