---------------------------- MODULE MysqlClient -----------------------------
(* mysqldb.MysqlClient: opening masters and slaves, reads that try again and  *)
(* on other handles, single statements, InsertOrUpdateOnDup, which is up to   *)
(* three statements, and transactions around a function of the caller. One    *)
(* row of one table stands for the data; a statement that fails may have run. *)
EXTENDS Integers, Sequences, FiniteSets

CONSTANTS
    MyConfs,      \* configurations: where from, type of database, parts of the lists of masters and slaves
    MyCallers,    \* goroutines that use the client
    MyVals,       \* values of the row
    MyRetry,      \* defaultDbRetry
    MyCalls       \* bound on the calls, and on the changes that other processes make
ASSUME MyAssumption ==
    /\ {MyRetry, MyCalls} \subseteq Nat /\ "panic" \notin MyVals
    /\ MyConfs \subseteq [from : STRING, type : STRING, masters : Seq(STRING), slaves : Seq(STRING)]

VARIABLES
    myConf,       \* the configuration
    myStart,      \* the first Start: "no", "masters", "slaves" (opening them), "done", "failed"
    myHandles,    \* the handles that are open
    myWrite,      \* dbWrite
    myRead,       \* dbRead
    myClosed,     \* closeOnce has run
    myEarly,      \* it ran before the first Start had ended (history)
    myRow,        \* the row in the database: a value, or "none"
    myCall,       \* the call of each goroutine
    mySeen,       \* the rows there have been since the call began (history)
    myGone,       \* the goroutines during whose call a row was deleted (history)
    myLeft        \* calls, and changes by other processes, that are left

myVars == <<myConf, myStart, myHandles, myWrite, myRead, myClosed, myEarly, myRow, myCall, mySeen, myGone, myLeft>>
myDbVars == <<myConf, myStart, myHandles, myWrite, myRead, myClosed, myEarly>>

MyIdle == [st |-> "idle", op |-> "none", val |-> "none", ready |-> FALSE, todo |-> {}, db |-> <<>>, turn |-> 0,
           moved |-> FALSE, steps |-> 0, kept |-> 0, fin |-> "none", ret |-> "none"]

MyInit == /\ myConf \in MyConfs /\ myStart = "no" /\ myHandles = {} /\ myWrite = {} /\ myRead = {}
          /\ myClosed = FALSE /\ myEarly = FALSE /\ myRow = "none" /\ myLeft = MyCalls
          /\ myCall = [g \in MyCallers |-> MyIdle] /\ mySeen = [g \in MyCallers |-> {}] /\ myGone = {}

-----------------------------------------------------------------------------
(* Start and Close.                                                          *)

\* How many addresses a list has; empty parts are skipped.
MyHosts(parts) == Cardinality({i \in DOMAIN parts : parts[i] # ""})

\* initDbs puts the whole list into each connection string, so that a list of
\* several parts is the name of no host.
MyReachable(h) == Len(IF h[1] = "m" THEN myConf.masters ELSE myConf.slaves) = 1

MyAll(kind, parts) == {<<kind, i>> : i \in 1..MyHosts(parts)}

\* initDbsWithCommonConf passes glSuffix where the type of the database belongs,
\* and no driver has that name.
MyDriverKnown == myConf.from # "common"

(* startOnce: the first Start begins to open handles, or fails on a list     *)
(* without masters. Later ones do nothing, and report no error.              *)
MyBegin == /\ myStart = "no"
           /\ myStart' = IF MyDriverKnown /\ MyHosts(myConf.masters) > 0 THEN "masters" ELSE "failed"
           /\ UNCHANGED <<myConf, myHandles, myWrite, myRead, myClosed, myEarly, myRow, myCall, mySeen, myGone, myLeft>>

\* dbWrite once the last master is open.
MyStored(h) == IF h = <<"m", MyHosts(myConf.masters)>> THEN MyAll("m", myConf.masters) ELSE {}

(* sql.Open for the next handle, after which the host may not be found in    *)
(* the connection string. With the last slave the masters become dbRead.     *)
MyOpen ==
    LET kind == IF myStart = "masters" THEN "m" ELSE "s"
        next == Cardinality({h \in myHandles : h[1] = kind}) + 1
        h == <<kind, next>>
        last == next = MyHosts(IF kind = "m" THEN myConf.masters ELSE myConf.slaves)
        noSlaves == MyHosts(myConf.slaves) = 0
    IN /\ myStart \in {"masters", "slaves"}
       /\ \/ /\ myHandles' \in {myHandles, myHandles \union {h}} /\ myStart' = "failed"
             /\ UNCHANGED <<myWrite, myRead>>
          \/ /\ myHandles' = myHandles \union {h}
             /\ myWrite' = IF kind = "m" THEN MyStored(h) ELSE myWrite
             /\ myStart' = IF ~last THEN myStart ELSE IF kind = "m" /\ ~noSlaves THEN "slaves" ELSE "done"
             /\ myRead' = IF myStart' = "done" THEN MyAll("m", myConf.masters) ELSE {}
       /\ UNCHANGED <<myConf, myClosed, myEarly, myRow, myCall, mySeen, myGone, myLeft>>

\* closeMainDbs closes what dbWrite and dbRead hold.
MyCloses == myHandles \ (myWrite \union myRead)

(* closeOnce.                                                                *)
MyClose == /\ ~myClosed /\ myClosed' = TRUE /\ myEarly' = (myStart \notin {"done", "failed"})
           /\ myHandles' = MyCloses
           /\ UNCHANGED <<myConf, myStart, myWrite, myRead, myRow, myCall, mySeen, myGone, myLeft>>

-----------------------------------------------------------------------------
(* Calls.                                                                    *)

MyCallSet(g, c) == myCall' = [myCall EXCEPT ![g] = c]
MyOver(c, ret) == [c EXCEPT !.st = "done", !.ret = ret, !.todo = {}, !.db = <<>>, !.turn = 0, !.moved = FALSE]
MyNew(op, st, v) == [MyIdle EXCEPT !.op = op, !.st = st, !.val = v, !.ready = myStart \in {"slaves", "done"}]
MyActive(g) == myCall[g].st \notin {"idle", "done"}

\* A call begins: what it sees starts with the row of this moment.
MyEnter(g) == /\ ~MyActive(g) /\ myLeft > 0 /\ myLeft' = myLeft - 1
              /\ mySeen' = [mySeen EXCEPT ![g] = {myRow}] /\ myGone' = myGone \ {g}
              /\ UNCHANGED <<myDbVars, myRow>>

\* The row changes under everybody's eyes.
MySetRow(row) == /\ myRow' = row
                 /\ mySeen' = [g \in MyCallers |-> mySeen[g] \union IF MyActive(g) THEN {row} ELSE {}]
                 /\ myGone' = IF row = "none" THEN myGone \union {g \in MyCallers : MyActive(g)} ELSE myGone

\* Another process that uses the database inserts, updates or deletes the row.
MyOther == /\ myLeft > 0 /\ myLeft' = myLeft - 1
           /\ \E row \in (MyVals \union {"none"}) \ {myRow} : MySetRow(row)
           /\ UNCHANGED <<myDbVars, myCall>>

(* Query, QueryList, GetCount and IsExistTable begin with the handles in     *)
(* random order.                                                             *)
MyQuery(g) == /\ MyEnter(g)
              /\ MyCallSet(g, IF myRead = {} THEN MyOver(MyNew("query", "query", "none"), "error")
                              ELSE [MyNew("query", "query", "none") EXCEPT !.todo = myRead])

\* One connection error sends the read to another handle.
MyMayMove(c, err) == err = "conn" /\ ~c.moved

(* DbWrap.Query: one attempt on a handle, repeated there on a connection     *)
(* error; then queryRow and queryList go to the next handle, once.           *)
MyAttempt(g) ==
    LET c == myCall[g]
    IN /\ c.st = "query"
       /\ \E db \in (IF c.db = <<>> THEN c.todo ELSE {c.db}), out \in {"rows", "conn", "other"} :
            /\ (db \notin myHandles => out = "other") /\ (~MyReachable(db) => out # "rows")
            /\ LET spent == c.turn >= MyRetry
                   rest == c.todo \ {db}
               IN MyCallSet(g,
                    CASE out = "rows" -> [c EXCEPT !.st = "rows", !.val = myRow, !.steps = @ + 1]
                      [] out = "conn" /\ ~spent -> [c EXCEPT !.db = db, !.turn = @ + 1, !.steps = @ + 1]
                      [] spent /\ MyMayMove(c, out) /\ rest # {} ->
                           [c EXCEPT !.db = <<>>, !.turn = 0, !.todo = rest, !.moved = TRUE, !.steps = @ + 1]
                      [] OTHER -> MyOver([c EXCEPT !.steps = @ + 1], "error"))
    /\ UNCHANGED <<myDbVars, myRow, mySeen, myGone, myLeft>>

\* Scan asks rows.Err when there is no next row.
MyScanned(g, broken) == IF broken THEN "error" ELSE myCall[g].val

(* The rows are read while the deadline of the query, which only an error    *)
(* cancels, goes on.                                                         *)
MyScan(g) == /\ myCall[g].st = "rows"
             /\ \E broken \in BOOLEAN : MyCallSet(g, MyOver(myCall[g], MyScanned(g, broken)))
             /\ UNCHANGED <<myDbVars, myRow, mySeen, myGone, myLeft>>

\* getWriteDbs takes the first of an empty list, and panics.
MyGetWriteDbs(g, c) == MyCallSet(g, IF myWrite = {} THEN MyOver(c, "panic") ELSE c)

(* Calls of one statement.                                                   *)
MyUpdate(g) == MyEnter(g) /\ \E v \in MyVals : MyGetWriteDbs(g, MyNew("update", "update", v))
MyDelete(g) == MyEnter(g) /\ MyGetWriteDbs(g, MyNew("delete", "delete", "none"))

\* Add and its variants: DM insists on the name of an identity column; with
\* ondupUpdate the statement is a merge.
MyAdd(g) == /\ MyEnter(g)
            /\ \/ myConf.type = "dm" /\ MyCallSet(g, MyOver(MyNew("insert", "insert", "none"), "error"))
               \/ \E v \in MyVals, stmt \in {"insert", "merge"} : MyGetWriteDbs(g, MyNew("insert", stmt, v))

(* InsertOrUpdateOnDup: with useSqlOnDup one merge, or else an update first. *)
MyInsertOrUpdateOnDup(g) ==
    /\ MyEnter(g)
    /\ \E v \in MyVals, stmt \in {"merge", "update"} : MyGetWriteDbs(g, MyNew("upsert", stmt, v))

\* Whether a statement finds a row to change; MySQL does not count one that
\* stays as it is, DM may.
MyAffected(stmt, v, counts) ==
    CASE stmt \in {"insert", "merge"} -> TRUE
      [] stmt = "delete" -> myRow # "none"
      [] OTHER -> myRow # "none" /\ (myRow # v \/ counts)

\* Faulty variant: a duplicate entry ends the call as if its row were there.
MyOnDupDone(c) == MyOver(c, "ok")

\* Error 1062: somebody inserted the row meanwhile, and the update runs again.
MyOnDup(c) == IF c.op = "upsert" THEN [c EXCEPT !.st = "again"] ELSE MyOver(c, "error")

\* What follows a statement of InsertOrUpdateOnDup that changed no row.
MyNoRow(c) == IF c.op = "upsert" /\ c.st = "update"
              THEN IF myConf.type = "dm" THEN MyOver(c, "error") ELSE [c EXCEPT !.st = "insert"]
              ELSE MyOver(c, "ok")

(* One Exec on some write handle: it runs and answers, fails, or runs and    *)
(* fails to answer.                                                          *)
MyExec(g) ==
    LET c == myCall[g]
        stmt == IF c.st = "again" THEN "update" ELSE c.st
        dup == stmt = "insert" /\ myRow # "none"
    IN /\ stmt \in {"update", "delete", "insert", "merge"}
       /\ \E db \in myWrite, out \in {"ok", "failed", "lost"}, counts \in BOOLEAN :
            /\ db \notin myHandles \/ ~MyReachable(db) => out = "failed"
            /\ counts => myConf.type = "dm"
            /\ LET affected == MyAffected(stmt, c.val, counts)
               IN /\ IF out = "failed" \/ dup \/ (stmt = "update" /\ myRow = "none") THEN UNCHANGED <<myRow, mySeen, myGone>>
                     ELSE MySetRow(c.val)
                  /\ MyCallSet(g, CASE out # "ok" -> MyOver(c, "error")
                                    [] out = "ok" /\ dup -> MyOnDup(c)
                                    [] out = "ok" /\ ~dup /\ ~affected -> MyNoRow(c)
                                    [] OTHER -> MyOver(c, "ok"))
       /\ UNCHANGED <<myDbVars, myLeft>>

(* ExecTransaction: BeginTx, which may fail ...                              *)
MyExecTransaction(g) ==
    /\ MyEnter(g)
    /\ \E fails \in BOOLEAN :
         /\ (\A db \in myWrite : db \notin myHandles \/ ~MyReachable(db)) => fails
         /\ MyGetWriteDbs(g, LET c == MyNew("tx", "tx", "none")
                             IN IF fails THEN MyOver(c, "error") ELSE c)

\* ... the function of the caller, which runs two statements, or stops after
\* the first with an error or a panic, or forgets to return a result ...
MyFunction(g) == /\ myCall[g].st = "tx"
                 /\ \E out \in {"result", "noResult", "error", "panic"} :
                      MyCallSet(g, [myCall[g] EXCEPT !.st = "defer", !.val = out,
                                    !.steps = IF out \in {"result", "noResult"} THEN 2 ELSE 1])
                 /\ UNCHANGED <<myDbVars, myRow, mySeen, myGone, myLeft>>

\* err is still nil when the function panics.
MyCommits(out) == out # "error"

(* ... and the deferred function, which commits or rolls back. A commit may  *)
(* fail, with or without its effect. RowsAffected of a missing result        *)
(* panics.                                                                   *)
MyDefer(g) ==
    LET c == myCall[g]
    IN /\ c.st = "defer"
       /\ \E end \in (IF MyCommits(c.val) THEN {"ok", "failed", "lost"} ELSE {"rollback"}) :
            MyCallSet(g, [c EXCEPT !.st = "done", !.kept = IF end \in {"ok", "lost"} THEN c.steps ELSE 0,
                          !.fin = end,
                          !.ret = CASE c.val = "panic" -> "panic"
                                    [] c.val = "error" \/ (c.val # "panic" /\ end # "ok") -> "error"
                                    [] c.val = "noResult" /\ end = "ok" -> "panic"
                                    [] OTHER -> "ok"])
       /\ UNCHANGED <<myDbVars, myRow, mySeen, myGone, myLeft>>

MyNext == \/ MyBegin \/ MyOpen \/ MyClose \/ MyOther
          \/ \E g \in MyCallers : \/ MyQuery(g) \/ MyAttempt(g) \/ MyScan(g)
                                  \/ MyUpdate(g) \/ MyDelete(g) \/ MyAdd(g) \/ MyInsertOrUpdateOnDup(g) \/ MyExec(g)
                                  \/ MyExecTransaction(g) \/ MyFunction(g) \/ MyDefer(g)

MySpec == MyInit /\ [][MyNext]_myVars

MyDone(g, op) == myCall[g].st = "done" /\ myCall[g].op = op

(* A read that reports no error gives a row there was during the call, and    *)
(* none only if there was none: rows that break off at the deadline never     *)
(* pass for an answer (db.go:501, dbwrap.go:363).                             *)
MyReadHonest == \A g \in MyCallers : MyDone(g, "query") /\ myCall[g].ret # "error" => myCall[g].ret \in mySeen[g]

(* A read is sent at most twice to each of two handles, however many there    *)
(* are: a database that is down is not flooded by its readers.                *)
MyReadTries == \A g \in MyCallers : myCall[g].op = "query" => myCall[g].steps <= 2 * (MyRetry + 1)

(* InsertOrUpdateOnDup that reports no error has made the row what it was     *)
(* told, at some moment of the call, whatever others inserted and updated     *)
(* between its statements; only a concurrent delete can leave it with nothing *)
(* done (db.go:905-926).                                                      *)
MyUpsertLands == \A g \in MyCallers : MyDone(g, "upsert") /\ myCall[g].ret = "ok"
    => myCall[g].val \in mySeen[g] \/ g \in myGone

(* A transaction keeps all of its statements or none, unless its function     *)
(* panicked, which commits what it had done; success means all of them, and   *)
(* an error means none but for a commit whose answer was lost.                *)
MyTxWhole == \A g \in MyCallers : MyDone(g, "tx") =>
    LET c == myCall[g]
    IN /\ c.kept \in {0, 2} \/ c.val = "panic"
       /\ c.ret = "ok" => c.kept = 2
       /\ c.ret = "error" /\ c.fin # "lost" => c.kept = 0

(* Whoever writes finds a handle once Start has succeeded; before, and after  *)
(* a Start that failed, whose repetition reports no error, the write panics.  *)
MyNoHandle == \A g \in MyCallers : myCall[g].ret = "panic" /\ (myCall[g].op = "tx" => myCall[g].val = "none")
    => ~myCall[g].ready

(* Close leaves no handle open that a call could have used, also when Start   *)
(* failed after the masters; the handles of slaves, which nothing uses, and   *)
(* those of a list that was not opened to its end stay open.                  *)
MyCloseLeaves == myClosed /\ ~myEarly => myHandles \intersect (myWrite \union myRead) = {}

\* The client of MySQL tells its caller the truth about what it read and what an
\* upsert or a transaction did (db.go:349-957, dbwrap.go:275-372), bounds its
\* retries, finds a handle once started and leaves none of use open when closed.
MyHonest == MyReadHonest /\ MyReadTries /\ MyUpsertLands /\ MyTxWhole /\ MyNoHandle /\ MyCloseLeaves
=============================================================================
